---------------------------- MODULE PersonalProofs ----------------------------
(* Theorems about the personal edition: its runtime that is replaced under a   *)
(* lock (PersonalRuntime), and its profile with the supervision of the two     *)
(* children (PersonalProfile).                                                 *)
EXTENDS PersonalRuntime, PersonalProfile, FiniteSetTheorems, TLAPS

-------------------------------------------------------------------------------
(* The runtime. A step is one of the disk, of the process or of a task: the   *)
(* invariant has a part for each, and a part for the queue of the lock.        *)

\* A configuration is of an earlier write and asks for stored keys only.
Sound(c) == c \in Conf /\ c.ver <= ver /\ \A r \in Roles : c.key[r] <= keys[c.ref[r]]

\* The configuration on disk is one of the writes, or the one of the start.
DiskOK ==
    /\ ver \in 0 .. MaxVersions /\ keys \in [References -> 0 .. ver]
    /\ file = NoFile \/ Sound(file)
    /\ wizard = NoFile \/ Sound(wizard)
    /\ answered \in 0 .. MaxVersions
    /\ cli \in {"none", "started", "refused", "exited"}

\* The runtimes of the process were built in the order of the writes.
BuiltOK ==
    /\ built \in Seq(Conf) /\ Len(built) <= ver + 1
    /\ \A i \in 1 .. Len(built) : Sound(built[i])
    /\ \A i, j \in 1 .. Len(built) : i < j => built[i].ver < built[j].ver

\* The tasks and the lock keep their types.
TasksType ==
    /\ up \in BOOLEAN /\ reloadable \in BOOLEAN
    /\ current \in 0 .. Len(built)
    /\ open \subseteq 1 .. Len(built) /\ leaked \subseteq 1 .. Len(built)
    /\ holder \in Tasks \cup {Nobody}
    /\ queue \in Seq(Tasks)
    /\ pc \in [Tasks -> {"idle", "waiting", "running", "closing"}]
    /\ gen \in [Tasks -> 0 .. Len(built)]
    /\ applied \in 0 .. MaxVersions

\* The current runtime was the last one to be swapped in, by a task of this
\* process, and a process that is down has no task under way.
ProcessOK ==
    /\ ~up => /\ Len(built) = 0 /\ applied = 0 /\ ~reloadable
              /\ \A t \in Tasks : pc[t] = "idle"
    /\ up => current \in open \ leaked /\ applied <= built[current].ver
    /\ holder # Nobody => reloadable /\ pc[holder] \in {"running", "closing"}

\* A saver carries a runtime of its own from the build until it has answered.
TaskOK(t) ==
    /\ pc[t] = "waiting" => reloadable /\ \E i \in 1 .. Len(queue) : queue[i] = t
    /\ pc[t] = "waiting" /\ t \in Savers => gen[t] \in open \ leaked /\ current < gen[t]
    /\ pc[t] = "running" => t \in Requests /\ gen[t] = current /\ (reloadable => holder = t)
    /\ pc[t] = "closing" => /\ t \in Savers /\ reloadable /\ holder = t
                            /\ gen[t] \in 1 .. Len(built) /\ gen[t] \notin open /\ gen[t] # current

\* The savers wait in the order in which they built their runtimes.
QueueOK ==
    /\ \A i \in 1 .. Len(queue) : pc[queue[i]] = "waiting"
    /\ \A i, j \in 1 .. Len(queue) : i < j =>
         /\ queue[i] # queue[j]
         /\ queue[i] \in Savers /\ queue[j] \in Savers => gen[queue[i]] < gen[queue[j]]

\* An open runtime is the current one, leaked, or about to be swapped in.
OpenOK ==
    \A o \in open : o = current \/ o \in leaked \/ \E s \in Savers : pc[s] = "waiting" /\ gen[s] = o

\* What holds of the process, its tasks and the lock between them.
LockOK ==
    /\ TasksType /\ ProcessOK
    /\ \A t \in Tasks : TaskOK(t)
    /\ QueueOK /\ OpenOK

\* The inductive invariant.
RuntimeInv == DiskOK /\ BuiltOK /\ LockOK

\* What the settings are.
LEMMA RuntimeNumbers ==
    /\ MaxVersions \in Nat /\ Nobody \notin Tasks /\ Requests \cap Savers = {} /\ DefaultPort \in Ports
    /\ Tasks = Requests \cup Savers /\ IsFiniteSet(Tasks)
    /\ TextReference \in References /\ MediaReference \in References
    /\ Assignments \subseteq [Roles -> References]
BY RuntimeAssumption, ReferenceAssumption DEF Tasks

\* What was a sound configuration remains one.
LEMMA SoundStays ==
    ASSUME DiskOK, DiskOK', ver <= ver', \A n \in References : keys[n] <= keys'[n], NEW c, Sound(c)
    PROVE  Sound(c)'
<1>1. /\ ver \in Nat /\ ver' \in Nat /\ c \in Conf /\ c.ver \in Nat
      /\ \A r \in Roles : c.key[r] \in Nat /\ c.ref[r] \in References
      /\ \A n \in References : keys[n] \in Nat /\ keys'[n] \in Nat
    BY RuntimeNumbers DEF DiskOK, Sound, Conf
<1>2. QED
    BY <1>1 DEF Sound

\* A process starts with a sound configuration.
LEMMA LoadedSound ==
    ASSUME DiskOK
    PROVE  Sound(Loaded)
<1>1. /\ Default \in Conf /\ Default.ver = 0
      /\ \A r \in Roles : Default.key[r] = 0 /\ Default.ref[r] \in References
  <2>1. 0 \in 0 .. MaxVersions
    BY RuntimeNumbers
  <2>2. QED
    BY <2>1, RuntimeNumbers DEF Default, Conf
<1>2. ver \in Nat /\ \A n \in References : keys[n] \in 0 .. ver /\ 0 <= keys[n]
    BY RuntimeNumbers DEF DiskOK
<1>3. Sound(Default)
    BY <1>1, <1>2 DEF Sound
<1>4. QED
    BY <1>3 DEF Loaded, DiskOK

\* A step of the disk leaves the process alone.
LEMMA DiskMoves ==
    ASSUME RuntimeInv, UNCHANGED <<process, runtime, tasks>>, DiskOK',
           ver <= ver', \A n \in References : keys[n] <= keys'[n]
    PROVE  RuntimeInv'
<1>1. UNCHANGED <<up, reloadable, built, current, open, leaked, holder, queue, pc, gen, applied>>
    BY DEF process, runtime, tasks
<1>2. \A i \in 1 .. Len(built) : Sound(built[i])'
    BY <1>1, SoundStays DEF RuntimeInv, BuiltOK
<1>3. BuiltOK'
  <2>1. Len(built) \in Nat /\ ver \in Nat /\ ver' \in Nat
    BY RuntimeNumbers DEF RuntimeInv, DiskOK, BuiltOK
  <2>2. QED
    BY <1>1, <1>2, <2>1 DEF RuntimeInv, BuiltOK
<1>4. LockOK'
    BY <1>1 DEF RuntimeInv, LockOK, TasksType, ProcessOK, TaskOK, QueueOK, OpenOK
<1>5. QED
    BY <1>3, <1>4 DEF RuntimeInv

\* A step of the tasks leaves the disk alone.
LEMMA TasksMove ==
    ASSUME RuntimeInv, UNCHANGED <<disk, built, wizard, cli>>, answered' \in 0 .. MaxVersions, LockOK'
    PROVE  RuntimeInv'
<1>1. UNCHANGED <<file, keys, ver, built, wizard, cli>>
    BY DEF disk
<1>2. DiskOK'
    BY <1>1 DEF RuntimeInv, DiskOK, Sound
<1>3. BuiltOK'
    BY <1>1 DEF RuntimeInv, BuiltOK, Sound
<1>4. QED
    BY <1>2, <1>3 DEF RuntimeInv

\* A process that ends leaves no task and no runtime.
LEMMA GoneStep ==
    ASSUME Gone, DiskOK'
    PROVE  RuntimeInv'
<1>1. /\ Len(built') = 0 /\ built' \in Seq(Conf) /\ queue' \in Seq(Tasks) /\ Len(queue') = 0
      /\ 1 .. Len(built') = {} /\ 1 .. Len(queue') = {} /\ 0 .. Len(built') = {0}
    BY DEF Gone
<1>2. ver' \in Nat /\ 0 <= ver' + 1 /\ 0 \in 0 .. MaxVersions
  <2>1. ver' \in 0 .. MaxVersions /\ MaxVersions \in Nat
    BY RuntimeNumbers DEF DiskOK
  <2>2. \A n \in 0 .. MaxVersions : n \in Nat /\ 0 <= n + 1
    BY RuntimeNumbers
  <2>3. ver' \in Nat
    BY <2>1, <2>2
  <2>4. 0 <= ver' + 1
    BY <2>1, <2>2
  <2>5. 0 \in 0 .. MaxVersions
    BY <2>1
  <2>6. QED
    BY <2>3, <2>4, <2>5
<1>3. BuiltOK'
  <2>1. Len(built') <= ver' + 1
    BY <1>1, <1>2
  <2>2. \A i \in 1 .. Len(built') : FALSE
    BY <1>1
  <2>3. QED
    BY <1>1, <2>1, <2>2 DEF BuiltOK
<1>4. TasksType'
    BY <1>1, <1>2 DEF Gone, TasksType
<1>5. ProcessOK' /\ QueueOK' /\ OpenOK' /\ \A t \in Tasks : TaskOK(t)'
    BY <1>1 DEF Gone, ProcessOK, QueueOK, OpenOK, TaskOK
<1>6. QED
    BY <1>3, <1>4, <1>5 DEF RuntimeInv, LockOK

\* The invariant holds at the start.
LEMMA RuntimeStart == Init => RuntimeInv
<1> SUFFICES ASSUME Init PROVE RuntimeInv
    OBVIOUS
<1>1. /\ Len(built) = 0 /\ built \in Seq(Conf) /\ queue \in Seq(Tasks) /\ Len(queue) = 0
      /\ 1 .. Len(built) = {} /\ 1 .. Len(queue) = {} /\ 0 .. Len(built) = {0}
    BY DEF Init
<1>2. ver \in Nat /\ ver = 0 /\ 0 \in 0 .. MaxVersions /\ 0 \in 0 .. ver
    BY RuntimeNumbers DEF Init
<1>3. DiskOK
    BY <1>2 DEF Init, DiskOK
<1>4. BuiltOK
    BY <1>1, <1>2 DEF BuiltOK
<1>5. TasksType
    BY <1>1, <1>2 DEF Init, TasksType
<1>6. ProcessOK /\ QueueOK /\ OpenOK /\ \A t \in Tasks : TaskOK(t)
    BY <1>1 DEF Init, ProcessOK, QueueOK, OpenOK, TaskOK
<1>7. QED
    BY <1>3, <1>4, <1>5, <1>6 DEF RuntimeInv, LockOK

\* The process ends.
LEMMA StopStep ==
    ASSUME RuntimeInv, Stop
    PROVE  RuntimeInv'
<1>1. Gone /\ UNCHANGED <<file, keys, ver, wizard, cli, answered>>
    BY DEF Stop, disk, console
<1>2. DiskOK'
    BY <1>1 DEF RuntimeInv, DiskOK, Sound
<1>3. QED
    BY <1>1, <1>2, GoneStep

\* It starts, from the file or without one.
LEMMA StartStep ==
    ASSUME RuntimeInv, NEW port \in Ports, NEW override \in BOOLEAN, Start(port, override)
    PROVE  RuntimeInv'
<1>1. PICK c : c = [Loaded EXCEPT !.port = port]
    OBVIOUS
<1>2. Sound(Loaded) /\ Loaded \in Conf
    BY LoadedSound DEF RuntimeInv, Sound
<1>3. Sound(c) /\ c \in Conf
  <2>1. c \in Conf /\ c.ver = Loaded.ver /\ c.key = Loaded.key /\ c.ref = Loaded.ref
    BY <1>1, <1>2 DEF Conf
  <2>2. QED
    BY <1>2, <2>1 DEF Sound
<1>4. /\ ~up /\ file' \in {file, c} /\ UNCHANGED <<keys, ver, leaked, tasks, answered, wizard>>
      /\ cli' \in {"started", "exited"}
      /\ \/ up' = TRUE /\ reloadable' \in BOOLEAN /\ built' = <<c>> /\ current' = 1 /\ open' = {1}
         \/ UNCHANGED <<process, built, current, open>>
    BY <1>1 DEF Start, FirstRuntime
<1>5. UNCHANGED <<holder, queue, pc, gen, applied>>
    BY <1>4 DEF tasks
<1>6. ver \in Nat /\ ver <= ver' /\ \A n \in References : keys[n] <= keys'[n]
    BY <1>4, RuntimeNumbers DEF RuntimeInv, DiskOK
<1>7. DiskOK'
    BY <1>3, <1>4 DEF RuntimeInv, DiskOK, Sound
<1>8. CASE UNCHANGED <<process, built, current, open>>
    BY <1>4, <1>6, <1>7, <1>8, DiskMoves DEF runtime
<1>9. CASE up' = TRUE /\ reloadable' \in BOOLEAN /\ built' = <<c>> /\ current' = 1 /\ open' = {1}
  <2>1. /\ built' \in Seq(Conf) /\ Len(built)' = 1 /\ built'[1] = c /\ 1 .. Len(built)' = {1}
        /\ 0 .. Len(built)' = {0, 1}
    BY <1>3, <1>9
  <2>2. c.ver \in Nat
    BY <1>3, RuntimeNumbers DEF Conf
  <2>3. BuiltOK'
    BY <1>3, <1>4, <1>6, <2>1 DEF BuiltOK, Sound
  <2>4. /\ Len(built) = 0 /\ applied = 0 /\ \A t \in Tasks : pc[t] = "idle" /\ gen[t] = 0
        /\ leaked = {} /\ holder = Nobody /\ Len(queue) = 0 /\ 1 .. Len(queue) = {}
    <3>1. Len(built) = 0 /\ applied = 0 /\ ~reloadable /\ \A t \in Tasks : pc[t] = "idle"
      BY <1>4 DEF RuntimeInv, LockOK, ProcessOK
    <3>2. 1 .. Len(built) = {} /\ 0 .. Len(built) = {0}
      BY <3>1
    <3>3. leaked = {} /\ \A t \in Tasks : gen[t] = 0
      BY <3>2 DEF RuntimeInv, LockOK, TasksType
    <3>4. holder = Nobody
      BY <3>1 DEF RuntimeInv, LockOK, ProcessOK
    <3>5. 1 .. Len(queue) = {} /\ Len(queue) = 0
      <4>1. queue \in Seq(Tasks) /\ Len(queue) \in Nat
        BY DEF RuntimeInv, LockOK, TasksType
      <4>2. \A i \in 1 .. Len(queue) : queue[i] \in Tasks /\ pc[queue[i]] = "waiting"
        BY <4>1 DEF RuntimeInv, LockOK, QueueOK
      <4>3. \A i \in 1 .. Len(queue) : FALSE
        BY <3>1, <4>2
      <4>4. Len(queue) # 0 => 1 \in 1 .. Len(queue)
        BY <4>1
      <4>5. QED
        BY <4>3, <4>4
    <3>6. QED
      BY <3>1, <3>3, <3>4, <3>5
  <2>5. TasksType'
    BY <1>4, <1>5, <1>9, <2>1, <2>4 DEF RuntimeInv, LockOK, TasksType
  <2>6. ProcessOK'
    BY <1>4, <1>5, <1>9, <2>1, <2>2, <2>4 DEF ProcessOK
  <2>7. QueueOK' /\ OpenOK' /\ \A t \in Tasks : TaskOK(t)'
    BY <1>5, <1>9, <2>4 DEF QueueOK, OpenOK, TaskOK
  <2>8. QED
    BY <1>7, <2>3, <2>5, <2>6, <2>7 DEF RuntimeInv, LockOK
<1>10. QED
    BY <1>4, <1>8, <1>9

\* The answers of the console.
LEMMA ConsoleSteps ==
    ASSUME RuntimeInv, StartRefused \/ WizardRead
    PROVE  RuntimeInv'
<1>1. UNCHANGED <<process, runtime, tasks, file, keys, ver, answered>>
    BY DEF StartRefused, WizardRead, disk
<1>2. wizard' \in {wizard, Loaded} /\ cli' \in {cli, "refused"}
    BY DEF StartRefused, WizardRead
<1>3. DiskOK'
    BY <1>1, <1>2, LoadedSound DEF RuntimeInv, DiskOK, Sound
<1>4. ver <= ver' /\ \A n \in References : keys[n] <= keys'[n]
    BY <1>1, RuntimeNumbers DEF RuntimeInv, DiskOK
<1>5. QED
    BY <1>1, <1>3, <1>4, DiskMoves

\* A write takes the next number.
LEMMA NextVersion ==
    ASSUME DiskOK, ver < MaxVersions, ver' = ver + 1
    PROVE  /\ ver \in Nat /\ ver' \in Nat /\ ver' \in 0 .. MaxVersions /\ ver <= ver'
           /\ \A k \in 0 .. ver : k \in 0 .. ver' /\ k <= ver' /\ k \in Nat
           /\ ver' \in 0 .. ver'
BY RuntimeNumbers DEF DiskOK

\* The wizard writes its file.
LEMMA WizardWriteStep ==
    ASSUME RuntimeInv, NEW port \in Ports, NEW kind \in {"good", "odd"}, WizardWrite(port, kind)
    PROVE  RuntimeInv'
<1>1. /\ DiskOK /\ ver < MaxVersions /\ ver' = ver + 1 /\ wizard' = NoFile /\ Sound(wizard)
      /\ UNCHANGED <<keys, process, runtime, tasks, answered, cli>>
    BY DEF RuntimeInv, DiskOK, WizardWrite
<1>2. PICK c : c = [wizard EXCEPT !.ver = ver + 1, !.port = port, !.kind = kind]
    OBVIOUS
<1>3. file' = c
    BY <1>2 DEF WizardWrite
<1>4. ver' \in 0 .. MaxVersions /\ \A n \in References : keys[n] \in 0 .. ver' /\ keys[n] \in Nat
    BY <1>1, NextVersion DEF DiskOK
<1>5. c \in Conf /\ c.ver = ver' /\ c.key = wizard.key /\ c.ref = wizard.ref
    BY <1>1, <1>2, <1>4 DEF Sound, Conf
<1>6. Sound(c)'
    BY <1>1, <1>4, <1>5 DEF Sound
<1>7. keys' \in [References -> 0 .. ver']
    BY <1>1, <1>4 DEF DiskOK
<1>8. DiskOK'
    BY <1>1, <1>3, <1>4, <1>6, <1>7 DEF DiskOK, Sound
<1>9. QED
    BY <1>1, <1>4, <1>8, NextVersion, DiskMoves

\* What a save writes is a configuration that asks for the keys it has stored.
LEMMA SavedConf ==
    ASSUME DiskOK, ver < MaxVersions, ver' = ver + 1, NEW port \in Ports, NEW kind \in {"good", "odd"},
           NEW ref \in [Roles -> References], NEW R \in SUBSET Roles, keys' = Stored(ref, R)
    PROVE  LET c == Saved(port, kind, ref, R)
           IN  /\ c \in Conf /\ c.ver = ver' /\ c.ref = ref
               /\ \A r \in Roles : c.key[r] = keys'[ref[r]]
<1>1. ref \in [Roles -> References]
    BY RuntimeNumbers
<1>2. \A n \in References : keys[n] \in 0 .. ver
    BY DEF DiskOK
<1>3. \A n \in References : keys'[n] \in 0 .. MaxVersions
    BY <1>2, NextVersion, RuntimeNumbers DEF Stored
<1>4. PICK k : k = [r \in Roles |-> keys'[ref[r]]]
    OBVIOUS
<1>5. k \in [Roles -> 0 .. MaxVersions] /\ \A r \in Roles : k[r] = keys'[ref[r]]
    BY <1>1, <1>3, <1>4
<1>6. Saved(port, kind, ref, R) =
        [ver |-> ver', port |-> port, kind |-> kind, refs |-> "blank", ref |-> ref, key |-> k]
    BY <1>4 DEF Saved
<1>7. QED
    BY <1>1, <1>5, <1>6, NextVersion DEF Conf

\* The disk when a save is cut short, and when it is not.
LEMMA SavedSound ==
    ASSUME DiskOK, ver < MaxVersions, ver' = ver + 1, NEW port \in Ports, NEW kind \in {"good", "odd"},
           NEW ref \in [Roles -> References], NEW R \in SUBSET Roles, NEW P \in SUBSET Roles, keys' = Stored(ref, P),
           file' = file \/ (P = R /\ file' = Saved(port, kind, ref, R)),
           UNCHANGED <<wizard, cli>>, answered' \in 0 .. MaxVersions
    PROVE  DiskOK' /\ \A n \in References : keys[n] <= keys'[n]
<1>1. \A n \in References : keys[n] \in 0 .. ver /\ keys[n] \in Nat /\ keys[n] <= ver'
    BY NextVersion DEF DiskOK
<1>2. keys' \in [References -> 0 .. ver'] /\ \A n \in References : keys[n] <= keys'[n]
    BY <1>1, NextVersion DEF Stored
<1>3. PICK c : c = Saved(port, kind, ref, R)
    OBVIOUS
<1>4. ref \in [Roles -> References]
    BY RuntimeNumbers
<1>5. P = R => Sound(c)'
  <2>1. ASSUME P = R PROVE /\ c \in Conf /\ c.ver = ver' /\ c.ref = ref
                           /\ \A r \in Roles : c.key[r] = keys'[ref[r]]
    BY <1>3, <2>1, SavedConf
  <2>2. ASSUME P = R, NEW r \in Roles PROVE c.key[r] <= keys'[c.ref[r]]
    <3>1. keys'[ref[r]] \in 0 .. ver'
      BY <1>2, <1>4
    <3>2. QED
      BY <2>1, <2>2, <3>1, NextVersion
  <2>3. QED
    BY <2>1, <2>2, NextVersion DEF Sound
<1>6. ASSUME NEW d, Sound(d) PROVE Sound(d)'
  <2>1. d \in Conf /\ d.ver \in Nat /\ \A r \in Roles : d.key[r] \in Nat /\ d.ref[r] \in References
    BY <1>6, RuntimeNumbers DEF Sound, Conf
  <2>2. \A n \in References : keys'[n] \in Nat
    BY <1>2, NextVersion
  <2>3. QED
    BY <1>1, <1>2, <1>6, <2>1, <2>2, NextVersion DEF Sound
<1>7. PICK f : f = file'
    OBVIOUS
<1>8. f = NoFile \/ Sound(f)'
  <2>1. CASE f = file
    BY <1>6, <2>1 DEF DiskOK
  <2>2. CASE P = R /\ f = c
    BY <1>5, <2>2
  <2>3. QED
    BY <1>3, <1>7, <2>1, <2>2
<1>9. wizard = NoFile \/ Sound(wizard)'
  <2>1. PICK w : w = wizard
    OBVIOUS
  <2>2. w = NoFile \/ Sound(w)'
    BY <1>6, <2>1 DEF DiskOK
  <2>3. QED
    BY <2>1, <2>2 DEF Sound
<1>10. QED
    BY <1>2, <1>7, <1>8, <1>9, NextVersion DEF DiskOK, Sound

\* A save fails at one of its writes.
LEMMA SaveFailsStep ==
    ASSUME RuntimeInv, NEW s \in Savers, NEW port \in Ports, NEW kind \in {"good", "odd"},
           NEW ref \in [Roles -> References], NEW R \in SUBSET Roles,
           SaveFails(s, port, kind, ref, R) \/ SaveCut(s, port, kind, ref, R)
    PROVE  RuntimeInv'
<1>1. /\ DiskOK /\ ver < MaxVersions /\ ver' = ver + 1
      /\ \E d \in CutAt(Saved(port, kind, ref, R), R) : keys' = d.keys /\ file' = d.file
      /\ UNCHANGED <<wizard, cli, answered>>
      /\ UNCHANGED <<process, runtime, tasks>> \/ Gone
    BY DEF RuntimeInv, SaveFails, SaveCut, console
<1>2. PICK d \in CutAt(Saved(port, kind, ref, R), R) : keys' = d.keys /\ file' = d.file
    BY <1>1
<1>3. \E P \in SUBSET Roles :
        keys' = Stored(ref, P) /\ (file' = file \/ (P = R /\ file' = Saved(port, kind, ref, R)))
  <2>1. CASE d = [keys |-> Stored(ref, R), file |-> Saved(port, kind, ref, R)]
    BY <1>2, <2>1
  <2>2. CASE \E P \in {{}, R \cap {"textLlm"}, R} : d = [keys |-> Stored(ref, P), file |-> file]
    <3>1. PICK P \in {{}, R \cap {"textLlm"}, R} : d = [keys |-> Stored(ref, P), file |-> file]
      BY <2>2
    <3>2. P \in SUBSET Roles /\ keys' = Stored(ref, P) /\ file' = file
      BY <1>2, <3>1 DEF Roles
    <3>3. QED
      BY <3>2
  <2>3. QED
    <3>1. Saved(port, kind, ref, R).ref = ref
      BY DEF Saved
    <3>2. QED
      BY <1>2, <2>1, <2>2, <3>1 DEF CutAt
<1>4. PICK P \in SUBSET Roles :
        keys' = Stored(ref, P) /\ (file' = file \/ (P = R /\ file' = Saved(port, kind, ref, R)))
    BY <1>3
<1>5. answered' \in 0 .. MaxVersions
    BY <1>1 DEF DiskOK
<1>6. DiskOK' /\ \A n \in References : keys[n] <= keys'[n]
    BY <1>1, <1>4, <1>5, SavedSound
<1>7. QED
    BY <1>1, <1>6, NextVersion, DiskMoves, GoneStep

\* A save is written whole.
LEMMA SaveStep ==
    ASSUME RuntimeInv, NEW s \in Savers, NEW port \in Ports, NEW kind \in {"good", "odd"},
           NEW ref \in [Roles -> References], NEW R \in SUBSET Roles, Save(s, port, kind, ref, R)
    PROVE  RuntimeInv'
<1>1. /\ DiskOK /\ BuiltOK /\ LockOK /\ TasksType /\ ver < MaxVersions /\ ver' = ver + 1 /\ up
      /\ keys' = Stored(ref, R)
      /\ file' = Saved(port, kind, ref, R) /\ UNCHANGED <<process, wizard, cli>> /\ pc[s] = "idle"
      /\ s \in Tasks
    BY RuntimeNumbers DEF RuntimeInv, LockOK, Save
<1>2. ver' \in 0 .. MaxVersions
    BY <1>1, NextVersion
<1>3. answered' \in 0 .. MaxVersions
    BY <1>1, <1>2 DEF Save, DiskOK
<1>4. DiskOK' /\ \A n \in References : keys[n] <= keys'[n]
    BY <1>1, <1>3, SavedSound
<1>5. CASE ~(Reloads(file') /\ Builds(file'))
  <2>1. UNCHANGED <<process, runtime, tasks>>
    BY <1>1, <1>5 DEF Save
  <2>2. QED
    BY <1>1, <1>4, <2>1, NextVersion, DiskMoves
<1>6. CASE Reloads(file') /\ Builds(file')
  <2>1. PICK c : c = file'
    OBVIOUS
  <2>2. /\ built' = Append(built, c) /\ open' = open \cup {Len(built')}
        /\ gen' = [gen EXCEPT ![s] = Len(built')] /\ pc' = [pc EXCEPT ![s] = "waiting"]
        /\ queue' = Append(queue, s) /\ UNCHANGED <<current, leaked, holder, applied, up, reloadable>>
        /\ reloadable
    BY <1>1, <1>6, <2>1 DEF Save, Replacement, Reloads, process
  <2>3. c \in Conf /\ c.ver = ver'
    BY <1>1, <2>1, SavedConf
  <2>4. Sound(c)'
    <3>1. PICK f : f = file'
      OBVIOUS
    <3>2. f = NoFile \/ Sound(f)'
      BY <1>4, <3>1 DEF DiskOK, Sound
    <3>3. QED
      BY <2>1, <2>3, <3>1, <3>2, NoFileAssumption
  <2>5. PICK n \in Nat : n = Len(built)
    BY <1>1 DEF BuiltOK
  <2>6. /\ built' \in Seq(Conf) /\ Len(built') = n + 1 /\ built'[n + 1] = c
        /\ \A i \in 1 .. n : built'[i] = built[i]
        /\ 1 .. Len(built) = 1 .. n /\ n + 1 \notin 1 .. n
        /\ \A i \in 1 .. Len(built') : i \in 1 .. n \/ i = n + 1
        /\ \A i \in 1 .. n : i \in 1 .. Len(built') /\ i < n + 1
        /\ \A i \in 0 .. n : i \in 0 .. Len(built') /\ i < n + 1
        /\ n + 1 \in 1 .. Len(built') /\ n + 1 \in 0 .. Len(built')
    BY <1>1, <2>2, <2>3, <2>5 DEF BuiltOK
  <2>7. BuiltOK'
    <3>1. Len(built') <= ver' + 1
      BY <1>1, <2>5, <2>6, NextVersion DEF BuiltOK
    <3>2. ASSUME NEW i \in 1 .. n PROVE Sound(built[i])' /\ built[i].ver < ver'
      <4>1. Sound(built[i])
        BY <1>1, <2>6 DEF BuiltOK
      <4>2. PICK d : d = built[i]
        OBVIOUS
      <4>3. Sound(d)'
        BY <1>1, <1>4, <4>1, <4>2, SoundStays, NextVersion
      <4>4. d.ver <= ver /\ d.ver \in Nat
        BY <4>1, <4>2, RuntimeNumbers DEF Sound, Conf
      <4>5. d.ver < ver'
        BY <1>1, <4>4, NextVersion
      <4>6. built'[i] = d /\ built[i] = d
        BY <2>6, <4>2
      <4>7. Sound(built[i])'
        BY <4>3, <4>6 DEF Sound
      <4>8. QED
        BY <4>2, <4>5, <4>7
    <3>3. \A i \in 1 .. Len(built') : Sound(built[i])'
      BY <2>4, <2>6, <3>2 DEF Sound
    <3>4. ASSUME NEW i \in 1 .. Len(built'), NEW j \in 1 .. Len(built'), i < j
          PROVE  built'[i].ver < built'[j].ver
      <4>1. i \in 1 .. n
        BY <2>6, <3>4
      <4>2. CASE j = n + 1
        BY <2>3, <2>6, <3>2, <4>1, <4>2
      <4>3. CASE j \in 1 .. n
        BY <1>1, <2>6, <3>4, <4>1, <4>3 DEF BuiltOK
      <4>4. QED
        BY <2>6, <4>2, <4>3
    <3>5. QED
      BY <2>6, <3>1, <3>3, <3>4 DEF BuiltOK, Sound
  <2>8. PICK m \in Nat : m = Len(queue)
    BY <1>1 DEF TasksType
  <2>9. /\ queue' \in Seq(Tasks) /\ Len(queue') = m + 1 /\ queue'[m + 1] = s
        /\ \A i \in 1 .. m : queue'[i] = queue[i] /\ queue[i] \in Tasks /\ i \in 1 .. Len(queue')
        /\ \A i \in 1 .. Len(queue') : i \in 1 .. m \/ i = m + 1
        /\ m + 1 \in 1 .. Len(queue')
        /\ \A i \in 1 .. Len(queue') : ~(m + 1 < i) /\ (i < m + 1 => i \in 1 .. m)
    BY <1>1, <2>2, <2>8 DEF TasksType
  <2>10. /\ gen' \in [Tasks -> 0 .. Len(built')]
         /\ pc' \in [Tasks -> {"idle", "waiting", "running", "closing"}]
         /\ gen'[s] = n + 1 /\ pc'[s] = "waiting"
         /\ \A t \in Tasks \ {s} : gen'[t] = gen[t] /\ pc'[t] = pc[t]
         /\ \A t \in Tasks : gen[t] \in 0 .. n
    BY <1>1, <2>2, <2>5, <2>6 DEF TasksType
  <2>11. /\ open' = open \cup {n + 1} /\ n + 1 \notin open /\ n + 1 \notin leaked /\ current < n + 1
         /\ current \in 1 .. n /\ open \subseteq 1 .. n /\ leaked \subseteq 1 .. n
    BY <1>1, <2>2, <2>5, <2>6 DEF TasksType, LockOK, ProcessOK
  <2>12. TasksType'
    <3>1. current \in 0 .. Len(built')
      BY <2>6, <2>11
    <3>2. open' \subseteq 1 .. Len(built') /\ leaked \subseteq 1 .. Len(built')
      BY <2>6, <2>11
    <3>3. QED
      BY <1>1, <2>2, <2>9, <2>10, <3>1, <3>2 DEF TasksType
  <2>13. ProcessOK'
    BY <1>1, <2>2, <2>6, <2>10, <2>11 DEF LockOK, ProcessOK, TasksType
  <2>14. \A i \in 1 .. m : queue[i] # s /\ pc[queue[i]] = "waiting"
    BY <1>1, <2>8 DEF LockOK, QueueOK
  <2>15. ASSUME NEW t \in Tasks PROVE TaskOK(t)'
    <3>1. CASE t = s
      BY <2>2, <2>9, <2>10, <2>11, <3>1 DEF TaskOK
    <3>2. CASE t # s
      <4>1. TaskOK(t) /\ gen'[t] = gen[t] /\ pc'[t] = pc[t] /\ gen[t] \in 0 .. n
        BY <1>1, <2>10, <3>2 DEF LockOK
      <4>2. (\E i \in 1 .. Len(queue) : queue[i] = t) => \E i \in 1 .. Len(queue') : queue'[i] = t
        BY <2>8, <2>9
      <4>3. \A g \in 0 .. n : g # n + 1
        BY <2>6
      <4>4. QED
        BY <2>2, <2>6, <2>11, <4>1, <4>2, <4>3 DEF TaskOK
    <3>3. QED
      BY <3>1, <3>2
  <2>16. QueueOK'
    <3>1. \A i \in 1 .. Len(queue') : pc'[queue'[i]] = "waiting"
      BY <2>9, <2>10, <2>14, SMTT(30)
    <3>2. ASSUME NEW i \in 1 .. Len(queue'), NEW j \in 1 .. Len(queue'), i < j
          PROVE  /\ queue'[i] # queue'[j]
                 /\ queue'[i] \in Savers /\ queue'[j] \in Savers => gen'[queue'[i]] < gen'[queue'[j]]
      <4>1. i \in 1 .. m
        BY <2>9, <3>2
      <4>2. CASE j = m + 1
        <5>1. queue'[j] = s /\ queue'[i] = queue[i] /\ queue[i] \in Tasks \ {s}
          BY <2>9, <2>14, <4>1, <4>2
        <5>2. gen'[queue'[i]] \in 0 .. n /\ gen'[queue'[j]] = n + 1
          BY <2>10, <5>1
        <5>3. QED
          BY <2>6, <5>1, <5>2
      <4>3. CASE j \in 1 .. m
        <5>1. /\ queue[i] # queue[j]
              /\ queue[i] \in Savers /\ queue[j] \in Savers => gen[queue[i]] < gen[queue[j]]
          BY <1>1, <2>8, <3>2, <4>1, <4>3 DEF LockOK, QueueOK
        <5>2. queue[i] \in Tasks \ {s} /\ queue[j] \in Tasks \ {s}
          BY <2>9, <2>14, <4>1, <4>3
        <5>3. QED
          BY <2>9, <2>10, <4>1, <4>3, <5>1, <5>2
      <4>4. QED
        BY <2>9, <4>2, <4>3
    <3>3. QED
      BY <3>1, <3>2 DEF QueueOK
  <2>17. OpenOK'
    <3>1. ASSUME NEW o \in open
          PROVE  o = current \/ o \in leaked \/ \E t \in Savers : pc'[t] = "waiting" /\ gen'[t] = o
      <4>1. o = current \/ o \in leaked \/ \E t \in Savers : pc[t] = "waiting" /\ gen[t] = o
        BY <1>1 DEF LockOK, OpenOK
      <4>2. \A t \in Savers : pc[t] = "waiting" => t \in Tasks \ {s}
        BY <1>1, RuntimeNumbers
      <4>3. QED
        BY <2>10, <4>1, <4>2
    <3>2. QED
      BY <2>2, <2>10, <2>11, <3>1 DEF OpenOK
  <2>18. QED
    BY <1>4, <2>7, <2>12, <2>13, <2>15, <2>16, <2>17 DEF RuntimeInv, LockOK
<1>7. QED
    BY <1>5, <1>6

\* A task that is granted the lock leaves the queue at its head.
LEMMA GrantedFacts ==
    ASSUME RuntimeInv, NEW t \in Tasks, Granted(t), queue' = Without(queue, t)
    PROVE  /\ pc[t] = "waiting" /\ reloadable /\ up
           /\ \A r \in Tasks : pc[r] \in {"idle", "waiting"}
           /\ queue' \in Seq(Tasks)
           /\ \A i \in 1 .. Len(queue') : i + 1 \in 1 .. Len(queue) /\ queue'[i] = queue[i + 1]
           /\ \A i, j \in 1 .. Len(queue') : i < j => i + 1 < j + 1
           /\ \A i \in 1 .. Len(queue) : queue[i] # t => \E j \in 1 .. Len(queue') : queue'[j] = queue[i]
           /\ \A i \in 1 .. Len(queue') :
                /\ queue'[i] # t /\ pc[queue'[i]] = "waiting"
                /\ t \in Savers /\ queue'[i] \in Savers => gen[t] < gen[queue'[i]]
<1>1. /\ TasksType /\ ProcessOK /\ QueueOK /\ \A r \in Tasks : TaskOK(r)
      /\ queue \in Seq(Tasks) /\ queue # <<>> /\ Head(queue) = t /\ holder = Nobody
    BY DEF RuntimeInv, LockOK, Granted, TasksType
<1>2. PICK m \in Nat : m = Len(queue) /\ m >= 1 /\ 1 \in 1 .. m /\ queue[1] = t
    BY <1>1
<1>3. \A i \in 1 .. Len(queue) : queue[i] = t => i = 1
  <2>1. ASSUME NEW i \in 1 .. Len(queue), queue[i] = t PROVE i = 1
    <3>1. ~(1 < i)
      BY <1>1, <1>2, <2>1 DEF QueueOK
    <3>2. QED
      BY <1>2, <3>1
  <2>2. QED
    BY <2>1
<1>4. (CHOOSE i \in 1 .. Len(queue) : queue[i] = t) = 1
    BY <1>2, <1>3
<1>5. queue' = [i \in 1 .. (Len(queue) - 1) |-> IF i < 1 THEN queue[i] ELSE queue[i + 1]]
    BY <1>4 DEF Without
<1>6. PICK n \in Nat : n = m - 1 /\ m = n + 1
    BY <1>2
<1>7. /\ queue' = [i \in 1 .. n |-> queue[i + 1]]
      /\ \A i \in 1 .. n : i + 1 \in 1 .. m /\ queue[i + 1] \in Tasks /\ 1 < i + 1
  <2>1. \A i \in 1 .. n : i + 1 \in 1 .. m /\ queue[i + 1] \in Tasks /\ 1 < i + 1 /\ ~(i < 1)
    BY <1>1, <1>2, <1>6
  <2>2. QED
    BY <1>2, <1>5, <1>6, <2>1
<1>8. queue' \in Seq(Tasks) /\ Len(queue') = n /\ \A i \in 1 .. n : queue'[i] = queue[i + 1]
    BY <1>7
<1>9. ASSUME NEW i \in 1 .. Len(queue), queue[i] # t
      PROVE  \E j \in 1 .. Len(queue') : queue'[j] = queue[i]
  <2>1. i # 1
    BY <1>2, <1>9
  <2>2. i - 1 \in 1 .. n /\ (i - 1) + 1 = i
    BY <1>2, <1>6, <2>1
  <2>3. QED
    BY <1>8, <2>2
<1>10. \A i \in 1 .. Len(queue') :
         /\ queue'[i] # t /\ pc[queue'[i]] = "waiting"
         /\ t \in Savers /\ queue'[i] \in Savers => gen[t] < gen[queue'[i]]
    BY <1>1, <1>2, <1>7, <1>8 DEF QueueOK
<1>11. pc[t] = "waiting" /\ reloadable /\ up
    BY <1>1, <1>2 DEF QueueOK, TaskOK, ProcessOK, TasksType
<1>12. ASSUME NEW r \in Tasks PROVE pc[r] \in {"idle", "waiting"}
  <2>1. holder # r /\ TaskOK(r) /\ pc[r] \in {"idle", "waiting", "running", "closing"}
    BY <1>1, RuntimeNumbers DEF TasksType
  <2>2. QED
    BY <1>11, <2>1 DEF TaskOK
<1>13. /\ \A i \in 1 .. Len(queue') : i + 1 \in 1 .. Len(queue) /\ queue'[i] = queue[i + 1]
       /\ \A i, j \in 1 .. Len(queue') : i < j => i + 1 < j + 1
    BY <1>2, <1>7, <1>8
<1>14. QED
    BY <1>8, <1>9, <1>10, <1>11, <1>12, <1>13

\* A request waits for the lock, or takes it.
LEMMA ArriveStep ==
    ASSUME RuntimeInv, NEW r \in Requests, Arrive(r)
    PROVE  RuntimeInv'
<1>1. /\ TasksType /\ ProcessOK /\ QueueOK /\ OpenOK /\ \A t \in Tasks : TaskOK(t)
      /\ r \in Tasks /\ r \notin Savers /\ pc[r] = "idle" /\ up /\ reloadable
      /\ pc' = [pc EXCEPT ![r] = "waiting"] /\ queue' = Append(queue, r)
      /\ UNCHANGED <<disk, up, reloadable, built, current, open, leaked, holder, gen, applied,
                     wizard, cli, answered>>
    BY RuntimeNumbers DEF RuntimeInv, LockOK, Arrive, process, runtime, console
<1>2. PICK m \in Nat : m = Len(queue)
    BY <1>1 DEF TasksType
<1>3. /\ queue' \in Seq(Tasks) /\ Len(queue') = m + 1 /\ queue'[m + 1] = r
      /\ \A i \in 1 .. m : queue'[i] = queue[i] /\ queue[i] \in Tasks /\ i \in 1 .. Len(queue')
      /\ \A i \in 1 .. Len(queue') : i \in 1 .. m \/ i = m + 1
      /\ m + 1 \in 1 .. Len(queue')
      /\ \A i \in 1 .. Len(queue') : ~(m + 1 < i) /\ (i < m + 1 => i \in 1 .. m)
    BY <1>1, <1>2 DEF TasksType
<1>4. /\ pc' \in [Tasks -> {"idle", "waiting", "running", "closing"}] /\ pc'[r] = "waiting"
      /\ \A t \in Tasks \ {r} : pc'[t] = pc[t]
    BY <1>1 DEF TasksType
<1>5. \A i \in 1 .. m : queue[i] # r /\ pc[queue[i]] = "waiting"
    BY <1>1, <1>2 DEF QueueOK
<1>6. TasksType'
    BY <1>1, <1>3, <1>4 DEF TasksType
<1>7. ProcessOK'
    BY <1>1, <1>4 DEF ProcessOK, TasksType
<1>8. ASSUME NEW t \in Tasks PROVE TaskOK(t)'
  <2>1. (\E i \in 1 .. Len(queue) : queue[i] = t) => \E i \in 1 .. Len(queue') : queue'[i] = t
    BY <1>2, <1>3
  <2>2. \E i \in 1 .. Len(queue') : queue'[i] = r
    BY <1>3
  <2>3. QED
    BY <1>1, <1>4, <2>1, <2>2 DEF TaskOK
<1>9. QueueOK'
  <2>1. \A i \in 1 .. Len(queue') : pc'[queue'[i]] = "waiting"
    BY <1>3, <1>4, <1>5
  <2>2. ASSUME NEW i \in 1 .. Len(queue'), NEW j \in 1 .. Len(queue'), i < j
        PROVE  /\ queue'[i] # queue'[j]
               /\ queue'[i] \in Savers /\ queue'[j] \in Savers => gen[queue'[i]] < gen[queue'[j]]
    <3>1. i \in 1 .. m
      BY <1>3, <2>2
    <3>2. CASE j = m + 1
      BY <1>1, <1>3, <1>5, <3>1, <3>2
    <3>3. CASE j \in 1 .. m
      BY <1>1, <1>2, <1>3, <2>2, <3>1, <3>3 DEF QueueOK
    <3>4. QED
      BY <1>3, <3>2, <3>3
  <2>3. QED
    BY <1>1, <2>1, <2>2 DEF QueueOK
<1>10. OpenOK'
  <2>1. \A t \in Savers : t \in Tasks \ {r}
    BY <1>1, RuntimeNumbers
  <2>2. QED
    BY <1>1, <1>4, <2>1 DEF OpenOK
<1>11. LockOK'
    BY <1>6, <1>7, <1>8, <1>9, <1>10 DEF LockOK
<1>12. answered' \in 0 .. MaxVersions
    BY <1>1 DEF RuntimeInv, DiskOK
<1>13. QED
    BY <1>1, <1>11, <1>12, TasksMove

\* A request that is granted the lock begins.
LEMMA InvokeBeginStep ==
    ASSUME RuntimeInv, NEW r \in Requests, InvokeBegin(r)
    PROVE  RuntimeInv'
<1>1. /\ TasksType /\ ProcessOK /\ QueueOK /\ OpenOK /\ \A t \in Tasks : TaskOK(t)
      /\ r \in Tasks /\ r \notin Savers /\ Granted(r) /\ holder' = r /\ queue' = Without(queue, r)
      /\ pc' = [pc EXCEPT ![r] = "running"] /\ gen' = [gen EXCEPT ![r] = current]
      /\ UNCHANGED <<disk, up, reloadable, built, current, open, leaked, applied, wizard, cli, answered>>
    BY RuntimeNumbers DEF RuntimeInv, LockOK, InvokeBegin, process, runtime, console
<1>2. /\ pc[r] = "waiting" /\ reloadable /\ up
      /\ \A t \in Tasks : pc[t] \in {"idle", "waiting"}
      /\ queue' \in Seq(Tasks)
      /\ \A i \in 1 .. Len(queue') : i + 1 \in 1 .. Len(queue) /\ queue'[i] = queue[i + 1]
      /\ \A i, j \in 1 .. Len(queue') : i < j => i + 1 < j + 1
      /\ \A i \in 1 .. Len(queue) : queue[i] # r => \E j \in 1 .. Len(queue') : queue'[j] = queue[i]
      /\ \A i \in 1 .. Len(queue') : queue'[i] # r /\ pc[queue'[i]] = "waiting" /\ queue'[i] \in Tasks
  <2>1. /\ pc[r] = "waiting" /\ reloadable /\ up
        /\ \A t \in Tasks : pc[t] \in {"idle", "waiting"}
        /\ queue' \in Seq(Tasks)
        /\ \A i \in 1 .. Len(queue') : i + 1 \in 1 .. Len(queue) /\ queue'[i] = queue[i + 1]
        /\ \A i, j \in 1 .. Len(queue') : i < j => i + 1 < j + 1
        /\ \A i \in 1 .. Len(queue) : queue[i] # r => \E j \in 1 .. Len(queue') : queue'[j] = queue[i]
        /\ \A i \in 1 .. Len(queue') : queue'[i] # r /\ pc[queue'[i]] = "waiting"
    BY <1>1, GrantedFacts
  <2>2. \A i \in 1 .. Len(queue') : queue'[i] \in Tasks
    BY <2>1
  <2>3. QED
    BY <2>1, <2>2
<1>3. /\ pc' \in [Tasks -> {"idle", "waiting", "running", "closing"}] /\ pc'[r] = "running"
      /\ gen' \in [Tasks -> 0 .. Len(built)] /\ gen'[r] = current
      /\ \A t \in Tasks \ {r} : pc'[t] = pc[t] /\ gen'[t] = gen[t]
    BY <1>1 DEF TasksType
<1>4. TasksType'
    BY <1>1, <1>2, <1>3 DEF TasksType
<1>5. ProcessOK'
    BY <1>1, <1>2, <1>3 DEF ProcessOK
<1>6. ASSUME NEW t \in Tasks PROVE TaskOK(t)'
  <2>1. CASE t = r
    BY <1>1, <1>3, <2>1 DEF TaskOK
  <2>2. CASE t # r
    <3>1. (\E i \in 1 .. Len(queue) : queue[i] = t) => \E i \in 1 .. Len(queue') : queue'[i] = t
      BY <1>2, <2>2
    <3>2. QED
      BY <1>1, <1>2, <1>3, <2>2, <3>1 DEF TaskOK
  <2>3. QED
    BY <2>1, <2>2
<1>7. QueueOK'
  <2>1. \A i \in 1 .. Len(queue') : pc'[queue'[i]] = "waiting"
    BY <1>2, <1>3
  <2>2. ASSUME NEW i \in 1 .. Len(queue'), NEW j \in 1 .. Len(queue'), i < j
        PROVE  /\ queue'[i] # queue'[j]
               /\ queue'[i] \in Savers /\ queue'[j] \in Savers => gen'[queue'[i]] < gen'[queue'[j]]
    <3>1. PICK n \in Nat : n = Len(queue) /\ n # 0
      BY <1>1, <1>2 DEF TasksType
    <3>2. PICK a, b \in 1 .. n : a = i + 1 /\ b = j + 1 /\ a < b
      BY <1>2, <2>2, <3>1
    <3>3. queue'[i] = queue[a] /\ queue'[j] = queue[b]
      BY <1>2, <2>2, <3>1, <3>2
    <3>4. /\ queue'[i] # queue'[j]
          /\ queue'[i] \in Savers /\ queue'[j] \in Savers => gen[queue'[i]] < gen[queue'[j]]
      BY <1>1, <3>1, <3>2, <3>3 DEF QueueOK
    <3>5. QED
      BY <1>2, <1>3, <3>4
  <2>3. QED
    BY <2>1, <2>2 DEF QueueOK
<1>8. OpenOK'
  <2>1. \A t \in Savers : t \in Tasks \ {r}
    BY <1>1, RuntimeNumbers
  <2>2. QED
    BY <1>1, <1>3, <2>1 DEF OpenOK
<1>9. LockOK'
    BY <1>4, <1>5, <1>6, <1>7, <1>8 DEF LockOK
<1>10. answered' \in 0 .. MaxVersions
    BY <1>1 DEF RuntimeInv, DiskOK
<1>11. QED
    BY <1>1, <1>9, <1>10, TasksMove

\* A task that does not wait begins to run, or ends and leaves the lock.
LEMMA OutsideQueue ==
    ASSUME RuntimeInv, NEW t \in Tasks, pc[t] # "waiting",
           UNCHANGED <<disk, up, reloadable, built, queue, current, wizard, cli>>,
           answered' \in 0 .. MaxVersions, NEW state \in {"idle", "running"}, NEW g \in 0 .. Len(built),
           pc' = [pc EXCEPT ![t] = state], gen' = [gen EXCEPT ![t] = g],
           state = "running" => /\ t \in Requests /\ g = current /\ ~reloadable /\ up
                                /\ UNCHANGED <<holder, open, leaked, applied>>,
           state = "idle" => /\ pc[t] \in {"running", "closing"} /\ holder' = Nobody
                             /\ \/ UNCHANGED <<open, leaked>>
                                \/ /\ pc[t] = "closing"
                                   /\ open' = open \cup {gen[t]} /\ leaked' = leaked \cup {gen[t]},
           applied' \in 0 .. MaxVersions, up => applied' <= built[current].ver, ~up => applied' = applied
    PROVE  RuntimeInv'
<1>1. /\ TasksType /\ ProcessOK /\ QueueOK /\ OpenOK /\ \A r \in Tasks : TaskOK(r)
      /\ current \in 0 .. Len(built)
    BY DEF RuntimeInv, LockOK, TasksType
<1>2. /\ pc' \in [Tasks -> {"idle", "waiting", "running", "closing"}] /\ pc'[t] = state
      /\ gen' \in [Tasks -> 0 .. Len(built)] /\ gen'[t] = g
      /\ \A r \in Tasks \ {t} : pc'[r] = pc[r] /\ gen'[r] = gen[r]
    BY <1>1 DEF TasksType
<1>3. /\ holder' \in {holder, Nobody}
      /\ \/ UNCHANGED <<open, leaked>>
         \/ /\ pc[t] = "closing" /\ gen[t] \in 1 .. Len(built) /\ gen[t] \notin open /\ gen[t] # current
            /\ open' = open \cup {gen[t]} /\ leaked' = leaked \cup {gen[t]}
    BY <1>1 DEF TaskOK
<1>4. TasksType'
    BY <1>1, <1>2, <1>3 DEF TasksType
<1>5. up' = up /\ (pc[t] \in {"running", "closing"} \/ state = "running" => up)
    BY <1>1 DEF ProcessOK, TasksType
<1>6. ProcessOK'
  <2>1. up /\ current \in open \ leaked => current \in open' \ leaked'
    BY <1>3
  <2>2. holder' # Nobody => holder' = holder /\ holder # t
    BY <1>1, <1>3 DEF ProcessOK
  <2>3. holder' # Nobody => holder \in Tasks \ {t}
    BY <1>1, <2>2 DEF TasksType
  <2>4. QED
    BY <1>1, <1>2, <1>5, <2>1, <2>2, <2>3 DEF ProcessOK
<1>7. ASSUME NEW r \in Tasks PROVE TaskOK(r)'
  <2>1. CASE r = t
    BY <1>2, <2>1 DEF TaskOK
  <2>2. CASE r # t
    <3>1. TaskOK(r) /\ pc'[r] = pc[r] /\ gen'[r] = gen[r]
      BY <1>1, <1>2, <2>2
    <3>2. state = "idle" => pc[r] # "closing" /\ (reloadable => pc[r] # "running")
      <4>1. ASSUME pc[t] \in {"running", "closing"}, pc[r] \in {"running", "closing"}, reloadable
            PROVE  FALSE
        BY <1>1, <2>2, <4>1 DEF TaskOK
      <4>2. pc[r] = "closing" => reloadable
        BY <3>1 DEF TaskOK
      <4>3. QED
        BY <4>1, <4>2
    <3>3. state = "running" => pc[r] # "closing" /\ UNCHANGED <<holder, open, leaked>>
      BY <3>1 DEF TaskOK
    <3>4. pc[r] = "waiting" /\ r \in Savers => gen[r] \in open' \ leaked'
      BY <1>3, <3>1 DEF TaskOK
    <3>5. QED
      BY <3>1, <3>2, <3>3, <3>4 DEF TaskOK
  <2>3. QED
    BY <2>1, <2>2
<1>8. QueueOK'
  <2>1. \A i \in 1 .. Len(queue) : queue[i] \in Tasks /\ queue[i] # t
    BY <1>1 DEF QueueOK, TasksType
  <2>2. QED
    BY <1>1, <1>2, <2>1 DEF QueueOK
<1>9. OpenOK'
  <2>1. \A s \in Savers : s \in Tasks /\ (pc[s] = "waiting" => s # t)
    BY RuntimeNumbers
  <2>2. QED
    BY <1>1, <1>2, <1>3, <2>1 DEF OpenOK
<1>10. LockOK'
    BY <1>4, <1>6, <1>7, <1>8, <1>9 DEF LockOK
<1>11. QED
    BY <1>10, TasksMove

\* Generations are numbers.
LEMMA VersionsAreNumbers ==
    ASSUME RuntimeInv, up
    PROVE  /\ current \in 1 .. Len(built) /\ built[current].ver \in 0 .. MaxVersions
           /\ applied <= built[current].ver /\ applied \in Nat
           /\ \A i \in 1 .. Len(built) : built[i].ver \in 0 .. MaxVersions /\ built[i].ver \in Nat
<1>1. current \in 1 .. Len(built) /\ applied <= built[current].ver /\ applied \in Nat
    BY RuntimeNumbers DEF RuntimeInv, LockOK, ProcessOK, TasksType
<1>2. \A i \in 1 .. Len(built) : built[i].ver \in 0 .. MaxVersions
    BY DEF RuntimeInv, BuiltOK, Sound, Conf
<1>3. QED
    BY <1>1, <1>2, RuntimeNumbers

\* The steps of tasks that do not wait.
LEMMA UnqueuedSteps ==
    ASSUME RuntimeInv, NEW t \in Tasks,
           \/ t \in Requests /\ (InvokeUnlocked(t) \/ InvokeEnd(t))
           \/ t \in Savers /\ (Reloaded(t) \/ CloseFails(t))
    PROVE  RuntimeInv'
<1>1. /\ TasksType /\ ProcessOK /\ TaskOK(t) /\ 0 \in 0 .. Len(built) /\ current \in 0 .. Len(built)
      /\ answered \in 0 .. MaxVersions /\ applied \in 0 .. MaxVersions
      /\ up => applied <= built[current].ver
    BY DEF RuntimeInv, LockOK, TasksType, ProcessOK, DiskOK
<1>2. pc[t] \in {"running", "closing"} => up
    BY <1>1 DEF ProcessOK, TasksType
<1>3. CASE t \in Requests /\ InvokeUnlocked(t)
  <2>1. /\ pc[t] = "idle" /\ up /\ ~reloadable
        /\ pc' = [pc EXCEPT ![t] = "running"] /\ gen' = [gen EXCEPT ![t] = current]
        /\ UNCHANGED <<disk, up, reloadable, built, queue, current, wizard, cli, answered, holder, open,
                       leaked, applied>>
    BY <1>3 DEF InvokeUnlocked, process, runtime, console
  <2>2. QED
    BY <1>1, <1>3, <2>1, OutsideQueue
<1>4. CASE t \in Requests /\ InvokeEnd(t)
  <2>1. /\ pc[t] = "running" /\ holder' = Nobody
        /\ pc' = [pc EXCEPT ![t] = "idle"] /\ gen' = [gen EXCEPT ![t] = 0]
        /\ UNCHANGED <<disk, up, reloadable, built, queue, current, wizard, cli, answered, open, leaked,
                       applied>>
    BY <1>4 DEF InvokeEnd, process, runtime, console
  <2>2. QED
    BY <1>1, <2>1, OutsideQueue
<1>5. CASE t \in Savers /\ Reloaded(t)
  <2>1. /\ pc[t] = "closing" /\ holder' = Nobody /\ up
        /\ pc' = [pc EXCEPT ![t] = "idle"] /\ gen' = [gen EXCEPT ![t] = 0]
        /\ answered' = built[current].ver
        /\ applied' = IF built[current].ver > applied THEN built[current].ver ELSE applied
        /\ UNCHANGED <<disk, up, reloadable, built, queue, current, wizard, cli, open, leaked>>
    BY <1>2, <1>5 DEF Reloaded, process, runtime
  <2>2. /\ applied' \in 0 .. MaxVersions /\ applied' <= built[current].ver
        /\ answered' \in 0 .. MaxVersions
    BY <1>1, <2>1, VersionsAreNumbers
  <2>3. QED
    BY <1>1, <2>1, <2>2, OutsideQueue
<1>6. CASE t \in Savers /\ CloseFails(t)
  <2>1. /\ pc[t] = "closing" /\ holder' = Nobody
        /\ pc' = [pc EXCEPT ![t] = "idle"] /\ gen' = [gen EXCEPT ![t] = 0]
        /\ open' = open \cup {gen[t]} /\ leaked' = leaked \cup {gen[t]}
        /\ UNCHANGED <<disk, up, reloadable, built, queue, current, wizard, cli, answered, applied>>
    BY <1>6 DEF CloseFails, process, console
  <2>2. QED
    BY <1>1, <2>1, OutsideQueue
<1>7. QED
    BY <1>3, <1>4, <1>5, <1>6

\* A saver that is granted the lock swaps its runtime in.
LEMMA SwapStep ==
    ASSUME RuntimeInv, NEW s \in Savers, Swap(s)
    PROVE  RuntimeInv'
<1>1. /\ TasksType /\ ProcessOK /\ QueueOK /\ OpenOK /\ \A t \in Tasks : TaskOK(t)
      /\ s \in Tasks /\ Granted(s) /\ holder' = s /\ queue' = Without(queue, s)
      /\ pc' = [pc EXCEPT ![s] = "closing"] /\ current' = gen[s] /\ gen' = [gen EXCEPT ![s] = current]
      /\ open' = open \ {current}
      /\ UNCHANGED <<disk, up, reloadable, built, leaked, applied, wizard, cli, answered>>
    BY RuntimeNumbers DEF RuntimeInv, LockOK, Swap, process, console
<1>2. /\ pc[s] = "waiting" /\ reloadable /\ up
      /\ \A t \in Tasks : pc[t] \in {"idle", "waiting"}
      /\ queue' \in Seq(Tasks)
      /\ \A i \in 1 .. Len(queue') : i + 1 \in 1 .. Len(queue) /\ queue'[i] = queue[i + 1]
      /\ \A i, j \in 1 .. Len(queue') : i < j => i + 1 < j + 1
      /\ \A i \in 1 .. Len(queue) : queue[i] # s => \E j \in 1 .. Len(queue') : queue'[j] = queue[i]
      /\ \A i \in 1 .. Len(queue') :
           /\ queue'[i] # s /\ pc[queue'[i]] = "waiting"
           /\ queue'[i] \in Savers => gen[s] < gen[queue'[i]]
    BY <1>1, GrantedFacts
<1>3. /\ pc' \in [Tasks -> {"idle", "waiting", "running", "closing"}] /\ pc'[s] = "closing"
      /\ gen' \in [Tasks -> 0 .. Len(built)] /\ gen'[s] = current
      /\ \A t \in Tasks \ {s} : pc'[t] = pc[t] /\ gen'[t] = gen[t]
    BY <1>1 DEF TasksType
<1>4. /\ gen[s] \in open \ leaked /\ current < gen[s] /\ gen[s] \in 1 .. Len(built)
      /\ current \in open \ leaked /\ current \in 1 .. Len(built) /\ gen[s] # current
      /\ \A t \in Tasks : gen[t] \in 0 .. Len(built) /\ ~(gen[t] < gen[t])
  <2>1. gen[s] \in open \ leaked /\ current < gen[s] /\ current \in open \ leaked
    BY <1>1, <1>2 DEF TaskOK, ProcessOK
  <2>2. gen[s] \in 1 .. Len(built) /\ current \in 1 .. Len(built)
    BY <1>1, <2>1 DEF TasksType
  <2>3. Len(built) \in Nat
    BY DEF RuntimeInv, BuiltOK
  <2>4. gen[s] # current
    BY <2>1, <2>2, <2>3
  <2>5. \A t \in Tasks : gen[t] \in 0 .. Len(built) /\ ~(gen[t] < gen[t])
    BY <1>1, <2>3 DEF TasksType
  <2>6. QED
    BY <2>1, <2>2, <2>4, <2>5
<1>5. TasksType'
    BY <1>1, <1>2, <1>3, <1>4 DEF TasksType
<1>6. ProcessOK'
  <2>1. applied <= built[gen[s]].ver
    <3>1. built[current].ver < built[gen[s]].ver
      BY <1>4 DEF RuntimeInv, BuiltOK
    <3>2. QED
      BY <1>2, <1>4, <3>1, VersionsAreNumbers
  <2>2. QED
    BY <1>1, <1>2, <1>3, <1>4, <2>1 DEF ProcessOK
<1>7. ASSUME NEW t \in Tasks PROVE TaskOK(t)'
  <2>1. CASE t = s
    BY <1>1, <1>2, <1>3, <1>4, <2>1 DEF TaskOK
  <2>2. CASE t # s
    <3>1. TaskOK(t) /\ pc'[t] = pc[t] /\ gen'[t] = gen[t] /\ pc[t] \in {"idle", "waiting"}
      BY <1>1, <1>2, <1>3, <2>2
    <3>2. CASE pc[t] = "waiting"
      <4>1. PICK j \in 1 .. Len(queue') : queue'[j] = t
        BY <1>2, <2>2, <3>1, <3>2 DEF TaskOK
      <4>2. t \in Savers => gen[s] < gen[t]
        BY <1>2, <4>1
      <4>3. t \in Savers => gen[t] \in open \ leaked /\ gen[t] # current
        <5>1. t \in Savers => gen[t] \in open \ leaked /\ current < gen[t]
          BY <3>1, <3>2 DEF TaskOK
        <5>2. QED
          BY <1>4, <5>1
      <4>4. QED
        BY <1>1, <1>2, <3>1, <3>2, <4>1, <4>2, <4>3 DEF TaskOK
    <3>3. CASE pc[t] = "idle"
      BY <3>1, <3>3 DEF TaskOK
    <3>4. QED
      BY <3>1, <3>2, <3>3
  <2>3. QED
    BY <2>1, <2>2
<1>8. QueueOK'
  <2>0. \A i \in 1 .. Len(queue') : queue'[i] \in Tasks \ {s}
    BY <1>2
  <2>1. \A i \in 1 .. Len(queue') : pc'[queue'[i]] = "waiting"
    BY <1>2, <1>3, <2>0
  <2>2. ASSUME NEW i \in 1 .. Len(queue'), NEW j \in 1 .. Len(queue'), i < j
        PROVE  /\ queue'[i] # queue'[j]
               /\ queue'[i] \in Savers /\ queue'[j] \in Savers => gen'[queue'[i]] < gen'[queue'[j]]
    <3>1. PICK n \in Nat : n = Len(queue) /\ n # 0
      BY <1>1, <1>2 DEF TasksType
    <3>2. PICK a, b \in 1 .. n : a = i + 1 /\ b = j + 1 /\ a < b
      BY <1>2, <2>2, <3>1
    <3>3. queue'[i] = queue[a] /\ queue'[j] = queue[b]
      BY <1>2, <2>2, <3>1, <3>2
    <3>4. /\ queue'[i] # queue'[j]
          /\ queue'[i] \in Savers /\ queue'[j] \in Savers => gen[queue'[i]] < gen[queue'[j]]
      BY <1>1, <3>1, <3>2, <3>3 DEF QueueOK
    <3>5. QED
      BY <1>3, <2>0, <3>4
  <2>3. QED
    BY <2>1, <2>2 DEF QueueOK
<1>9. OpenOK'
  <2>1. ASSUME NEW o \in open, o # current
        PROVE  o = current' \/ o \in leaked' \/ \E t \in Savers : pc'[t] = "waiting" /\ gen'[t] = o
    <3>1. o \in leaked \/ \E t \in Savers : pc[t] = "waiting" /\ gen[t] = o
      BY <1>1, <2>1 DEF OpenOK
    <3>2. \A t \in Savers : t \in Tasks
      BY RuntimeNumbers
    <3>3. QED
      BY <1>1, <1>3, <3>1, <3>2
  <2>2. QED
    BY <1>1, <2>1 DEF OpenOK
<1>10. LockOK'
    BY <1>5, <1>6, <1>7, <1>8, <1>9 DEF LockOK
<1>11. answered' \in 0 .. MaxVersions
    BY <1>1 DEF RuntimeInv, DiskOK
<1>12. QED
    BY <1>1, <1>10, <1>11, TasksMove

\* Every step keeps the invariant.
LEMMA RuntimeStep ==
    ASSUME RuntimeInv, [Next]_vars
    PROVE  RuntimeInv'
<1>1. CASE UNCHANGED vars
    BY <1>1 DEF vars, RuntimeInv, DiskOK, Sound, BuiltOK, LockOK, TasksType, ProcessOK, TaskOK, QueueOK,
       OpenOK
<1>2. CASE \E t \in Requests : InvokeUnlocked(t) \/ InvokeEnd(t)
    BY <1>2, UnqueuedSteps, RuntimeNumbers
<1>3. CASE \E t \in Savers : Reloaded(t) \/ CloseFails(t)
    BY <1>3, UnqueuedSteps, RuntimeNumbers
<1>4. CASE \E s \in Savers, port \in Ports, kind \in {"good", "odd"}, p \in Payloads :
             \/ Save(s, port, kind, p.ref, p.keys)
             \/ SaveFails(s, port, kind, p.ref, p.keys)
             \/ SaveCut(s, port, kind, p.ref, p.keys)
  <2>1. \A p \in Payloads : p.ref \in [Roles -> References] /\ p.keys \in SUBSET Roles
    BY RuntimeNumbers DEF Payloads, FormPayload, Default
  <2>2. QED
    BY <1>4, <2>1, SaveStep, SaveFailsStep
<1>5. QED
    BY <1>1, <1>2, <1>3, <1>4, StartStep, ConsoleSteps, StopStep, WizardWriteStep,
       ArriveStep, InvokeBeginStep, SwapStep DEF Next

\* It is an invariant.
LEMMA RuntimeInvariance == Spec => []RuntimeInv
BY RuntimeStart, RuntimeStep, PTL DEF Spec

\* Nobody waits twice: the queue is no longer than there are tasks.
LEMMA QueueIsShort ==
    ASSUME RuntimeInv
    PROVE  Len(queue) <= Cardinality(Tasks)
<1>1. PICK m \in Nat : m = Len(queue)
    BY DEF RuntimeInv, LockOK, TasksType
<1>2. PICK f : f = [i \in 1 .. m |-> queue[i]]
    OBVIOUS
<1>3. f \in [1 .. m -> Tasks] /\ \A i \in 1 .. m : f[i] = queue[i]
    BY <1>1, <1>2 DEF RuntimeInv, LockOK, TasksType
<1>4. \A i, j \in 1 .. m : i # j => i < j \/ j < i
    BY <1>1
<1>5. \A i, j \in 1 .. m : f[i] = f[j] => i = j
    BY <1>1, <1>3, <1>4 DEF RuntimeInv, LockOK, QueueOK
<1>6. f \in Injection(1 .. m, Tasks)
    BY <1>3, <1>5 DEF Injection, IsInjective
<1>7. Cardinality(1 .. m) <= Cardinality(Tasks)
    BY <1>6, RuntimeNumbers, FS_Injection
<1>8. Cardinality(1 .. m) = m
    BY FS_Interval
<1>9. QED
    BY <1>1, <1>7, <1>8

\* It contains the types.
LEMMA RuntimeTyped == RuntimeInv => TypeOK
<1> SUFFICES ASSUME RuntimeInv PROVE TypeOK
    OBVIOUS
<1>1. keys \in [References -> 0 .. MaxVersions] /\ ver \in 0 .. MaxVersions
  <2>1. 0 .. ver \subseteq 0 .. MaxVersions
    BY RuntimeNumbers DEF RuntimeInv, DiskOK
  <2>2. QED
    BY <2>1 DEF RuntimeInv, DiskOK
<1>2. file \in Conf \cup {NoFile} /\ wizard \in Conf \cup {NoFile}
    BY DEF RuntimeInv, DiskOK, Sound
<1>3. Len(built) <= MaxVersions + 1 /\ Range(built) \subseteq Conf
  <2>1. built \in Seq(Conf) /\ Len(built) <= ver + 1 /\ Len(built) \in Nat
    BY DEF RuntimeInv, BuiltOK
  <2>2. Len(built) <= MaxVersions + 1
    BY <1>1, <2>1, RuntimeNumbers
  <2>3. QED
    BY <2>1, <2>2 DEF Range
<1>4. Range(queue) \subseteq Tasks
    BY DEF RuntimeInv, LockOK, TasksType, Range
<1>5. QED
    BY <1>1, <1>2, <1>3, <1>4, QueueIsShort DEF RuntimeInv, DiskOK, LockOK, TasksType, TypeOK

\* Files, tasks, runtimes and the lock keep their types (PersonalRuntime), and
\* nobody is twice in the queue of the lock.
THEOREM RuntimeTypeCorrect == Spec => []TypeOK
BY RuntimeTyped, RuntimeInvariance, PTL

\* For any number of requests, savers and writes: a request runs on an open
\* runtime, none older than the last that was answered is current, no runtime
\* asks for a key that is not stored, and none stays open without a use.
THEOREM RuntimesAreSwappedSafely == Spec => []RuntimeSwapsSafely
<1>1. RuntimeInv => RuntimeSwapsSafely
  <2> SUFFICES ASSUME RuntimeInv PROVE RuntimeSwapsSafely
    OBVIOUS
  <2>1. OpenWhileUsed
    <3> SUFFICES ASSUME NEW r \in Requests, pc[r] = "running" PROVE gen[r] \in open \ leaked
      BY DEF OpenWhileUsed
    <3>1. r \in Tasks /\ TaskOK(r) /\ up
      BY RuntimeNumbers DEF RuntimeInv, LockOK, ProcessOK, TasksType
    <3>2. QED
      BY <3>1 DEF RuntimeInv, LockOK, ProcessOK, TaskOK
  <2>2. NeverOlderThanAnswered
    BY VersionsAreNumbers, RuntimeNumbers DEF NeverOlderThanAnswered
  <2>3. KeyBeforeConfiguration
    <3>1. built \in Seq(Conf) /\ \A i \in 1 .. Len(built) : Sound(built[i])
      BY DEF RuntimeInv, BuiltOK
    <3>2. \A c \in Range(built) : Sound(c)
      BY <3>1 DEF Range
    <3>3. QED
      BY <3>2 DEF RuntimeInv, DiskOK, Sound, KeyBeforeConfiguration
  <2>4. NoRuntimeForgotten
    BY DEF RuntimeInv, LockOK, OpenOK, NoRuntimeForgotten
  <2>5. QED
    BY <2>1, <2>2, <2>3, <2>4 DEF RuntimeSwapsSafely
<1>2. QED
    BY <1>1, RuntimeInvariance, PTL

-------------------------------------------------------------------------------
(* The profile and its children.                                               *)

\* The settings are natural numbers.
ProfileNumbers ==
    /\ MaxSaves \in Nat /\ MaxFailures \in Nat /\ MaxFailures > 0 /\ MaxDelay \in Nat /\ MaxDelay > 0
    /\ Absent \notin Snapshots /\ Damaged \notin Snapshots /\ Absent # Damaged

\* That is assumed of them.
LEMMA ProfileSettings == ProfileNumbers
BY ProfileAssumption DEF ProfileNumbers, Snapshots

\* The backoff is a positive number up to the longest.
LEMMA BackoffFacts ==
    ASSUME NEW f \in 0 .. MaxFailures, f > 0
    PROVE  Backoff(f) \in 0 .. MaxDelay
<1>1. f - 1 \in 0 .. MaxFailures
    BY ProfileSettings DEF ProfileNumbers
<1>2. 2 ^ (f - 1) \in Nat
    BY <1>1, PowerAssumption
<1>3. QED
    BY <1>2, ProfileSettings DEF ProfileNumbers, Backoff, Least

\* What holds of the files: one that is not damaged is the last snapshot, or
\* the one it was derived from.
FilesOK ==
    /\ active = IF "active" \in damages THEN Damaged ELSE last
    /\ IF "previous" \in damages THEN previous = Damaged
       ELSE previous # Damaged /\ previous \in {last, base}
    /\ saving # Absent /\ "previous" \notin damages => previous = saving.base
    /\ last = Absent => /\ base = Absent /\ previous = Absent /\ saving = Absent
                        /\ damages = {}
    /\ phase = "new" => last = Absent
    /\ phase = "up" => last # Absent
    /\ \A n \in Children : child[n].state = "running" => last # Absent

\* What holds of a supervised process: the time until its restart and the time
\* it has waited make up its backoff.
ChildOK(s) ==
    /\ s.state = "running" => ~s.pending
    /\ s.pending /\ s.fails <= MaxFailures =>
         s.fails > 0 /\ (s.state = "exited" => s.due + s.waited >= Backoff(s.fails))
    /\ s.state = "absent" => phase # "up"
    /\ phase = "new" => s.state = "absent"

\* The inductive invariant.
ProfileInv ==
    /\ ProfileTypeOK
    /\ FilesOK
    /\ \A n \in Children : ChildOK(child[n])

\* It holds at the start.
LEMMA ProfileStart == ProfileInit => ProfileInv
<1> SUFFICES ASSUME ProfileInit PROVE ProfileInv
    OBVIOUS
<1>1. Unstarted \in Supervised /\ Unstarted.state = "absent" /\ ~Unstarted.pending
    BY ProfileSettings DEF Unstarted, Supervised, ProfileNumbers
<1>2. \A n \in Children : child[n] = Unstarted
    BY DEF ProfileInit
<1>3. ProfileTypeOK
    BY <1>1, ProfileSettings DEF ProfileInit, ProfileTypeOK, ProfileNumbers
<1>4. QED
    BY <1>1, <1>2, <1>3, ProfileSettings DEF ProfileInit, ProfileInv, FilesOK, ChildOK, ProfileNumbers

\* A save writes its files.
LEMMA SaveBeginsStep ==
    ASSUME ProfileInv, SaveBegins
    PROVE  ProfileInv'
<1>1. /\ ProfileTypeOK /\ FilesOK /\ UNCHANGED <<active, last, base, child, inForce, phase>>
      /\ saving = Absent /\ last # Absent /\ saves' = saves + 1 /\ saves + 1 \in 1 .. MaxSaves
      /\ saves + 1 \in Snapshots /\ saves' \in 0 .. MaxSaves
    BY ProfileSettings DEF ProfileInv, SaveBegins, supervisor, FilesOK, Children, ProfileTypeOK,
       ProfileNumbers, Snapshots
<1>2. \A n \in Children : ChildOK(child[n])'
    BY <1>1 DEF ProfileInv, ChildOK
<1>3. CASE UNCHANGED <<saving, previous, damages>>
    BY <1>1, <1>2, <1>3 DEF ProfileInv, ProfileTypeOK, FilesOK
<1>4. CASE /\ saving' \in {Absent, [snapshot |-> saves + 1, base |-> LastKnownGood]}
           /\ previous' = Kept
           /\ damages' = IF Valid(active) THEN damages \ {"previous"} ELSE damages
  <2>1. LastKnownGood \in Snapshots \cup {Absent}
    BY DEF LastKnownGood, Valid
  <2>2. PICK c : c = [snapshot |-> saves + 1, base |-> LastKnownGood]
    OBVIOUS
  <2>3. /\ c \in [snapshot : 1..MaxSaves, base : Snapshots \cup {Absent}]
        /\ c.base = LastKnownGood /\ saving' \in {Absent, c}
    BY <1>1, <1>4, <2>1, <2>2
  <2>4. ProfileTypeOK'
    BY <1>1, <1>4, <2>3 DEF ProfileTypeOK, Kept
  <2>5. Valid(active) => active = last /\ "active" \notin damages
    BY <1>1, ProfileSettings DEF FilesOK, Valid, ProfileNumbers
  <2>6. FilesOK'
    BY <1>1, <1>4, <2>3, <2>5, ProfileSettings
       DEF FilesOK, Kept, LastKnownGood, Valid, ProfileNumbers, ProfileTypeOK
  <2>7. QED
    BY <1>2, <2>4, <2>6 DEF ProfileInv
<1>5. QED
    BY <1>3, <1>4 DEF SaveBegins

\* It ends, or is cut short.
LEMMA SaveEndsStep ==
    ASSUME ProfileInv, SaveEnds
    PROVE  ProfileInv'
<1>1. /\ ProfileTypeOK /\ FilesOK /\ UNCHANGED <<previous, saves, child, inForce, phase>>
      /\ saving # Absent /\ saving' = Absent /\ last # Absent
      /\ saving.snapshot \in Snapshots /\ saving.base \in Snapshots \cup {Absent}
  <2>1. ProfileTypeOK /\ FilesOK /\ saving # Absent
    BY DEF ProfileInv, SaveEnds
  <2>2. saving \in [snapshot : 1..MaxSaves, base : Snapshots \cup {Absent}]
    BY <2>1 DEF ProfileTypeOK
  <2>3. 1 .. MaxSaves \subseteq Snapshots
    BY ProfileSettings DEF ProfileNumbers, Snapshots
  <2>4. saving.snapshot \in Snapshots /\ saving.base \in Snapshots \cup {Absent}
    BY <2>2, <2>3
  <2>5. QED
    BY <2>1, <2>4 DEF SaveEnds, supervisor, FilesOK
<1>2. \A n \in Children : ChildOK(child[n])'
    BY <1>1 DEF ProfileInv, ChildOK
<1>3. \/ /\ active' = saving.snapshot /\ last' = saving.snapshot /\ base' = saving.base
         /\ damages' = damages \ {"active"}
      \/ UNCHANGED <<active, last, base, damages>>
    BY DEF SaveEnds
<1>4. ProfileTypeOK'
    BY <1>1, <1>3 DEF ProfileTypeOK
<1>5. FilesOK'
    BY <1>1, <1>3, ProfileSettings DEF FilesOK, ProfileNumbers
<1>6. QED
    BY <1>2, <1>4, <1>5 DEF ProfileInv

\* A file is damaged.
LEMMA DamageStep ==
    ASSUME ProfileInv, NEW f \in {"active", "previous"}, Damage(f)
    PROVE  ProfileInv'
<1>1. /\ ProfileTypeOK /\ FilesOK /\ last # Absent
      /\ UNCHANGED <<saving, saves, last, base, child, inForce, phase>>
    BY DEF ProfileInv, Damage, supervisor
<1>2. \A n \in Children : ChildOK(child[n])'
    BY <1>1 DEF ProfileInv, ChildOK
<1>3. ProfileTypeOK'
    BY <1>1 DEF Damage, ProfileTypeOK
<1>4. FilesOK'
    BY <1>1 DEF Damage, FilesOK
<1>5. QED
    BY <1>2, <1>3, <1>4 DEF ProfileInv

\* Both children are started.
LEMMA StartBothStep ==
    ASSUME ProfileInv, StartBoth
    PROVE  ProfileInv'
<1>1. PICK c : c = [Unstarted EXCEPT !.state = "running"]
    OBVIOUS
<1>2. c \in Supervised /\ c.state = "running" /\ ~c.pending
  <2>1. 0 \in 0 .. MaxFailures + 1 /\ 0 \in 0 .. MaxDelay
    BY ProfileSettings DEF ProfileNumbers
  <2>2. Unstarted \in Supervised /\ Unstarted.pending = FALSE
    BY <2>1 DEF Unstarted, Supervised
  <2>3. c \in Supervised /\ c.state = "running" /\ c.pending = FALSE
    BY <1>1, <2>2 DEF Supervised
  <2>4. QED
    BY <2>3
<1>3. child' = [n \in Children |-> c]
    BY <1>1 DEF StartBoth
<1>4. 0 \in Snapshots
    BY ProfileSettings DEF ProfileNumbers, Snapshots
<1>5. ProfileTypeOK'
    BY <1>2, <1>3, <1>4 DEF StartBoth, ProfileInv, ProfileTypeOK
<1>6. FilesOK'
    BY <1>3, <1>4, ProfileSettings DEF StartBoth, ProfileInv, FilesOK, ProfileNumbers
<1>7. \A n \in Children : ChildOK(child[n])'
    BY <1>2, <1>3 DEF ChildOK, StartBoth
<1>8. QED
    BY <1>5, <1>6, <1>7 DEF ProfileInv

\* The files are as they were, or a save is cut short, and no process starts
\* to run.
LEMMA ChildrenMove ==
    ASSUME ProfileInv, UNCHANGED <<active, previous, saves, last, base, damages>>,
           saving' \in {saving, Absent}, child' \in [Children -> Supervised],
           inForce' \in Snapshots \cup {Absent}, phase' \in {"new", "up", "stopping", "stopped", "stuck"},
           phase' = "new" => phase = "new", phase' = "up" => phase = "up",
           last = Absent => \A n \in Children : child'[n].state # "running",
           \A n \in Children : ChildOK(child[n])'
    PROVE  ProfileInv'
<1>1. ProfileTypeOK'
    BY DEF ProfileInv, ProfileTypeOK
<1>2. FilesOK'
    BY DEF ProfileInv, FilesOK
<1>3. QED
    BY <1>1, <1>2 DEF ProfileInv

\* A child ends by itself.
LEMMA CrashStep ==
    ASSUME ProfileInv, NEW n \in Children, Crash(n)
    PROVE  ProfileInv'
<1>1. child \in [Children -> Supervised] /\ child[n] \in Supervised
    BY DEF ProfileInv, ProfileTypeOK
<1>2. PICK c : c = [child[n] EXCEPT !.state = "exited", !.waited = 0]
    OBVIOUS
<1>3. c \in Supervised /\ c.state = "exited" /\ c.pending = child[n].pending /\ ~c.pending
  <2>1. 0 \in 0 .. MaxDelay
    BY ProfileSettings DEF ProfileNumbers
  <2>2. c \in Supervised /\ c.state = "exited" /\ c.pending = child[n].pending
    BY <1>1, <1>2, <2>1 DEF Supervised
  <2>3. ~child[n].pending
    BY DEF ProfileInv, ChildOK, Crash
  <2>4. QED
    BY <2>2, <2>3
<1>4. child' = [child EXCEPT ![n] = c]
    BY <1>1, <1>2 DEF Crash, Supervised
<1>5. child' \in [Children -> Supervised]
    BY <1>1, <1>3, <1>4
<1>6. \A m \in Children : ChildOK(child[m])'
    BY <1>1, <1>3, <1>4 DEF ProfileInv, ChildOK, Crash
<1>7. last = Absent => \A m \in Children : child'[m].state # "running"
    BY <1>1, <1>3, <1>4 DEF ProfileInv, FilesOK
<1>8. QED
    BY <1>5, <1>6, <1>7, ChildrenMove DEF Crash, ProfileInv, ProfileTypeOK

\* A child after a round of the supervisor.
LEMMA ReconciledOK ==
    ASSUME NEW s \in Supervised, ChildOK(s), phase = "up"
    PROVE  /\ Reconciled(s) \in Supervised /\ ChildOK(Reconciled(s))
           /\ s.state = "exited" /\ Reconciled(s).state = "running" /\ s.fails <= MaxFailures =>
                s.waited >= Backoff(s.fails)
<1>1. /\ s.fails \in 0 .. MaxFailures + 1 /\ s.due \in 0 .. MaxDelay /\ s.waited \in 0 .. MaxDelay
      /\ s.fails \in Nat /\ s.due \in Nat /\ s.waited \in Nat /\ s.state \in {"running", "exited"}
      /\ s.pending \in BOOLEAN
    BY ProfileSettings DEF Supervised, ChildOK, ProfileNumbers
<1>2. CASE s.state = "running"
  <2>1. Reconciled(s) = s
    BY <1>2 DEF Reconciled
  <2>2. QED
    BY <1>2, <2>1
<1>3. CASE s.state = "exited" /\ ~s.pending
  <2>1. Reconciled(s) = Scheduled(s)
    BY <1>3 DEF Reconciled
  <2>2. CASE Raises(s)
    <3>1. PICK c : c = [s EXCEPT !.fails = MaxFailures + 1, !.pending = TRUE]
      OBVIOUS
    <3>2. c = Scheduled(s)
      BY <2>2, <3>1 DEF Scheduled
    <3>3. c \in Supervised /\ c.state = "exited" /\ c.fails = MaxFailures + 1 /\ c.pending
      <4>1. MaxFailures + 1 \in 0 .. MaxFailures + 1
        BY ProfileSettings DEF ProfileNumbers
      <4>2. c \in Supervised /\ c.state = s.state /\ c.fails = MaxFailures + 1 /\ c.pending = TRUE
        BY <3>1, <4>1 DEF Supervised
      <4>3. QED
        BY <1>3, <4>2
    <3>4. ChildOK(c)
      BY <3>3, ProfileSettings DEF ChildOK, ProfileNumbers
    <3>5. QED
      BY <2>1, <3>2, <3>3, <3>4
  <2>3. CASE ~Raises(s)
    <3>1. s.fails + 1 \in 0 .. MaxFailures /\ s.fails + 1 > 0 /\ s.fails + 1 \in 0 .. MaxFailures + 1
      BY <1>1, <1>3, <2>3, ProfileSettings DEF Raises, ProfileNumbers
    <3>2. Backoff(s.fails + 1) \in 0 .. MaxDelay
      BY <3>1, BackoffFacts
    <3>3. PICK c : c = [s EXCEPT !.fails = s.fails + 1, !.pending = TRUE, !.due = Backoff(s.fails + 1)]
      OBVIOUS
    <3>4. c = Scheduled(s)
      BY <2>3, <3>3 DEF Scheduled
    <3>5. /\ c \in Supervised /\ c.state = "exited" /\ c.fails = s.fails + 1 /\ c.pending
          /\ c.due = Backoff(s.fails + 1) /\ c.waited = s.waited
      BY <1>3, <3>1, <3>2, <3>3 DEF Supervised
    <3>6. c.due + c.waited >= Backoff(c.fails) /\ c.fails > 0
      BY <1>1, <3>1, <3>2, <3>5, ProfileSettings DEF ProfileNumbers
    <3>7. ChildOK(c)
      BY <3>5, <3>6 DEF ChildOK
    <3>8. QED
      BY <2>1, <3>4, <3>5, <3>7
  <2>4. QED
    BY <2>2, <2>3
<1>4. CASE s.state = "exited" /\ s.pending /\ s.due > 0
  <2>1. Reconciled(s) = s
    BY <1>4 DEF Reconciled
  <2>2. QED
    BY <1>4, <2>1
<1>5. CASE s.state = "exited" /\ s.pending /\ ~(s.due > 0)
  <2>1. Reconciled(s) = Relaunched(s)
    BY <1>5 DEF Reconciled
  <2>2. PICK c : c = [s EXCEPT !.state = "running", !.pending = FALSE]
    OBVIOUS
  <2>3. c = Relaunched(s)
    BY <2>2 DEF Relaunched
  <2>4. c \in Supervised /\ c.state = "running" /\ ~c.pending
    BY <2>2 DEF Supervised
  <2>5. ChildOK(c)
    BY <2>4 DEF ChildOK
  <2>6. s.fails <= MaxFailures => s.waited >= Backoff(s.fails)
    <3>1. s.due = 0
      BY <1>1, <1>5
    <3>2. SUFFICES ASSUME s.fails <= MaxFailures PROVE s.waited >= Backoff(s.fails)
      OBVIOUS
    <3>3. s.fails > 0 /\ s.due + s.waited >= Backoff(s.fails)
      BY <1>5, <3>2 DEF ChildOK
    <3>4. s.due + s.waited = s.waited
      BY <1>1, <3>1
    <3>5. QED
      BY <3>3, <3>4
  <2>7. QED
    BY <2>1, <2>3, <2>4, <2>5, <2>6
<1>6. QED
    BY <1>1, <1>2, <1>3, <1>4, <1>5

\* A round of the supervisor.
LEMMA ReconcileStep ==
    ASSUME ProfileInv, Reconcile
    PROVE  /\ ProfileInv'
           /\ \A n \in Children :
                /\ child[n].state = "exited" /\ child'[n].state = "running"
                /\ child[n].fails <= MaxFailures
                => child[n].waited >= Backoff(child[n].fails)
<1>1. /\ child \in [Children -> Supervised] /\ phase = "up" /\ phase' = phase
      /\ UNCHANGED <<active, previous, saving, saves, last, base, damages>>
      /\ inForce \in Snapshots \cup {Absent}
    BY DEF ProfileInv, ProfileTypeOK, Reconcile, store
<1>2. child' = [n \in Children |->
                   IF n = "data" /\ Raises(child["control"]) THEN child[n] ELSE Reconciled(child[n])]
    BY DEF Reconcile
<1>3. ASSUME NEW n \in Children
      PROVE  /\ child'[n] \in Supervised /\ ChildOK(child[n])'
             /\ child[n].state = "exited" /\ child'[n].state = "running"
                /\ child[n].fails <= MaxFailures => child[n].waited >= Backoff(child[n].fails)
  <2>1. /\ child'[n] = child[n] \/ child'[n] = Reconciled(child[n])
        /\ child[n] \in Supervised /\ ChildOK(child[n])
    BY <1>1, <1>2 DEF ProfileInv
  <2>2. CASE child'[n] = child[n]
    BY <1>1, <2>1, <2>2 DEF ChildOK
  <2>3. CASE child'[n] = Reconciled(child[n])
    <3>1. PICK d : d = child'[n]
      OBVIOUS
    <3>2. d \in Supervised /\ ChildOK(d)
      BY <1>1, <2>1, <2>3, <3>1, ReconciledOK
    <3>3. ChildOK(child[n])'
      BY <1>1, <3>1, <3>2 DEF ChildOK
    <3>4. QED
      BY <1>1, <2>1, <2>3, <3>1, <3>2, <3>3, ReconciledOK
  <2>4. QED
    BY <2>1, <2>2, <2>3
<1>4. child' \in [Children -> Supervised]
    BY <1>2, <1>3
<1>5. inForce' \in Snapshots \cup {Absent}
    BY <1>1 DEF Reconcile, LastKnownGood, Valid
<1>6. last # Absent
    BY <1>1 DEF ProfileInv, FilesOK
<1>7. ProfileInv'
    BY <1>1, <1>3, <1>4, <1>5, <1>6, ChildrenMove
<1>8. QED
    BY <1>3, <1>7

\* Time passes.
LEMMA TickStep ==
    ASSUME ProfileInv, Tick
    PROVE  ProfileInv' /\ \A n \in Children : child'[n].state = child[n].state
<1>1. /\ child \in [Children -> Supervised] /\ phase' = phase /\ inForce' = inForce
      /\ UNCHANGED <<active, previous, saving, saves, last, base, damages>>
    BY DEF ProfileInv, ProfileTypeOK, Tick, store
<1>2. ASSUME NEW n \in Children
      PROVE  child'[n] \in Supervised /\ child'[n].state = child[n].state /\ ChildOK(child[n])'
  <2> DEFINE s == child[n]
  <2>1. s \in Supervised /\ ChildOK(s)
    BY <1>1 DEF ProfileInv
  <2>2. /\ s.due \in 0 .. MaxDelay /\ s.waited \in 0 .. MaxDelay /\ s.due \in Nat /\ s.waited \in Nat
        /\ s.fails \in 0 .. MaxFailures + 1 /\ s.fails \in Nat
    BY <2>1, ProfileSettings DEF Supervised, ProfileNumbers
  <2>3. CASE s.state # "exited"
    <3>1. child'[n] = s
      BY <2>3 DEF Tick
    <3>2. QED
      BY <1>1, <2>1, <3>1 DEF ChildOK
  <2>4. CASE s.state = "exited"
    <3>1. PICK c : c = [s EXCEPT !.due = IF s.due > 0 THEN s.due - 1 ELSE 0,
                                 !.waited = Least(s.waited + 1, MaxDelay)]
      OBVIOUS
    <3>2. child'[n] = [s EXCEPT !.due = IF @ > 0 THEN @ - 1 ELSE 0, !.waited = Least(@ + 1, MaxDelay)]
      BY <2>4 DEF Tick
    <3>3. child'[n] = c
      BY <2>1, <3>1, <3>2 DEF Supervised
    <3>4. /\ (IF s.due > 0 THEN s.due - 1 ELSE 0) \in 0 .. MaxDelay
          /\ Least(s.waited + 1, MaxDelay) \in 0 .. MaxDelay
      BY <2>2, ProfileSettings DEF Least, ProfileNumbers
    <3>5. /\ c \in Supervised /\ c.state = s.state /\ c.pending = s.pending /\ c.fails = s.fails
          /\ c.due = IF s.due > 0 THEN s.due - 1 ELSE 0
          /\ c.waited = Least(s.waited + 1, MaxDelay)
      BY <2>1, <3>1, <3>4 DEF Supervised
    <3>6. ASSUME s.pending, s.fails <= MaxFailures
          PROVE  s.fails > 0 /\ c.due + c.waited >= Backoff(s.fails)
      <4>1. s.fails > 0 /\ s.due + s.waited >= Backoff(s.fails)
        BY <2>1, <2>4, <3>6 DEF ChildOK
      <4>2. Backoff(s.fails) \in 0 .. MaxDelay
        BY <2>2, <3>6, <4>1, BackoffFacts, ProfileSettings DEF ProfileNumbers
      <4>3. PICK b : b = Backoff(s.fails)
        OBVIOUS
      <4>4. c.due + c.waited >= b
        BY <2>2, <3>5, <4>1, <4>2, <4>3, ProfileSettings DEF Least, ProfileNumbers
      <4>5. QED
        BY <4>1, <4>3, <4>4
    <3>7. QED
      BY <1>1, <2>1, <2>4, <3>3, <3>5, <3>6 DEF ChildOK
  <2>5. QED
    BY <2>3, <2>4
<1>3. child' \in [Children -> Supervised]
    BY <1>2 DEF Tick
<1>4. last = Absent => \A n \in Children : child'[n].state # "running"
    BY <1>2 DEF ProfileInv, FilesOK
<1>5. ProfileInv'
    BY <1>1, <1>2, <1>3, <1>4, ChildrenMove DEF ProfileInv, ProfileTypeOK
<1>6. QED
    BY <1>2, <1>5

\* The children are stopped, or the supervisor ends.
LEMMA StopSteps ==
    ASSUME ProfileInv, StopBegins \/ StopEnds
    PROVE  ProfileInv' /\ \A n \in Children : child'[n].state \in {child[n].state, "absent"}
<1>0. child \in [Children -> Supervised] /\ \A n \in Children : child[n] \in Supervised /\ ChildOK(child[n])
    BY DEF ProfileInv, ProfileTypeOK
<1>1. CASE StopBegins
  <2>1. /\ phase' = "stopping"
        /\ UNCHANGED <<active, previous, saving, saves, last, base, damages, child, inForce>>
    BY <1>1 DEF StopBegins, store
  <2>2. \A n \in Children : ChildOK(child[n])'
    BY <1>0, <2>1 DEF ChildOK
  <2>3. last = Absent => \A n \in Children : child'[n].state # "running"
    BY <2>1 DEF ProfileInv, FilesOK
  <2>4. ProfileInv'
    BY <1>0, <2>1, <2>2, <2>3, ChildrenMove DEF ProfileInv, ProfileTypeOK
  <2>5. QED
    BY <2>1, <2>4
<1>2. CASE StopEnds
  <2>1. /\ UNCHANGED <<active, previous, saves, last, base, damages, inForce>>
        /\ phase' \in {"stopped", "stuck"} /\ saving' \in {saving, Absent}
        /\ child' = [n \in Children |-> [child[n] EXCEPT !.state = "absent"]] \/ child' = child
    BY <1>2 DEF StopEnds
  <2>2. ASSUME NEW n \in Children
        PROVE  /\ child'[n] \in Supervised /\ child'[n].state \in {child[n].state, "absent"}
               /\ ChildOK(child[n])'
    <3>1. PICK c : c = [child[n] EXCEPT !.state = "absent"]
      OBVIOUS
    <3>2. /\ c \in Supervised /\ c.state = "absent" /\ c.pending = child[n].pending
          /\ c.fails = child[n].fails /\ child'[n] \in {child[n], c}
      BY <1>0, <2>1, <3>1 DEF Supervised
    <3>3. phase' # "up" /\ phase' # "new" /\ ChildOK(child[n])
      BY <1>0, <2>1
    <3>4. ChildOK(child[n])'
      BY <3>2, <3>3 DEF ChildOK
    <3>5. QED
      BY <1>0, <3>2, <3>4
  <2>3. child' \in [Children -> Supervised]
    BY <1>0, <2>1, <2>2
  <2>4. last = Absent => \A n \in Children : child'[n].state # "running"
    BY <2>2 DEF ProfileInv, FilesOK
  <2>5. ProfileInv'
    BY <2>1, <2>2, <2>3, <2>4, ChildrenMove DEF ProfileInv, ProfileTypeOK
  <2>6. QED
    BY <2>2, <2>5
<1>3. QED
    BY <1>1, <1>2

\* Every step keeps the invariant.
LEMMA ProfileStep ==
    ASSUME ProfileInv, [ProfileNext]_profileVars
    PROVE  ProfileInv'
<1>1. CASE UNCHANGED profileVars
    BY <1>1 DEF profileVars, store, supervisor, ProfileInv, ProfileTypeOK, FilesOK, ChildOK
<1>2. QED
    BY <1>1, SaveBeginsStep, SaveEndsStep, DamageStep, StartBothStep, ReconcileStep, TickStep,
       StopSteps, CrashStep DEF ProfileNext

\* It is an invariant.
LEMMA ProfileInvariance == ProfileSpec => []ProfileInv
BY ProfileStart, ProfileStep, PTL DEF ProfileSpec

\* Files and children keep their types (PersonalProfile).
THEOREM ProfileTypeCorrect == ProfileSpec => []ProfileTypeOK
BY ProfileInvariance, PTL DEF ProfileInv

\* For any number of saves, failed ones among them: while at most one file is
\* damaged, the last published snapshot or the one before it is loaded.
THEOREM LastKnownGoodIsKept == ProfileSpec => []LastKnownGoodSurvives
<1>1. ProfileInv => LastKnownGoodSurvives
  <2> SUFFICES ASSUME ProfileInv, damages # {"active", "previous"} PROVE LastKnownGood \in {last, base}
    BY DEF LastKnownGoodSurvives
  <2>1. damages \subseteq {"active", "previous"} /\ last \in Snapshots \cup {Absent} /\ FilesOK
    BY DEF ProfileInv, ProfileTypeOK
  <2>2. "active" \notin damages \/ "previous" \notin damages
    BY <2>1
  <2>3. previous \in Snapshots \cup {Absent, Damaged}
    BY DEF ProfileInv, ProfileTypeOK
  <2>4. QED
    BY <2>1, <2>2, <2>3, ProfileSettings DEF FilesOK, LastKnownGood, Valid, ProfileNumbers
<1>2. QED
    BY <1>1, ProfileInvariance, PTL

\* For any number of failures and any longest delay: a child that failed is not
\* started again before its backoff is over.
THEOREM BackoffIsRespected == ProfileSpec => BackoffRespected
<1>1. ASSUME ProfileInv, [ProfileNext]_profileVars
      PROVE  [\A n \in Children :
                 /\ child[n].state = "exited" /\ child'[n].state = "running"
                 /\ child[n].fails <= MaxFailures
                 => child[n].waited >= Backoff(child[n].fails)]_profileVars
  <2> SUFFICES ASSUME ProfileNext, NEW n \in Children, child[n].state = "exited",
                      child'[n].state = "running", child[n].fails <= MaxFailures
               PROVE  child[n].waited >= Backoff(child[n].fails)
    BY <1>1
  <2>1. CASE Reconcile
    BY <1>1, <2>1, ReconcileStep
  <2>2. ~StartBoth
    <3>1. StartBoth => phase = "new"
      BY DEF StartBoth
    <3>2. QED
      BY <1>1, <3>1 DEF ProfileInv, ChildOK
  <2>3. ~(SaveBegins \/ SaveEnds \/ \E f \in {"active", "previous"} : Damage(f))
    BY DEF SaveBegins, SaveEnds, Damage, supervisor
  <2>4. ~(Tick \/ StopBegins \/ StopEnds)
    BY <1>1, TickStep, StopSteps
  <2>5. ~\E m \in Children : Crash(m)
    BY <1>1 DEF Crash, ProfileInv, ProfileTypeOK
  <2>6. QED
    BY <2>1, <2>2, <2>3, <2>4, <2>5 DEF ProfileNext
<1>2. QED
    BY <1>1, ProfileInvariance, PTL DEF ProfileSpec, BackoffRespected
===============================================================================
