--------------------------- MODULE PersonalRuntime ---------------------------
(***************************************************************************)
(* The single-user npm deployment: the settings console and the invoke     *)
(* path of media_bridge_personal/npm_runtime.py, the credential file of    *)
(* credential_store.py, and the `mb` command line (packaging/npm) that     *)
(* writes the same config.json and starts the process from it.             *)
(*                                                                         *)
(* Requests and settings saves are coroutines of one event loop.  Between  *)
(* two awaits a coroutine runs alone, so a save (validate, store keys,     *)
(* replace the config file, build the replacement runtime) is one step;    *)
(* only an error or the death of the process can cut it short.             *)
(***************************************************************************)
EXTENDS Naturals, Sequences, FiniteSets, Functions

CONSTANTS Requests,     \* concurrent POST /v1/responses and /v1/chat/completions
          Savers,       \* concurrent POST /settings and /api/settings
          Ports,        \* listener ports
          DefaultPort,  \* 8642
          References,   \* names under which the credential file keeps a key
          TextReference, MediaReference,  \* text-llm, media-processor
          Assignments,  \* the references that payloads give the two roles
          MaxVersions,  \* bound: configurations written
          NoFile,       \* config.json does not exist
          Nobody        \* nobody holds the asyncio.Lock

ASSUME RuntimeAssumption ==
    /\ Requests \cap Savers = {} /\ IsFiniteSet(Requests \cup Savers)
    /\ Nobody \notin Requests \cup Savers
    /\ DefaultPort \in Ports
    /\ MaxVersions \in Nat

\* The two profiles that own a credential, in the order a save stores them.
Roles == {"textLlm", "mediaProcessor"}

ASSUME ReferenceAssumption ==
    /\ {TextReference, MediaReference} \subseteq References
    /\ Assignments \subseteq [Roles -> References]

Tasks == Requests \cup Savers

(***************************************************************************)
(* A configuration.  ver numbers the writes; ref[r] is the credential      *)
(* reference of role r, and key[r] the write that supplied the API key it  *)
(* stood for when the role was configured with it.  kind tells whether a   *)
(* runtime can be built from it: "odd" endpoints pass the console's and    *)
(* the CLI's checks and are refused by the provider's constructor.  refs   *)
(* tells whether credentialEnv/apiKeyEnv name an environment variable.     *)
(***************************************************************************)
Conf == [ver : 0..MaxVersions, port : Ports, kind : {"good", "odd"},
         refs : {"named", "blank"}, ref : [Roles -> References],
         key : [Roles -> 0..MaxVersions]]

ASSUME NoFileAssumption == NoFile \notin Conf

Default == [ver |-> 0, port |-> DefaultPort, kind |-> "good",
            refs |-> "named",
            ref |-> [r \in Roles |-> IF r = "textLlm" THEN TextReference ELSE MediaReference],
            key |-> [r \in Roles |-> 0]]

VARIABLES
    file,       \* config.json
    keys,       \* providers.json: the write that last set each reference's key
    ver,        \* configurations written so far
    up,         \* the runtime process is running
    reloadable, \* config.json existed when it started
    built,      \* the configurations of the runtimes this process has built
    current,    \* index in built of ReloadablePersonalRuntime._runtime
    open,       \* the built runtimes whose clients are not closed
    leaked,     \* runtimes whose close() raised
    holder,     \* the task inside `async with self._lock`
    queue,      \* the tasks waiting for it, first come first served
    pc,         \* what each task is doing
    gen,        \* the runtime a request uses or a save has built
    applied,    \* newest version this process answered as saved and reloaded
    answered,   \* newest version the user was told is saved
    wizard,     \* what a running `mb init` read from config.json
    cli         \* how the last `mb start` ended

vars == <<file, keys, ver, up, reloadable, built, current, open, leaked,
          holder, queue, pc, gen, applied, answered, wizard, cli>>

console == <<wizard, cli, answered>>
disk    == <<file, keys, ver>>
process == <<up, reloadable>>
runtime == <<built, current, open, leaked>>
tasks   == <<holder, queue, pc, gen, applied>>

Init ==
    /\ file = NoFile
    /\ keys = [n \in References |-> 0]
    /\ ver = 0
    /\ up = FALSE /\ reloadable = FALSE
    /\ built = <<>> /\ current = 0 /\ open = {} /\ leaked = {}
    /\ holder = Nobody /\ queue = <<>>
    /\ pc = [t \in Tasks |-> "idle"] /\ gen = [t \in Tasks |-> 0]
    /\ applied = 0 /\ answered = 0
    /\ wizard = NoFile /\ cli = "none"

-----------------------------------------------------------------------------
(* Reading the configuration file *)

\* Both loaders fall back to the defaults when there is no file.
Loaded == IF file = NoFile THEN Default ELSE file

\* validateConfig of the CLI insists on environment references.
CliLoads == Loaded.refs = "named"

\* The constructors of the provider clients accept the configuration.
Builds(c) == c.kind = "good"

-----------------------------------------------------------------------------
(* The process, as `mb start`, `mb stop` and `mb init` see it *)

\* A faulty shutdown that leaves the tasks their runtimes.
GoneKeepsGen ==
    /\ up' = FALSE /\ reloadable' = FALSE
    /\ built' = <<>> /\ current' = 0 /\ open' = {} /\ leaked' = {}
    /\ holder' = Nobody /\ queue' = <<>>
    /\ pc' = [t \in Tasks |-> "idle"] /\ UNCHANGED gen
    /\ applied' = 0

\* The process is gone: with it every task, runtime and lock.
Gone ==
    /\ up' = FALSE /\ reloadable' = FALSE
    /\ built' = <<>> /\ current' = 0 /\ open' = {} /\ leaked' = {}
    /\ holder' = Nobody /\ queue' = <<>>
    /\ pc' = [t \in Tasks |-> "idle"] /\ gen' = [t \in Tasks |-> 0]
    /\ applied' = 0

\* `mb stop`, a kill or a crash: at any await the process may disappear.
Stop ==
    /\ up
    /\ Gone
    /\ UNCHANGED <<disk, console>>

\* The first runtime, from the environment the CLI derived from c.  It can be
\* reloaded when there is a file to reload it from.
FirstRuntime(c) ==
    /\ up' = TRUE
    /\ reloadable' = (file' # NoFile)
    /\ built' = <<c>> /\ current' = 1 /\ open' = {1}

\* `mb start [--port]`: an override is saved before the process is spawned.
\* The process exits when the providers refuse the configuration.
Start(port, override) ==
    /\ ~up
    /\ CliLoads
    /\ LET c == [Loaded EXCEPT !.port = port]
       IN  /\ override \/ port = Loaded.port
           /\ file' = IF override THEN c ELSE file
           /\ IF Builds(c)
              THEN FirstRuntime(c) /\ cli' = "started"
              ELSE /\ cli' = "exited"
                   /\ UNCHANGED <<process, built, current, open>>
    /\ UNCHANGED <<keys, ver, leaked, tasks, answered, wizard>>

\* loadConfig throws: `mb start`, and the second half of `mb service restart`.
StartRefused ==
    /\ ~up
    /\ ~CliLoads
    /\ cli' = "refused"
    /\ UNCHANGED <<disk, process, runtime, tasks, answered, wizard>>

\* `mb init` reads the file, asks its questions, and writes all of it back.
WizardRead ==
    /\ wizard = NoFile
    /\ CliLoads
    /\ wizard' = Loaded
    /\ UNCHANGED <<disk, process, runtime, tasks, answered, cli>>

WizardWrite(port, kind) ==
    /\ wizard # NoFile
    /\ ver < MaxVersions
    /\ ver' = ver + 1
    /\ file' = [wizard EXCEPT !.ver = ver + 1, !.port = port, !.kind = kind]
    /\ wizard' = NoFile
    /\ UNCHANGED <<keys, process, runtime, tasks, answered, cli>>

-----------------------------------------------------------------------------
(* Saving the settings *)

\* The HTML form has no fields for API keys and names the default references.
FormPayload == [ref |-> Default.ref, keys |-> {}]

\* What POST /api/settings and the form bring besides ports and endpoints: a
\* reference for each role, and the roles whose API key comes along.
Payloads == {[ref |-> a, keys |-> R] : a \in Assignments, R \in SUBSET Roles}
                \cup {FormPayload}

\* The credential file once the API keys that come with the roles of R are
\* stored, each under the reference that the payload gives its role.
Stored(ref, R) ==
    [n \in References |-> IF \E r \in R : ref[r] = n THEN ver + 1 ELSE keys[n]]

\* The configuration a save writes, with the references of the payload; it asks
\* for what they stand for.  Payloads the validators reject change nothing.
Saved(port, kind, ref, R) ==
    [ver  |-> ver + 1, port |-> port, kind |-> kind, refs |-> "blank", ref |-> ref,
     key  |-> [r \in Roles |-> Stored(ref, R)[ref[r]]]]

\* A faulty save that writes the configuration before the keys.
CutAtConfigurationFirst(c, R) ==
    {[keys |-> keys, file |-> c], [keys |-> Stored(c.ref, R), file |-> c]}

\* What is on disk when a save is cut short: the keys go first, one by one,
\* and the configuration replaces the old one in a single rename.
CutAt(c, R) ==
    {[keys |-> Stored(c.ref, P), file |-> file] : P \in {{}, R \cap {"textLlm"}, R}}
        \cup {[keys |-> Stored(c.ref, R), file |-> c]}

\* A step of the save raises (credential store, temporary file, fsync, chmod).
SaveFails(s, port, kind, ref, R) ==
    /\ up /\ pc[s] = "idle" /\ ver < MaxVersions
    /\ ver' = ver + 1
    /\ \E d \in CutAt(Saved(port, kind, ref, R), R) : keys' = d.keys /\ file' = d.file
    /\ UNCHANGED <<process, runtime, tasks, console>>

\* The process dies in the middle of the save.
SaveCut(s, port, kind, ref, R) ==
    /\ up /\ pc[s] = "idle" /\ ver < MaxVersions
    /\ ver' = ver + 1
    /\ \E d \in CutAt(Saved(port, kind, ref, R), R) : keys' = d.keys /\ file' = d.file
    /\ Gone
    /\ UNCHANGED console

\* The port is compared with the file's, not with the listener's; a process
\* that started without a file has no reload() to call.
Reloads(c) == reloadable /\ c.port = Loaded.port

\* The factory of the reloadable runtime: another runtime with open clients.
Replacement(c) == built' = Append(built, c) /\ open' = open \cup {Len(built')}

\* Saved.  When the running process is to change, the factory reads the file
\* just written and builds the replacement before asking for the lock; if it
\* raises, the new file stays and so does the old runtime.
Save(s, port, kind, ref, R) ==
    /\ up /\ pc[s] = "idle" /\ ver < MaxVersions
    /\ ver' = ver + 1
    /\ keys' = Stored(ref, R)
    /\ file' = Saved(port, kind, ref, R)
    /\ IF Reloads(file') /\ Builds(file')
       THEN /\ Replacement(file')
            /\ gen' = [gen EXCEPT ![s] = Len(built')]
            /\ pc' = [pc EXCEPT ![s] = "waiting"]
            /\ queue' = Append(queue, s)
            /\ UNCHANGED <<current, leaked, holder, applied, answered>>
       ELSE /\ answered' = IF Reloads(file') THEN answered ELSE ver + 1
            /\ UNCHANGED <<runtime, tasks>>
    /\ UNCHANGED <<process, wizard, cli>>

-----------------------------------------------------------------------------
(* The lock of ReloadablePersonalRuntime *)

\* A queue without the task t, in the same order.
Without(q, t) ==
    LET n == CHOOSE i \in 1..Len(q) : q[i] = t
    IN [i \in 1..(Len(q) - 1) |-> IF i < n THEN q[i] ELSE q[i + 1]]

\* A request reaches runtime.invoke and asks for the lock.
Arrive(r) ==
    /\ up /\ reloadable /\ pc[r] = "idle"
    /\ pc' = [pc EXCEPT ![r] = "waiting"]
    /\ queue' = Append(queue, r)
    /\ UNCHANGED <<disk, process, runtime, holder, gen, applied, console>>

\* A faulty lock that any waiting task may take.
GrantedToAny(t) == holder = Nobody /\ t \in Range(queue)

\* A faulty reload that swaps, and an invoke that runs, without the lock.
GrantedAnyway(t) == queue # <<>> /\ Head(queue) = t

\* asyncio.Lock is granted to the task that has waited longest.
Granted(t) == holder = Nobody /\ queue # <<>> /\ Head(queue) = t

\* The request runs on the runtime in use now, holding the lock.
InvokeBegin(r) ==
    /\ Granted(r)
    /\ holder' = r
    /\ queue' = Without(queue, r)
    /\ pc' = [pc EXCEPT ![r] = "running"]
    /\ gen' = [gen EXCEPT ![r] = current]
    /\ UNCHANGED <<disk, process, runtime, applied, console>>

\* A process without a reload() invokes its only runtime with no lock.
InvokeUnlocked(r) ==
    /\ up /\ ~reloadable /\ pc[r] = "idle"
    /\ pc' = [pc EXCEPT ![r] = "running"]
    /\ gen' = [gen EXCEPT ![r] = current]
    /\ UNCHANGED <<disk, process, runtime, holder, queue, applied, console>>

\* invoke returns or raises.  What is streamed afterwards is already complete.
InvokeEnd(r) ==
    /\ pc[r] = "running"
    /\ holder' = Nobody
    /\ pc' = [pc EXCEPT ![r] = "idle"]
    /\ gen' = [gen EXCEPT ![r] = 0]
    /\ UNCHANGED <<disk, process, runtime, queue, applied, console>>

\* A faulty reload that closes the runtime the process started with.
SwapClosesFirst(s) ==
    /\ Granted(s)
    /\ holder' = s
    /\ queue' = Without(queue, s)
    /\ pc' = [pc EXCEPT ![s] = "closing"]
    /\ current' = gen[s]
    /\ gen' = [gen EXCEPT ![s] = 1]
    /\ open' = open \ {1}
    /\ UNCHANGED <<disk, process, built, leaked, applied, console>>

\* reload() has the lock: swap, then start closing the previous runtime.
\* Its gen now names the runtime it closes.
Swap(s) ==
    /\ Granted(s)
    /\ holder' = s
    /\ queue' = Without(queue, s)
    /\ pc' = [pc EXCEPT ![s] = "closing"]
    /\ current' = gen[s]
    /\ gen' = [gen EXCEPT ![s] = current]
    /\ open' = open \ {current}
    /\ UNCHANGED <<disk, process, built, leaked, applied, console>>

\* close() is done; the save is answered as applied.
Reloaded(s) ==
    /\ pc[s] = "closing"
    /\ holder' = Nobody
    /\ pc' = [pc EXCEPT ![s] = "idle"]
    /\ gen' = [gen EXCEPT ![s] = 0]
    /\ applied' = IF built[current].ver > applied THEN built[current].ver ELSE applied
    /\ answered' = built[current].ver
    /\ UNCHANGED <<disk, process, runtime, queue, wizard, cli>>

\* A faulty reload that does not release the lock when close() raises.
CloseFailsHolding(s) ==
    /\ pc[s] = "closing"
    /\ pc' = [pc EXCEPT ![s] = "idle"]
    /\ gen' = [gen EXCEPT ![s] = 0]
    /\ open' = open \cup {gen[s]}
    /\ leaked' = leaked \cup {gen[s]}
    /\ UNCHANGED <<disk, process, built, current, queue, holder, applied, console>>

\* clear_state or asset_store.clear raises: the clients behind it stay open.
CloseFails(s) ==
    /\ pc[s] = "closing"
    /\ holder' = Nobody
    /\ pc' = [pc EXCEPT ![s] = "idle"]
    /\ gen' = [gen EXCEPT ![s] = 0]
    /\ open' = open \cup {gen[s]}
    /\ leaked' = leaked \cup {gen[s]}
    /\ UNCHANGED <<disk, process, built, current, queue, applied, console>>

-----------------------------------------------------------------------------
Next ==
    \/ \E port \in Ports, override \in BOOLEAN : Start(port, override)
    \/ StartRefused
    \/ Stop
    \/ WizardRead
    \/ \E port \in Ports, kind \in {"good", "odd"} : WizardWrite(port, kind)
    \/ \E s \in Savers, port \in Ports, kind \in {"good", "odd"},
          p \in Payloads :
          \/ Save(s, port, kind, p.ref, p.keys)
          \/ SaveFails(s, port, kind, p.ref, p.keys)
          \/ SaveCut(s, port, kind, p.ref, p.keys)
    \/ \E r \in Requests :
          Arrive(r) \/ InvokeBegin(r) \/ InvokeUnlocked(r) \/ InvokeEnd(r)
    \/ \E s \in Savers : Swap(s) \/ Reloaded(s) \/ CloseFails(s)

Spec == Init /\ [][Next]_vars

\* The event loop runs every task that can go on, and a call to a provider or
\* the closing of a client ends: every httpx client has a 60 second timeout.
FairSpec ==
    /\ Spec
    /\ \A r \in Requests : WF_vars(InvokeBegin(r)) /\ WF_vars(InvokeEnd(r))
    /\ \A s \in Savers : WF_vars(Swap(s)) /\ WF_vars(Reloaded(s) \/ CloseFails(s))

-----------------------------------------------------------------------------
(* Properties *)

\* Every variable has its type.
TypeOK ==
    /\ file \in Conf \cup {NoFile}
    /\ keys \in [References -> 0..MaxVersions]
    /\ ver \in 0..MaxVersions
    /\ up \in BOOLEAN /\ reloadable \in BOOLEAN
    /\ Len(built) <= MaxVersions + 1 /\ Range(built) \subseteq Conf
    /\ current \in 0..Len(built)
    /\ open \subseteq 1..Len(built) /\ leaked \subseteq 1..Len(built)
    /\ holder \in Tasks \cup {Nobody}
    /\ Range(queue) \subseteq Tasks /\ Len(queue) <= Cardinality(Tasks)
    /\ pc \in [Tasks -> {"idle", "waiting", "running", "closing"}]
    /\ gen \in [Tasks -> 0..Len(built)]
    /\ applied \in 0..MaxVersions /\ answered \in 0..MaxVersions
    /\ wizard \in Conf \cup {NoFile}
    /\ cli \in {"none", "started", "refused", "exited"}

\* While a request runs, the runtime it runs on is neither closed nor being
\* closed, however many saves reload the process meanwhile (the lock of
\* ReloadablePersonalRuntime is held by invoke and by the swap).
OpenWhileUsed ==
    \A r \in Requests : pc[r] = "running" => gen[r] \in open \ leaked

\* Concurrent saves are applied in the order they were written: once a save
\* is answered as reloaded, the runtime in use is never an older one, though
\* each save builds its runtime before it waits for the lock.
NeverOlderThanAnswered ==
    up => built[current].ver >= applied

\* No configuration, on disk, running or waiting to be swapped in, asks for a
\* key that came with it and was not stored, whichever references the roles are
\* given and share: a save that fails or is killed half way leaves at worst a new
\* key beside the old configuration.
KeyBeforeConfiguration ==
    \A c \in Range(built) \cup ({file} \ {NoFile}) :
        \A r \in Roles : c.key[r] <= keys[c.ref[r]]

\* The only runtimes with open clients are the one in use, the ones a save has
\* built and not yet swapped in, and those whose close() raised: reloading
\* never accumulates connections.
NoRuntimeForgotten ==
    open \subseteq {current} \cup {gen[s] : s \in {t \in Savers : pc[t] = "waiting"}}
                   \cup leaked

\* A task that waits for the lock or holds it is eventually done: neither a
\* failing invoke nor a close() that raises leaves the lock held.
LockIsPassedOn ==
    \A t \in Tasks : (pc[t] # "idle") ~> (pc[t] = "idle")

\* The manual tells the user to run `mb service restart` after a save that
\* changes the port (docs/manuals/user/settings.md, "저장과 적용"); the command
\* must then accept the file the console saved.
RestartAccepted ==
    file # NoFile /\ file.ver = answered => cli # "refused"

-----------------------------------------------------------------------------

\* The runtime is swapped safely (reload, invoke): the four invariants above
\* together.
RuntimeSwapsSafely ==
    OpenWhileUsed /\ NeverOlderThanAnswered /\ KeyBeforeConfiguration /\ NoRuntimeForgotten

=============================================================================
