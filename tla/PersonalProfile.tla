--------------------------- MODULE PersonalProfile ---------------------------
(***************************************************************************)
(* The two-process personal installation: the profile's snapshot store     *)
(* (media_bridge_personal/local_state.py), the settings page that writes   *)
(* it (web_app.py), the Data process that reads it when it starts          *)
(* (data_entrypoint.py), and the supervisor of both (supervisor.py,        *)
(* runtime.py).                                                            *)
(*                                                                         *)
(* A save replaces two files one after the other; the process may die, a   *)
(* write may fail and the disk may damage a file in between.  The caller   *)
(* of the supervisor polls reconcile() and survives its exceptions.        *)
(***************************************************************************)
EXTENDS Naturals, FiniteSets

CONSTANTS MaxSaves,     \* bound: saves of the settings page
          MaxFailures,  \* failures whose backoff can still be computed: 1024,
                        \* since 2.0 ** 1024 overflows
          MaxDelay,     \* restart_max_seconds, in units of the base delay
          Absent,       \* no file, no process
          Damaged       \* the file does not hold a valid snapshot

ASSUME ProfileAssumption ==
    /\ MaxSaves \in Nat
    /\ MaxFailures \in Nat \ {0} /\ MaxDelay \in Nat \ {0}
    /\ Absent # Damaged /\ {Absent, Damaged} \cap 0..MaxSaves = {}

\* A fact of arithmetic, for the provers: they do not know what a power is.
ASSUME PowerAssumption == \A f \in 0..MaxFailures : 2 ^ f \in Nat

\* The settings page runs in "control".
Children == {"control", "data"}

\* A snapshot is known by the save that wrote it; 0 is the first-run state.
Snapshots == 0..MaxSaves

\* A supervised process: its Popen object, the failure count, the pending
\* restart and the time until it is due, the time since the process exited.
Supervised == [state : {"absent", "running", "exited"}, fails : 0..MaxFailures + 1,
               pending : BOOLEAN, due : 0..MaxDelay, waited : 0..MaxDelay]

VARIABLES
    active,    \* active.json
    previous,  \* previous.json
    saving,    \* the save whose second write is still to come, or Absent
    saves,     \* saves begun
    last,      \* the snapshot that last replaced the active one
    base,      \* the snapshot it was derived from
    damages,   \* files damaged and not rewritten since
    child,     \* the supervised processes
    inForce,   \* the snapshot the Data process runs with
    phase      \* "new", "up", "stopping", "stopped", "stuck"

store      == <<active, previous, saving, saves, last, base, damages>>
supervisor == <<child, inForce, phase>>
profileVars == <<store, supervisor>>

Unstarted == [state |-> "absent", fails |-> 0, pending |-> FALSE, due |-> 0, waited |-> 0]

ProfileInit ==
    /\ active = Absent /\ previous = Absent
    /\ saving = Absent /\ saves = 0
    /\ last = Absent /\ base = Absent /\ damages = {}
    /\ child = [n \in Children |-> Unstarted]
    /\ inForce = Absent
    /\ phase = "new"

-----------------------------------------------------------------------------
(* The snapshot store *)

Valid(file) == file \in Snapshots

\* load_last_known_good: the active snapshot, or else the previous one.
LastKnownGood == IF Valid(active) THEN active
                 ELSE IF Valid(previous) THEN previous ELSE Absent

\* A faulty publish that keeps the active file whatever it holds.
KeptUnread == active

\* publish keeps the active snapshot, if it is one, as the previous one.
Kept == IF Valid(active) THEN active ELSE previous

\* The first of the two replaced files.  A failing write leaves both and ends the
\* save; a failing fsync of the directory ends it after the file was replaced.
SaveBegins ==
    /\ child["control"].state = "running" /\ saving = Absent
    /\ saves < MaxSaves
    /\ saves' = saves + 1
    /\ \/ /\ saving' \in {Absent, [snapshot |-> saves + 1, base |-> LastKnownGood]}
          /\ previous' = Kept
          /\ damages' = IF Valid(active) THEN damages \ {"previous"} ELSE damages
       \/ UNCHANGED <<saving, previous, damages>>
    /\ UNCHANGED <<active, last, base, supervisor>>

\* The second; the answer "saved" follows, unless the write fails, or the fsync
\* of the directory after the file was replaced (the snapshot counts as published).
SaveEnds ==
    /\ saving # Absent
    /\ saving' = Absent
    /\ \/ /\ active' = saving.snapshot
          /\ last' = saving.snapshot /\ base' = saving.base
          /\ damages' = damages \ {"active"}
       \/ UNCHANGED <<active, last, base, damages>>
    /\ UNCHANGED <<previous, saves, supervisor>>

\* The disk damages one of the files.
Damage(f) ==
    /\ last # Absent
    /\ damages' = damages \cup {f}
    /\ IF f = "active" THEN active' = Damaged /\ UNCHANGED previous
                       ELSE previous' = Damaged /\ UNCHANGED active
    /\ UNCHANGED <<saving, saves, last, base, supervisor>>

-----------------------------------------------------------------------------
(* The supervisor *)

\* PersonalRuntime.start: a first-run snapshot when there is no valid one,
\* then both children.
StartBoth ==
    /\ phase = "new"
    /\ active' = 0 /\ last' = 0
    /\ child' = [n \in Children |-> [Unstarted EXCEPT !.state = "running"]]
    /\ inForce' = 0
    /\ phase' = "up"
    /\ UNCHANGED <<previous, saving, saves, base, damages>>

\* A child exits by itself; what it was saving is cut short.
Crash(n) ==
    /\ child[n].state = "running"
    /\ child' = [child EXCEPT ![n].state = "exited", ![n].waited = 0]
    /\ saving' = IF n = "control" THEN Absent ELSE saving
    /\ UNCHANGED <<active, previous, saves, last, base, damages, inForce, phase>>

Least(a, b) == IF a < b THEN a ELSE b

\* A faulty backoff without a maximum.
BackoffUnbounded(f) == 2 ^ (f - 1)

\* _backoff, for the failures whose power can be computed.
Backoff(f) == Least(2 ^ (f - 1), MaxDelay)

\* The next failure's power overflows: _schedule_restart raises.
Raises(s) == s.state = "exited" /\ ~s.pending /\ s.fails >= MaxFailures

\* A faulty schedule that computes the time before it marks the restart.
ScheduledTimeFirst(s) ==
    IF Raises(s) THEN s
    ELSE [s EXCEPT !.fails = s.fails + 1, !.pending = TRUE, !.due = Backoff(s.fails + 1)]

\* _schedule_restart.  The failure is counted and the restart marked as
\* pending before the time is computed, and set.
Scheduled(s) ==
    IF Raises(s)
    THEN [s EXCEPT !.fails = MaxFailures + 1, !.pending = TRUE]
    ELSE [s EXCEPT !.fails = s.fails + 1, !.pending = TRUE, !.due = Backoff(s.fails + 1)]

Relaunched(s) == [s EXCEPT !.state = "running", !.pending = FALSE]

\* A faulty reconciliation that does not wait for a pending restart.
ReconciledAtOnce(s) ==
    CASE s.state = "running" -> s
      [] s.state = "exited" /\ ~s.pending -> Scheduled(s)
      [] OTHER -> Relaunched(s)

\* _reconcile_child.
Reconciled(s) ==
    CASE s.state = "running" -> s
      [] s.state = "exited" /\ ~s.pending -> Scheduled(s)
      [] s.state = "exited" /\ s.pending /\ s.due > 0 -> s
      [] OTHER -> Relaunched(s)

\* reconcile, control first: an exception for control leaves data unseen.
\* A Data process reads the store once, when it is launched.
Reconcile ==
    /\ phase = "up"
    /\ child' = [n \in Children |->
                   IF n = "data" /\ Raises(child["control"]) THEN child[n]
                   ELSE Reconciled(child[n])]
    /\ inForce' = IF child["data"].state # child'["data"].state THEN LastKnownGood ELSE inForce
    /\ UNCHANGED <<store, phase>>

\* Time passes, one unit of the base delay.
Tick ==
    /\ child' = [n \in Children |->
           IF child[n].state # "exited" THEN child[n]
           ELSE [child[n] EXCEPT !.due = IF @ > 0 THEN @ - 1 ELSE 0,
                                 !.waited = Least(@ + 1, MaxDelay)]]
    /\ UNCHANGED <<store, inForce, phase>>

\* stop: from here on nothing is started; the children are asked to exit.
StopBegins ==
    /\ phase \in {"new", "up"}
    /\ phase' = "stopping"
    /\ UNCHANGED <<store, child, inForce>>

\* The children have exited in time or are killed.  A child that survives
\* even that for a second makes stop raise, and its objects are kept.
StopEnds ==
    /\ phase = "stopping"
    /\ \/ /\ phase' = "stopped"
          /\ child' = [n \in Children |-> [child[n] EXCEPT !.state = "absent"]]
          /\ saving' = Absent
       \/ /\ \E n \in Children : child[n].state = "running"
          /\ phase' = "stuck" /\ UNCHANGED <<child, saving>>
    /\ UNCHANGED <<active, previous, saves, last, base, damages, inForce>>

ProfileNext ==
    \/ SaveBegins \/ SaveEnds
    \/ \E f \in {"active", "previous"} : Damage(f)
    \/ StartBoth \/ Reconcile \/ Tick \/ StopBegins \/ StopEnds
    \/ \E n \in Children : Crash(n)

ProfileSpec == ProfileInit /\ [][ProfileNext]_profileVars

\* The caller keeps calling reconcile(), and time passes.
FairProfileSpec == ProfileSpec /\ WF_profileVars(Reconcile) /\ WF_profileVars(Tick)

-----------------------------------------------------------------------------
(* Properties *)

\* Every variable keeps its shape.
ProfileTypeOK ==
    /\ active \in Snapshots \cup {Absent, Damaged}
    /\ previous \in Snapshots \cup {Absent, Damaged}
    /\ saving \in [snapshot : 1..MaxSaves, base : Snapshots \cup {Absent}] \cup {Absent}
    /\ saves \in 0..MaxSaves
    /\ last \in Snapshots \cup {Absent} /\ base \in Snapshots \cup {Absent}
    /\ damages \subseteq {"active", "previous"}
    /\ child \in [Children -> Supervised]
    /\ inForce \in Snapshots \cup {Absent}
    /\ phase \in {"new", "up", "stopping", "stopped", "stuck"}

\* PersonalStateStore: while at most one file is damaged, what is loaded is
\* the last published snapshot or the one it was derived from, also after
\* failed and interrupted saves.
LastKnownGoodSurvives ==
    damages # {"active", "previous"} => LastKnownGood \in {last, base}

\* PersonalSupervisor: a process that exited is not launched again before
\* its backoff has passed, until the failure count reaches the overflow.
BackoffRespected ==
    [][\A n \in Children :
          /\ child[n].state = "exited" /\ child'[n].state = "running"
          /\ child[n].fails <= MaxFailures
          => child[n].waited >= Backoff(child[n].fails)]_profileVars

\* A process that exited is launched again, also when the backoff of the
\* other one overflows at every failure, unless the supervisor is stopped.
CrashedIsRelaunched ==
    \A n \in Children :
        child[n].state = "exited" ~> (child[n].state = "running" \/ phase # "up")
=============================================================================
