--------------------------- MODULE SecretBootstrap ---------------------------
(***************************************************************************)
(* The secrets of a self-hosted installation, which are made once          *)
(* (deploy/scripts/secret_bootstrap.py), and the volume of its database,   *)
(* which keeps the password it was initialised with.                       *)
(*                                                                         *)
(* A run of the script asks for the volume, takes a lock, and links one    *)
(* file after the other.  It may fail at any step, or be killed without    *)
(* cleaning up, and an operator may run it several times at once.          *)
(***************************************************************************)
EXTENDS Naturals, FiniteSets

CONSTANTS Runs,      \* runs of the script
          NSecrets,  \* the secrets, numbered in the order of SECRET_NAMES
          Gone       \* no file, no volume

ASSUME SecretAssumption ==
    /\ NSecrets \in Nat \ {0}
    /\ Gone \notin [run : Runs, mode : {"0400", "0600"}]

Names == 1..NSecrets

VARIABLES
    secretFile,  \* the secret files: the run that generated each, its mode
    lock,        \* is there a lock file
    boot,        \* where each run is
    volume       \* the database volume: the run whose password initialised it

secretVars == <<secretFile, lock, boot, volume>>

SecretInit ==
    /\ secretFile = [n \in Names |-> Gone]
    /\ lock = FALSE
    /\ boot = [r \in Runs |-> [pc |-> "new"]]
    /\ volume = Gone

-----------------------------------------------------------------------------
(* Secrets *)

Pc(r) == boot[r].pc
Steps(r, pc) == boot' = [boot EXCEPT ![r] = [@ EXCEPT !.pc = pc]]
Starts(r, pc) == boot' = [boot EXCEPT ![r] = [@ EXCEPT !.pc = pc, !.next = 1]]
Present == {n \in Names : secretFile[n] # Gone}
Working(r) == Pc(r) \in {"look", "link", "loosen", "tighten"}

\* _database_volume_exists: docker is asked before the lock is taken.
AskForVolume(r) ==
    /\ Pc(r) = "new"
    /\ boot' = [boot EXCEPT ![r] = [pc |-> "asked", exists |-> volume # Gone, next |-> 1]]
    /\ UNCHANGED <<secretFile, lock, volume>>

\* ensure_secrets: the lock file, which must be new.
Acquire(r) ==
    /\ Pc(r) = "asked"
    /\ IF lock THEN Steps(r, "failed") ELSE Steps(r, "look")
    /\ lock' = TRUE
    /\ UNCHANGED <<secretFile, volume>>

\* _validate_existing: modes, and the values that belong together.
Validated ==
    /\ Present = Names
    /\ \A n \in Names : secretFile[n].mode = "0400" /\ secretFile[n].run = secretFile[1].run

\* A faulty bootstrap that does not care for the volume.
LookAnyVolume(r) ==
    /\ Pc(r) = "look"
    /\ IF Present = {}
       THEN Starts(r, "link") /\ UNCHANGED lock
       ELSE /\ Steps(r, IF Validated THEN "preserved" ELSE "failed")
            /\ lock' = FALSE
    /\ UNCHANGED <<secretFile, volume>>

\* A set that is there is validated and kept, a part of one is refused, and
\* none is made for a volume that has a password already.
Look(r) ==
    /\ Pc(r) = "look"
    /\ IF Present = {} /\ ~boot[r].exists
       THEN Starts(r, "link") /\ UNCHANGED lock
       ELSE /\ Steps(r, IF Validated THEN "preserved" ELSE "failed")
            /\ lock' = FALSE
    /\ UNCHANGED <<secretFile, volume>>

Advances(r, pc) ==
    IF boot[r].next < NSecrets
    THEN boot' = [boot EXCEPT ![r].next = @ + 1]
    ELSE Starts(r, pc)

\* A faulty link that replaces a file that is there.
LinkReplacing(r) ==
    /\ Pc(r) = "link"
    /\ LET n == boot[r].next IN
       /\ secretFile' = [secretFile EXCEPT ![n] = [run |-> r, mode |-> "0400"]]
       /\ Advances(r, "loosen")
    /\ UNCHANGED <<lock, volume>>

\* os.link of the next staged file, whose name must be free.
Link(r) ==
    /\ Pc(r) = "link"
    /\ LET n == boot[r].next IN
       IF secretFile[n] = Gone
       THEN /\ secretFile' = [secretFile EXCEPT ![n] = [run |-> r, mode |-> "0400"]]
            /\ Advances(r, "loosen")
            /\ UNCHANGED lock
       ELSE Steps(r, "failed") /\ lock' = FALSE /\ UNCHANGED secretFile
    /\ UNCHANGED volume

Chmod(n, mode) == [secretFile EXCEPT ![n] = IF @ = Gone THEN @ ELSE [@ EXCEPT !.mode = mode]]

\* The staged file becomes writable, and with it the secret, which is the
\* same file; then it is removed.
Loosen(r) ==
    /\ Pc(r) = "loosen"
    /\ secretFile' = Chmod(boot[r].next, "0600")
    /\ Advances(r, "tighten")
    /\ UNCHANGED <<lock, volume>>

\* A faulty end that leaves the last file writable.
TightenTooFew(r) ==
    /\ Pc(r) = "tighten"
    /\ IF boot[r].next < NSecrets
       THEN secretFile' = Chmod(boot[r].next, "0400") /\ UNCHANGED lock
       ELSE lock' = FALSE /\ UNCHANGED secretFile
    /\ Advances(r, "created")
    /\ UNCHANGED volume

\* The secrets become read-only, and at the last one the run is done.
Tighten(r) ==
    /\ Pc(r) = "tighten"
    /\ secretFile' = Chmod(boot[r].next, "0400")
    /\ lock' = IF boot[r].next < NSecrets THEN lock ELSE FALSE
    /\ Advances(r, "created")
    /\ UNCHANGED volume

\* An error removes the lock, a crash leaves it; neither takes a link back.
Breaks(r) ==
    /\ Working(r)
    /\ Steps(r, "failed")
    /\ lock' \in {FALSE, lock}
    /\ UNCHANGED <<secretFile, volume>>

Pending(r) == Pc(r) = "asked" \/ Working(r)

\* The operator removes a lock that blocks the bootstrap (rightly or not);
\* the files get lost or are cleared away while no run is under way.
Removes ==
    /\ \/ lock /\ lock' = FALSE /\ UNCHANGED secretFile
       \/ /\ Present # {} /\ \A r \in Runs : ~Pending(r)
          /\ secretFile' = [n \in Names |-> Gone]
          /\ UNCHANGED lock
    /\ UNCHANGED <<boot, volume>>

\* The first start of the database initialises its volume with the password
\* in the first secret.
VolumeUp ==
    /\ volume = Gone /\ secretFile[1] # Gone
    /\ volume' = secretFile[1].run
    /\ UNCHANGED <<secretFile, lock, boot>>

\* The operator takes the installation down with its volume.
VolumeDown ==
    /\ volume # Gone /\ volume' = Gone
    /\ UNCHANGED <<secretFile, lock, boot>>

SecretNext ==
    \/ \E r \in Runs : \/ AskForVolume(r) \/ Acquire(r) \/ Look(r) \/ Link(r)
                       \/ Loosen(r) \/ Tighten(r) \/ Breaks(r)
    \/ Removes \/ VolumeUp \/ VolumeDown

SecretSpec == SecretInit /\ [][SecretNext]_secretVars

-----------------------------------------------------------------------------
(* Properties *)

\* Files, runs and the volume have their types.
SecretTypeOK ==
    /\ secretFile \in [Names -> [run : Runs, mode : {"0400", "0600"}] \cup {Gone}]
    /\ lock \in BOOLEAN
    /\ volume \in Runs \cup {Gone}

\* The secrets that are there come from one run, whatever runs and crashes
\* there were: keys, passwords and peppers of two runs never get mixed, even
\* when the lock was taken from a run that was still alive.
SecretsOfOneRun == \A n, m \in Present : secretFile[n].run = secretFile[m].run

\* The password of a database volume is never replaced while it exists, not
\* even by a run that asked for the volume before it was there.
SecretsFitVolume == volume # Gone /\ secretFile[1] # Gone => secretFile[1].run = volume

\* A run that reported a new set has left one that later runs accept, as long
\* as the files are there.
CreatedIsUsable ==
    \A r \in Runs : Pc(r) = "created" /\ (\E n \in Present : secretFile[n].run = r) => Validated

\* The secrets can be used (secret_bootstrap.py): the three invariants above
\* together.
SecretsAreSound == SecretsOfOneRun /\ SecretsFitVolume /\ CreatedIsUsable

=============================================================================
