---------------------------- MODULE MCInstallation ----------------------------
(***************************************************************************)
(* The programs around the gateway for TLC, side by side: the npm command  *)
(* line, the deployment scripts and the two adapters.  A behavior is one   *)
(* of one of them, the others stay in their initial states.                *)
(***************************************************************************)
EXTENDS ServiceLauncher, SecretBootstrap, DatabaseOperations, ProviderConfig,
        PreUpstreamAdapter, TLC

VARIABLE part

installationVars == <<part, vars, secretVars, databaseVars, configVars, adapterVars>>

InstallationInit ==
    /\ part \in {"launcher", "secrets", "database", "provider", "adapter"}
    /\ Init /\ SecretInit /\ DatabaseInit /\ ConfigInit /\ AdapterInit
    /\ part # "launcher" => root = None
    /\ part # "provider" => configFile = Missing

InstallationNext ==
    /\ UNCHANGED part
    /\ \/ /\ part = "launcher" /\ Next
          /\ UNCHANGED <<secretVars, databaseVars, configVars, adapterVars>>
       \/ /\ part = "secrets" /\ SecretNext
          /\ UNCHANGED <<vars, databaseVars, configVars, adapterVars>>
       \/ /\ part = "database" /\ DatabaseNext
          /\ UNCHANGED <<vars, secretVars, configVars, adapterVars>>
       \/ /\ part = "provider" /\ ConfigNext
          /\ UNCHANGED <<vars, secretVars, databaseVars, adapterVars>>
       \/ /\ part = "adapter" /\ AdapterNext
          /\ UNCHANGED <<vars, secretVars, databaseVars, configVars>>

InstallationSpec == InstallationInit /\ [][InstallationNext]_installationVars

\* The type of the state of the part that runs.
InstallationTypeOK ==
    CASE part = "launcher" -> TypeOK
      [] part = "secrets"  -> SecretTypeOK
      [] part = "database" -> DatabaseTypeOK
      [] part = "provider" -> ConfigTypeOK
      [] part = "adapter"  -> AdapterTypeOK

\* The adapters are safe to use: the OpenCodex manager (manager.py) keeps the
\* original of a configuration, and the OmniRoute plugin (index.mjs) lets
\* nothing pass undecided.
AdaptersAreSafe == OriginalIsKept /\ DecidedBeforeUpstream

\* No command destroys what it does not own: the launcher signals its own
\* service, or a program that got the number after the identity had been checked
\* (process.cjs), and leaves a runtime behind (runtime.cjs); remove of the
\* OpenCodex manager puts back what apply replaced, or nothing.
NothingIsDestroyed == CommandsHarmNobody /\ RemoveRestores

\* The parts share their model values, so that few permutations are enough:
\* Commands, Runs, Calls and Contents are one set, Pids and Models another.
Symmetry == Permutations(Commands) \cup Permutations(Pids)
=============================================================================
