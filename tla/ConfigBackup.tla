---------------------------- MODULE ConfigBackup ----------------------------
(***************************************************************************)
(* runConfigBackup: the export of the configuration goes to the folder     *)
(* "config-backups" of one destination, then its sidecar, and then the     *)
(* oldest exports are deleted. A run started by hand and one started by    *)
(* cron may overlap. Names sort like the times in them.                    *)
(***************************************************************************)
EXTENDS Naturals, FiniteSets

CONSTANTS
    ConfigRun,        \* runs that overlap
    MaxExports,       \* bound: exports; an export is named by its number
    RetentionCount,   \* config.backup.retention; 0 keeps everything
    MaxMishaps        \* bound: failing calls of the destination, crashes

ASSUME ConfigAssumption ==
    MaxExports \in Nat /\ RetentionCount \in Nat /\ MaxMishaps \in Nat

VARIABLES
    remote,      \* files of the destination, by path
    configRun,   \* what each run is doing
    exports,
    mishaps

configVars == <<remote, configRun, exports, mishaps>>

Export == 1 .. MaxExports
(* A path: the folder, and the archive or its sidecar in it. *)
Path == [folder : {"config-backups", ""}, export : Export, meta : BOOLEAN]

Resting == [at |-> "away", own |-> {}, doomed |-> {}]

ConfigTypeOK ==
    /\ remote \subseteq Path
    /\ configRun \in [ConfigRun -> [at : {"away", "archive", "sidecar", "list", "delete"},
                                    own : SUBSET Export, doomed : SUBSET Path]]
    /\ exports \in 0 .. MaxExports
    /\ mishaps \in 0 .. MaxMishaps

ConfigInit ==
    /\ remote = {}
    /\ configRun = [r \in ConfigRun |-> Resting]
    /\ exports = 0
    /\ mishaps = 0

-----------------------------------------------------------------------------
Archive(e) == [folder |-> "config-backups", export |-> e, meta |-> FALSE]
Sidecar(p) == [p EXCEPT !.meta = TRUE]

(* The path of an export, as list() returns it, shortened to its name. *)
name(p) == [p EXCEPT !.folder = ""]

Mishap(happens) ==
    IF happens THEN mishaps < MaxMishaps /\ mishaps' = mishaps + 1
    ELSE UNCHANGED mishaps

ConfigAt(r, place) == [configRun EXCEPT ![r].at = place]

(* Settings, adapter, key and the temporary file; a run that may not or     *)
(* cannot go on leaves nothing behind.                                      *)
StartExport(r) ==
    /\ configRun[r].at = "away"
    /\ exports < MaxExports
    /\ exports' = exports + 1
    /\ configRun' = [configRun EXCEPT ![r] = [Resting EXCEPT !.at = "archive", !.own = {exports + 1}]]
    /\ UNCHANGED <<remote, mishaps>>

(* upload() answers false when it fails, and nobody looks at the answer. *)
UploadExport(r) ==
    /\ configRun[r].at = "archive"
    /\ \E fails \in BOOLEAN :
          /\ Mishap(fails)
          /\ remote' = IF fails THEN remote ELSE remote \cup {Archive(e) : e \in configRun[r].own}
    /\ configRun' = ConfigAt(r, "sidecar")
    /\ UNCHANGED exports

UploadSidecar(r) ==
    /\ configRun[r].at = "sidecar"
    /\ \E fails \in BOOLEAN :
          /\ Mishap(fails)
          /\ remote' = IF fails THEN remote
                       ELSE remote \cup {Sidecar(Archive(e)) : e \in configRun[r].own}
    /\ configRun' = IF RetentionCount > 0 THEN ConfigAt(r, "list")
                    ELSE [configRun EXCEPT ![r] = Resting]
    /\ UNCHANGED exports

(* Newest first, and what is left after the first RetentionCount. *)
Surplus(files) ==
    {p \in files : Cardinality({q \in files : q.export > p.export}) >= RetentionCount}

ListExports(r) ==
    /\ configRun[r].at = "list"
    /\ LET files == {p \in remote : p.folder = "config-backups" /\ ~p.meta}
       IN  configRun' = IF Surplus(files) = {} THEN [configRun EXCEPT ![r] = Resting]
                        ELSE [configRun EXCEPT ![r].at = "delete", ![r].doomed = Surplus(files)]
    /\ UNCHANGED <<remote, exports, mishaps>>

(* One surplus export, oldest last, and its sidecar, by the name of the     *)
(* file. A file that is not there counts as deleted, a failure is passed    *)
(* over.                                                                    *)
DeleteExport(r) ==
    \E p \in configRun[r].doomed, fails \in BOOLEAN :
        /\ \A q \in configRun[r].doomed : q.export <= p.export
        /\ Mishap(fails)
        /\ remote' = remote \ (IF fails THEN {Sidecar(name(p))} ELSE {name(p), Sidecar(name(p))})
        /\ configRun' = IF configRun[r].doomed = {p} THEN [configRun EXCEPT ![r] = Resting]
                        ELSE [configRun EXCEPT ![r].doomed = @ \ {p}]
        /\ UNCHANGED exports

(* A call that throws, or a crash, ends the run where it is. *)
LoseExport(r) ==
    /\ configRun[r].at # "away"
    /\ Mishap(TRUE)
    /\ configRun' = [configRun EXCEPT ![r] = Resting]
    /\ UNCHANGED <<remote, exports>>

ConfigNext == \E r \in ConfigRun : \/ StartExport(r) \/ UploadExport(r) \/ UploadSidecar(r)
                                   \/ ListExports(r) \/ DeleteExport(r) \/ LoseExport(r)

ConfigSpec == ConfigInit /\ [][ConfigNext]_configVars

-----------------------------------------------------------------------------
(* The destination does not fill up: when no run is underway and nothing    *)
(* went wrong, it holds no more exports than the configured number          *)
(* (system-backup.md, "Number of backups to keep").                         *)
ConfigRetention ==
    (RetentionCount > 0 /\ mishaps = 0 /\ \A r \in ConfigRun : configRun[r].at = "away")
        => Cardinality({p \in remote : p.folder = "config-backups" /\ ~p.meta}) <= RetentionCount

=============================================================================
