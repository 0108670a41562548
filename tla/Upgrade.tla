------------------------------- MODULE Upgrade -------------------------------
(* What a start of hp does before its command: ~/.psm becomes ~/.hostpilot,  *)
(* config.json is read, and an old configuration is upgraded: files backed   *)
(* up, server.json migrated into server.db, config.json rewritten (ops.rs,   *)
(* config.rs). Starts follow each other; each may be killed anywhere. A file *)
(* is a pair of a directory and a name; a file cut while it was written or   *)
(* copied is garbled: neither JSON nor a database. A backup is named by the  *)
(* second it is made in, so a later one in the same second overwrites it.    *)
EXTENDS Naturals, FiniteSets
CONSTANTS Aliases,   \* aliases of servers
          Installs,  \* what a user may have when this version first starts
          MaxFaults  \* bound: failed writes, cut copies, kills

Dirs == {"psm", "home", "other"}  \* ~/.psm, ~/.hostpilot, any other directory
Stores == Dirs \X {"server.json", "server.db"}
Configs == {<<"psm", "config.json">>, <<"home", "config.json">>}
HomeConfig == <<"home", "config.json">>
NoPath == <<"none", "none">>
CurrentVersion == 2

(* A config.json: version 0 stands for none, `key` is the name its path goes *)
(* by, and one that does not fit is JSON but no Config (a field is missing,  *)
(* or the version is not a number).                                          *)
Config == [version : 0..CurrentVersion, key : {"server_file_path", "server_db_path"},
           path : Stores \cup {NoPath}, fits : {"yes", "no"}]
DefaultConfig == [version |-> 0, key |-> "server_file_path", path |-> NoPath, fits |-> "yes"]

(* complete: the aliases whose entry in server.json has all its fields.      *)
Install == [dirs : SUBSET Dirs, files : SUBSET (Stores \cup Configs),
            rows : [Stores -> SUBSET Aliases], complete : SUBSET Aliases, config : Config]

CopyNames == {"server.json", "server.db"}  \* what a backup has copies of

ASSUME InstallsAssumption ==
  \A i \in Installs : i \in Install /\ \A f \in i.files : f[1] \in i.dirs
ASSUME MaxFaultsAssumption == MaxFaults \in Nat

VARIABLES
  dirs, files,   \* the directories and files that exist
  garbled,       \* the files that were cut
  rows,          \* the aliases a store holds
  config,        \* the contents of each config.json
  copies,        \* the aliases in the backup made last
  older,         \* the aliases in backups of earlier seconds
  at,            \* where the start is; "off" when hp is not running
  conf,          \* its Config
  uncopied,      \* files of ~/.psm still to copy
  collection,    \* aliases read for the migration
  faults,
  install,       \* history: what the user had
  known,         \* history: the aliases a command should find
  mishaps        \* history: whether a migration failed to save, whether the path was changed

backups == <<copies, older>>
disk == <<dirs, files, garbled, rows, config, backups>>
process == <<at, conf, uncopied, collection>>
history == <<install, known, mishaps>>
vars == <<disk, process, faults, history>>

Readable(f) == f \in files /\ f \notin garbled
Fault == faults < MaxFaults /\ faults' = faults + 1
Goto(next) == at' = next

(* What can be migrated from a store: an entry of server.json without a user *)
(* name, an address or a port that is a number is skipped; without "hosts"   *)
(* there is none.                                                            *)
Whole(f) == IF f[2] = "server.json" THEN rows[f] \cap install.complete ELSE rows[f]
-----------------------------------------------------------------------------
Init ==
  /\ install \in Installs
  /\ dirs = install.dirs /\ files = install.files /\ rows = install.rows
  /\ config = [f \in Configs |-> install.config]
  /\ garbled = {} /\ copies = [n \in CopyNames |-> {}] /\ older = {}
  /\ at = "off" /\ conf = DefaultConfig /\ uncopied = {} /\ collection = {}
  /\ faults = 0 /\ mishaps = {}
  /\ known = UNION {Whole(f) : f \in files \cap Stores}

Start ==
  /\ at = "off"
  /\ at' = IF "psm" \in dirs /\ "home" \notin dirs THEN "migrate_dir" ELSE "init"
  /\ UNCHANGED <<disk, conf, uncopied, collection, faults, history>>

(* ensure_hostpilot_dir: ~/.psm is renamed; paths inside config.json stay.   *)
Moved(f) == IF f[1] = "psm" THEN <<"home", f[2]>> ELSE f
InPsm(f) == <<"psm", f[2]>>
RenameLegacy ==
  /\ at = "migrate_dir"
  /\ dirs' = (dirs \ {"psm"}) \cup {"home"}
  /\ files' = {Moved(f) : f \in files}
  /\ garbled' = {Moved(f) : f \in garbled}
  /\ rows' = [f \in Stores |-> IF f[1] = "home" THEN rows[InPsm(f)] ELSE rows[f]]
  /\ config' = [f \in Configs |-> config[<<"psm", "config.json">>]]
  /\ Goto("init")
  /\ UNCHANGED <<backups, conf, uncopied, collection, faults, history>>

(* rename is refused: copy_recursively, file by file, in any order.          *)
RenameRefused ==
  /\ at = "migrate_dir"
  /\ dirs' = dirs \cup {"home"}
  /\ uncopied' = {f \in files : f[1] = "psm"}
  /\ Goto("copying")
  /\ UNCHANGED <<files, garbled, rows, config, backups, conf, collection, faults, history>>

CopyFile ==
  /\ at = "copying"
  /\ \E f \in uncopied :
       /\ files' = files \cup {Moved(f)}
       /\ garbled' = IF f \in garbled THEN garbled \cup {Moved(f)} ELSE garbled
       /\ IF f \in Stores
          THEN rows' = [rows EXCEPT ![Moved(f)] = rows[f]] /\ UNCHANGED config
          ELSE config' = [config EXCEPT ![Moved(f)] = config[f]] /\ UNCHANGED rows
       /\ uncopied' = uncopied \ {f}
  /\ UNCHANGED <<dirs, backups, at, conf, collection, faults, history>>

(* A copy is cut by an error, which ends the process, or by a kill.          *)
CopyCut ==
  /\ at = "copying"
  /\ Fault
  /\ \E f \in uncopied :
       files' = files \cup {Moved(f)} /\ garbled' = garbled \cup {Moved(f)}
  /\ Goto("off")
  /\ uncopied' = {}
  /\ UNCHANGED <<dirs, rows, config, backups, conf, collection, history>>

RemoveLegacy ==
  /\ at = "copying"
  /\ uncopied = {}
  /\ dirs' = dirs \ {"psm"}
  /\ files' = {f \in files : f[1] # "psm"}
  /\ garbled' = {f \in garbled : f[1] # "psm"}
  /\ Goto("init")
  /\ UNCHANGED <<rows, config, backups, conf, uncopied, collection, faults, history>>

RemoveCut ==
  /\ at = "copying"
  /\ uncopied = {}
  /\ Fault
  /\ \E gone \in SUBSET {f \in files : f[1] = "psm"} :
       files' = files \ gone /\ garbled' = garbled \ gone
  /\ Goto("off")
  /\ UNCHANGED <<dirs, rows, config, backups, conf, uncopied, collection, history>>

(* StorageObject::read_from: a Config, or the default one without a word.    *)
read_from == IF Readable(HomeConfig) /\ config[HomeConfig].fits = "yes"
             THEN config[HomeConfig] ELSE DefaultConfig

ConfigInit ==
  /\ at = "init"
  /\ dirs' = dirs \cup {"home"}
  /\ conf' = read_from
  /\ Goto("check")
  /\ UNCHANGED <<files, garbled, rows, config, backups, uncopied, collection, faults, history>>

(* Where server.db belongs: next to server_file_path, if the JSON has one.   *)
HasPath == config[HomeConfig].key = "server_file_path" /\ config[HomeConfig].path # NoPath
JsonPath == config[HomeConfig].path
db_path == IF HasPath THEN <<JsonPath[1], "server.db">> ELSE <<"home", "server.db">>

(* config.json is read again as JSON and must be there and whole.            *)
ConfigUnreadable ==
  /\ at = "check"
  /\ ~Readable(HomeConfig)
  /\ Goto("off")
  /\ UNCHANGED <<disk, conf, uncopied, collection, faults, history>>

NeedsUpgrade ==
  \/ db_path \in files /\ conf.version = 0
  \/ config[HomeConfig].version < CurrentVersion

(* check_and_upgrade_if_needed; upgrade_config_and_data returns at once when *)
(* the version in config.json is current.                                    *)
Check ==
  /\ at = "check"
  /\ Readable(HomeConfig)
  /\ at' = IF NeedsUpgrade /\ config[HomeConfig].version < CurrentVersion
           THEN "backup" ELSE "ready"
  /\ UNCHANGED <<disk, conf, uncopied, collection, faults, history>>

(* backup_existing_files_with_paths: the files of the set copied get a copy  *)
(* named by the present second, those of the set cut are cut in it.          *)
Original(n) == IF n = "server.db" THEN db_path ELSE JsonPath
ToCopy == {n \in CopyNames : Original(n) \in files /\ (n = "server.json" => HasPath)}
CopyAside(copied, cut) ==
  \E second \in {"same", "new"} :
    /\ older' = IF second = "same" THEN older ELSE older \cup UNION {copies[n] : n \in CopyNames}
    /\ copies' = [n \in CopyNames |->
         IF n \in cut THEN {}
         ELSE IF n \in copied THEN (IF Readable(Original(n)) THEN rows[Original(n)] ELSE {})
         ELSE IF second = "same" THEN copies[n] ELSE {}]

(* Only config.json and server.json are copied aside. *)
BackupJsonOnly ==
  /\ at = "backup"
  /\ CopyAside(ToCopy \ {"server.db"}, {})
  /\ Goto("migrate")
  /\ UNCHANGED <<dirs, files, garbled, rows, config, conf, uncopied, collection, faults, history>>

Backup ==
  /\ at = "backup"
  /\ CopyAside(ToCopy, {})
  /\ Goto("migrate")
  /\ UNCHANGED <<dirs, files, garbled, rows, config, conf, uncopied, collection, faults, history>>

(* server.json is copied before server.db; an error or a kill ends it. *)
BackupCut ==
  /\ at = "backup"
  /\ Fault
  /\ \E n \in ToCopy : \E cut \in SUBSET {n} :
       CopyAside(IF n = "server.db" THEN ToCopy \ {n} ELSE {}, cut)
  /\ Goto("off")
  /\ UNCHANGED <<dirs, files, garbled, rows, config, conf, uncopied, collection, history>>

(* server.json is read if it is where config.json says; a path that is not   *)
(* there, or no path, is an empty collection.                                *)
Migrate ==
  /\ at = "migrate"
  /\ IF HasPath /\ JsonPath \in files
     THEN /\ JsonPath[2] = "server.json" /\ JsonPath \notin garbled
          /\ collection' = Whole(JsonPath)
     ELSE collection' = {}
  /\ Goto("create")
  /\ UNCHANGED <<disk, conf, uncopied, faults, history>>

MigrateFails ==
  /\ at = "migrate"
  /\ HasPath /\ JsonPath \in files
  /\ JsonPath[2] = "server.db" \/ JsonPath \in garbled
  /\ Goto("off")
  /\ UNCHANGED <<disk, conf, uncopied, collection, faults, history>>

(* The database is taken to be created even where there is no directory. *)
CreateAnywhere ==
  /\ at = "create"
  /\ files' = files \cup {db_path}
  /\ rows' = IF db_path \in files THEN rows ELSE [rows EXCEPT ![db_path] = {}]
  /\ Goto("save")
  /\ UNCHANGED <<dirs, garbled, config, backups, conf, uncopied, collection, faults, history>>

(* config.json is written before the aliases are saved. *)
ConfigFirst ==
  /\ at = "create"
  /\ db_path[1] \in dirs /\ db_path \notin garbled
  /\ files' = files \cup {db_path}
  /\ rows' = IF db_path \in files THEN rows ELSE [rows EXCEPT ![db_path] = {}]
  /\ config' = IF config[HomeConfig].fits = "no" THEN config ELSE [config EXCEPT ![HomeConfig] =
       [version |-> CurrentVersion, key |-> "server_file_path", path |-> db_path, fits |-> "yes"]]
  /\ Goto("save")
  /\ UNCHANGED <<dirs, garbled, backups, conf, uncopied, collection, faults, history>>

(* create_sqlite_database: the directory must exist, the file be a database. *)
CreateDb ==
  /\ at = "create"
  /\ db_path[1] \in dirs /\ db_path \notin garbled
  /\ files' = files \cup {db_path}
  /\ rows' = IF db_path \in files THEN rows ELSE [rows EXCEPT ![db_path] = {}]
  /\ Goto("save")
  /\ UNCHANGED <<dirs, garbled, config, backups, conf, uncopied, collection, faults, history>>

CreateFails ==
  /\ at = "create"
  /\ db_path[1] \notin dirs \/ db_path \in garbled
  /\ Goto("off")
  /\ UNCHANGED <<disk, conf, uncopied, collection, faults, history>>

SaveMigrated ==
  /\ at = "save"
  /\ rows' = [rows EXCEPT ![db_path] = collection]
  /\ Goto("write")
  /\ UNCHANGED <<dirs, files, garbled, config, backups, conf, uncopied, collection, faults, history>>

(* A statement of save_to_storage fails, or the process is killed within it: *)
(* some rows are in. An error is printed and the upgrade goes on.            *)
SaveCut ==
  /\ at = "save"
  /\ Fault
  /\ \E some \in (SUBSET collection) \cup {rows[db_path]} : rows' = [rows EXCEPT ![db_path] = some]
  /\ \/ Goto("write") /\ mishaps' = mishaps \cup {"save"}
     \/ Goto("off") /\ UNCHANGED mishaps
  /\ UNCHANGED <<dirs, files, garbled, config, backups, conf, uncopied, collection, install, known>>

(* The new path is the default one, wherever the database was made. *)
WriteDefaultPath ==
  /\ at = "write"
  /\ config[HomeConfig].fits = "yes"
  /\ config' = [config EXCEPT ![HomeConfig] =
       [version |-> CurrentVersion, key |-> "server_file_path",
        path |-> <<"home", "server.db">>, fits |-> "yes"]]
  /\ Goto("init")
  /\ UNCHANGED <<dirs, files, garbled, rows, backups, conf, uncopied, collection, faults, history>>

(* config.json is written only when it also parses as a Config; the struct   *)
(* takes its path from either key.                                           *)
WriteConfig ==
  /\ at = "write"
  /\ config[HomeConfig].fits = "yes"
  /\ config' = [config EXCEPT ![HomeConfig] =
       [version |-> CurrentVersion, key |-> "server_file_path", path |-> db_path, fits |-> "yes"]]
  /\ Goto("init")
  /\ UNCHANGED <<dirs, files, garbled, rows, backups, conf, uncopied, collection, faults, history>>

WriteRefused ==
  /\ at = "write"
  /\ config[HomeConfig].fits = "no"
  /\ Goto("off")
  /\ UNCHANGED <<disk, conf, uncopied, collection, faults, history>>

(* fs::write truncates config.json and then fails or is killed. *)
WriteCut ==
  /\ at = "write"
  /\ config[HomeConfig].fits = "yes"
  /\ Fault
  /\ garbled' = garbled \cup {HomeConfig}
  /\ Goto("off")
  /\ UNCHANGED <<dirs, files, rows, config, backups, conf, uncopied, collection, history>>

(* A command reads the aliases in conf.server_file_path, adds, removes or    *)
(* renames one (or notes a login), deletes all rows and inserts each anew.   *)
Held == IF conf.path \in files THEN rows[conf.path] ELSE {}
Changes == {(Held \ gone) \cup new : gone, new \in {{}} \cup {{a} : a \in Aliases}}
SaveAliases(stored) ==
  /\ at = "ready"
  /\ conf.path \in Stores
  /\ conf.path[1] \in dirs /\ conf.path[2] = "server.db" /\ conf.path \notin garbled
  /\ files' = files \cup {conf.path}
  /\ rows' = [rows EXCEPT ![conf.path] = stored]
  /\ known' = (known \ Held) \cup stored
  /\ Goto("off")
  /\ UNCHANGED <<dirs, garbled, config, backups, conf, uncopied, collection, install, mishaps>>

UseAliases == \E stored \in Changes : SaveAliases(stored) /\ UNCHANGED faults

(* Each statement commits on its own: a failing one, or a kill, leaves the   *)
(* rows inserted so far, and the user with those.                            *)
UseCut == Fault /\ \E all \in Changes : \E stored \in SUBSET all : SaveAliases(stored)

(* With an empty path SQLite opens a database that is gone when it is        *)
(* closed: the command says it stored the alias.                             *)
UseTemporary ==
  /\ at = "ready"
  /\ conf.path = NoPath
  /\ \E a \in Aliases : known' = known \cup {a}
  /\ Goto("off")
  /\ UNCHANGED <<disk, conf, uncopied, collection, faults, install, mishaps>>

(* hp set: the configuration in hand is written back, with another path or not. *)
HandleSet ==
  /\ at = "ready"
  /\ \E p \in {conf.path, <<"other", "server.db">>} :
       /\ config' = [config EXCEPT ![HomeConfig] =
                      [conf EXCEPT !.path = p, !.key = "server_file_path"]]
       /\ mishaps' = IF p = conf.path THEN mishaps ELSE mishaps \cup {"set"}
  /\ files' = files \cup {HomeConfig}
  /\ garbled' = garbled \ {HomeConfig}
  /\ Goto("off")
  /\ UNCHANGED <<dirs, rows, backups, conf, uncopied, collection, faults, install, known>>

SetCut ==
  /\ at = "ready"
  /\ Fault
  /\ files' = files \cup {HomeConfig}
  /\ garbled' = garbled \cup {HomeConfig}
  /\ Goto("off")
  /\ UNCHANGED <<dirs, rows, config, backups, conf, uncopied, collection, history>>

(* The command ends without a change. *)
Leave ==
  /\ at = "ready"
  /\ Goto("off")
  /\ UNCHANGED <<disk, conf, uncopied, collection, faults, history>>

(* The process is killed, or an error ends it, where nothing is half written. *)
Kill ==
  /\ at # "off"
  /\ Fault
  /\ Goto("off")
  /\ uncopied' = {}
  /\ UNCHANGED <<disk, conf, collection, history>>

Next ==
  \/ Start \/ RenameLegacy \/ RenameRefused \/ CopyFile \/ CopyCut \/ RemoveLegacy \/ RemoveCut
  \/ ConfigInit \/ ConfigUnreadable \/ Check
  \/ Backup \/ BackupCut \/ Migrate \/ MigrateFails \/ CreateDb \/ CreateFails
  \/ SaveMigrated \/ SaveCut \/ WriteConfig \/ WriteRefused \/ WriteCut
  \/ UseAliases \/ UseCut \/ UseTemporary \/ HandleSet \/ SetCut \/ Leave \/ Kill

Spec == Init /\ [][Next]_vars
-----------------------------------------------------------------------------
(* The state is well formed, and every file is in a directory that exists.   *)
TypeOK ==
  /\ dirs \subseteq Dirs
  /\ files \subseteq Stores \cup Configs /\ garbled \subseteq files
  /\ rows \in [Stores -> SUBSET Aliases]
  /\ config \in [Configs -> Config]
  /\ copies \in [CopyNames -> SUBSET Aliases] /\ older \subseteq Aliases
  /\ at \in {"off", "migrate_dir", "copying", "init", "check", "backup", "migrate",
             "create", "save", "write", "ready"}
  /\ conf \in Config
  /\ uncopied \subseteq files
  /\ collection \subseteq Aliases
  /\ faults \in 0..MaxFaults
  /\ install \in Installs /\ known \subseteq Aliases /\ mishaps \subseteq {"save", "set"}
  /\ \A f \in files : f[1] \in dirs

(* However often hp is started, killed and reconfigured, and whatever fails, *)
(* no step of a start, up to its command, takes the last readable copy of an *)
(* alias: it stays in the old directory, server.json, a database or a        *)
(* backup. A backup made in the same second as the one before may overwrite  *)
(* that one; what a command's own save takes is not the start's doing.       *)
Somewhere(a) ==
  \/ a \in older \/ \E n \in CopyNames : a \in copies[n]
  \/ \E f \in Stores : Readable(f) /\ a \in rows[f]
SameSecond == at = "backup" /\ older' = older
NothingDestroyed ==
  [][(at # "ready" /\ ~SameSecond) => \A a \in Aliases : Somewhere(a) => Somewhere(a)']_vars

(* From a configuration of the documented form (a server_file_path in a      *)
(* directory that stays where it is, and no server.db before the first       *)
(* upgrade) every start that gets to its command shows it all the aliases    *)
(* with a complete entry, and all that the saves of commands, cut ones       *)
(* included, have left since; kills at any point of it included. Unless the  *)
(* upgrade went on after a failed save, or `hp set` chose another store.     *)
Regular ==
  /\ "psm" \notin install.dirs
  /\ install.config.key = "server_file_path" /\ install.config.fits = "yes"
  /\ install.config.path \in install.files
  /\ install.config.path[2] = (IF install.config.version = CurrentVersion
                               THEN "server.db" ELSE "server.json")
  /\ Cardinality(install.files \cap Stores) = 1
Visible == IF conf.path \in Stores /\ Readable(conf.path) THEN rows[conf.path] ELSE {}
RegularKept == (Regular /\ mishaps = {} /\ at = "ready") => known \subseteq Visible

(* Once config.json carries the current version, no start, up to its         *)
(* command, takes an alias out of a store that exists.                       *)
UpgradedOnce ==
  [][(at # "ready" /\ Readable(HomeConfig) /\ config[HomeConfig].version = CurrentVersion) =>
       \A f \in files \cap files' \cap Stores : rows[f] \subseteq rows'[f]]_vars

(* What the change log says of the upgrade: with nothing failing, a start    *)
(* that gets to its command has the aliases of the old server.json or        *)
(* server.db in the database config.json now names.                          *)
UpgradeKeepsServers == (faults = 0 /\ mishaps = {} /\ at = "ready") => known \subseteq Visible
=============================================================================
