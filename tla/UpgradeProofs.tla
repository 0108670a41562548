---------------------------- MODULE UpgradeProofs ----------------------------
(***************************************************************************)
(* Theorems about Upgrade for every set of aliases, every installation of  *)
(* the type Install and any number of faults.                              *)
(***************************************************************************)
EXTENDS Upgrade, FiniteSetTheorems, TLAPS

USE DEF Fault, Goto, disk, backups, process, history

Files == Stores \cup Configs
Upgrading == {"backup", "migrate", "create", "save", "write"}

-----------------------------------------------------------------------------
\* Files, the two directories of hp, and configurations.

LEMMA FileParts ==
  ASSUME NEW f \in Files
  PROVE  /\ f = <<f[1], f[2]>> /\ f[1] \in Dirs
         /\ f \in Stores <=> f[2] \in {"server.json", "server.db"}
         /\ f \in Configs <=> f[2] = "config.json"
         /\ f # NoPath
BY DEF Files, Stores, Configs, Dirs, NoPath

LEMMA StoreOf ==
  ASSUME NEW d \in Dirs, NEW n \in {"server.json", "server.db"}
  PROVE  <<d, n>> \in Stores
BY DEF Stores

LEMMA HomeConfigParts ==
  /\ HomeConfig \in Configs /\ HomeConfig \in Files /\ HomeConfig \notin Stores
  /\ HomeConfig[1] = "home" /\ HomeConfig[2] = "config.json"
BY DEF HomeConfig, Configs, Stores, Files, Dirs

\* The way from ~/.psm to ~/.hostpilot and back.
LEMMA MovedParts ==
  ASSUME NEW f \in Files
  PROVE  /\ Moved(f) \in Files
         /\ Moved(f) \in Stores <=> f \in Stores
         /\ Moved(f)[1] # "psm"
         /\ f[1] # "psm" => Moved(f) = f
         /\ f[1] = "psm" => Moved(f)[1] = "home" /\ InPsm(Moved(f)) = f
BY DEF Moved, InPsm, Files, Stores, Configs, Dirs

LEMMA InPsmParts ==
  ASSUME NEW g \in Files, g[1] = "home"
  PROVE  /\ InPsm(g) \in Files /\ InPsm(g)[1] = "psm"
         /\ Moved(InPsm(g)) = g
         /\ InPsm(g) \in Stores <=> g \in Stores
BY DEF Moved, InPsm, Files, Stores, Configs, Dirs

LEMMA ConfigParts ==
  ASSUME NEW c \in Config
  PROVE  /\ c.version \in 0..CurrentVersion
         /\ c.key \in {"server_file_path", "server_db_path"}
         /\ c.path \in Stores \cup {NoPath}
         /\ c.fits \in {"yes", "no"}
BY DEF Config

LEMMA MakeConfig ==
  ASSUME NEW v \in 0..CurrentVersion, NEW k \in {"server_file_path", "server_db_path"},
         NEW p \in Stores \cup {NoPath}, NEW y \in {"yes", "no"}
  PROVE  [version |-> v, key |-> k, path |-> p, fits |-> y] \in Config
BY DEF Config

LEMMA DefaultIsConfig == DefaultConfig \in Config
BY DEF DefaultConfig, Config, CurrentVersion

LEMMA InstallParts ==
  ASSUME NEW i \in Installs
  PROVE  /\ i.dirs \subseteq Dirs /\ i.files \subseteq Files
         /\ i.rows \in [Stores -> SUBSET Aliases] /\ i.config \in Config
         /\ \A f \in i.files : f[1] \in i.dirs
BY InstallsAssumption DEF Install, Files

\* server.db has a place whatever config.json says.
LEMMA DbPathType ==
  ASSUME TypeOK
  PROVE  /\ db_path \in Stores /\ db_path[2] = "server.db"
         /\ db_path # HomeConfig
         /\ HasPath => JsonPath \in Stores /\ db_path = <<JsonPath[1], "server.db">>
<1>1. config[HomeConfig] \in Config
  BY HomeConfigParts DEF TypeOK
<1>2. config[HomeConfig].path \in Stores \cup {NoPath}
  BY <1>1, ConfigParts
<1>3. HasPath => JsonPath \in Stores /\ JsonPath[1] \in Dirs
  BY <1>2, FileParts DEF HasPath, JsonPath, Files
<1>4. "home" \in Dirs
  BY DEF Dirs
<1>5. db_path \in Stores /\ db_path[2] = "server.db"
  <2>1. CASE HasPath
    BY <2>1, <1>3, StoreOf DEF db_path
  <2>2. CASE ~HasPath
    BY <2>2, <1>4, StoreOf DEF db_path
  <2>. QED  BY <2>1, <2>2
<1>. QED  BY <1>3, <1>5, HomeConfigParts DEF db_path
\* What a backup copies, and what it does to the copies of before.
LEMMA CopyParts ==
  ASSUME TypeOK, NEW copied \in SUBSET ToCopy, NEW cut, CopyAside(copied, cut)
  PROVE  /\ copies' \in [CopyNames -> SUBSET Aliases] /\ older' \subseteq Aliases
         /\ older \subseteq older'
         /\ older' = older \/ \A n \in CopyNames : copies[n] \subseteq older'
         /\ "server.db" \in copied /\ "server.db" \notin cut /\ Readable(db_path) =>
              copies'["server.db"] = rows[db_path]
<1>1. PICK second \in {"same", "new"} :
        /\ older' = IF second = "same" THEN older
                    ELSE older \cup UNION {copies[n] : n \in CopyNames}
        /\ copies' = [n \in CopyNames |->
             IF n \in cut THEN {}
             ELSE IF n \in copied THEN (IF Readable(Original(n)) THEN rows[Original(n)] ELSE {})
             ELSE IF second = "same" THEN copies[n] ELSE {}]
  BY DEF CopyAside
<1>2. /\ copies \in [CopyNames -> SUBSET Aliases] /\ older \subseteq Aliases
      /\ rows \in [Stores -> SUBSET Aliases]
  BY DEF TypeOK
<1>3. \A n \in copied : Original(n) \in Stores
  BY DbPathType DEF ToCopy, Original, CopyNames
<1>4. copies' \in [CopyNames -> SUBSET Aliases]
  BY <1>1, <1>2, <1>3
<1>5. older' \subseteq Aliases
  BY <1>1, <1>2
<1>6. "server.db" \in CopyNames /\ Original("server.db") = db_path
  BY DEF CopyNames, Original
<1>7. "server.db" \in copied /\ "server.db" \notin cut /\ Readable(db_path) =>
        copies'["server.db"] = rows[db_path]
  BY <1>1, <1>6
<1>. QED  BY <1>1, <1>4, <1>5, <1>7

\* What a command writes are aliases, whether its save is cut or not.
LEMMA UseParts ==
  ASSUME TypeOK, UseAliases \/ UseCut
  PROVE  /\ faults' \in 0..MaxFaults
         /\ \E stored \in SUBSET Aliases : SaveAliases(stored)
<1>1. faults' \in 0..MaxFaults
  BY MaxFaultsAssumption DEF UseAliases, UseCut, TypeOK
<1>2. PICK all \in Changes : \E stored \in SUBSET all : SaveAliases(stored)
  BY DEF UseAliases, UseCut
<1>3. PICK stored \in SUBSET all : SaveAliases(stored)
  BY <1>2
<1>4. conf.path \in Stores
  BY <1>3 DEF SaveAliases
<1>5. Held \subseteq Aliases
  BY <1>4 DEF Held, TypeOK
<1>6. all \subseteq Aliases
  BY <1>2, <1>5 DEF Changes
<1>. QED  BY <1>1, <1>3, <1>6
-----------------------------------------------------------------------------
(***************************************************************************)
(* The inductive invariant. Moving: while ~/.psm is copied, what has been  *)
(* copied is a twin of the original that is still there. Checked: where    *)
(* the upgrade is, config.json was read and is old, and before a database  *)
(* is overwritten its aliases are in a backup.                             *)
(***************************************************************************)

Twin(g) ==
  /\ InPsm(g) \in files \ uncopied
  /\ g \in garbled <=> InPsm(g) \in garbled
  /\ g \in Stores => rows[g] = rows[InPsm(g)]

Moving ==
  /\ at # "copying" => uncopied = {}
  /\ at = "migrate_dir" => "psm" \in dirs /\ "home" \notin dirs
  /\ at = "copying" =>
       /\ "psm" \in dirs /\ "home" \in dirs
       /\ \A f \in uncopied : f[1] = "psm"
       /\ \A f \in files : f[1] = "psm" /\ f \notin uncopied => Moved(f) \in files
       /\ \A g \in files : g[1] = "home" => Twin(g)

Checked ==
  /\ at \in Upgrading \cup {"check", "ready"} => "home" \in dirs
  /\ at \in Upgrading => Readable(HomeConfig) /\ config[HomeConfig].version < CurrentVersion
  /\ at \in {"migrate", "create"} /\ Readable(db_path) => rows[db_path] \subseteq copies["server.db"]
  /\ at = "save" => Readable(db_path) /\ rows[db_path] \subseteq copies["server.db"]

Sound == TypeOK /\ Moving /\ Checked

\* The steps of a start that touch neither the disk nor the history.
LEMMA QuietSteps ==
  ASSUME Sound,
         \/ Start \/ ConfigUnreadable \/ Check \/ Migrate \/ MigrateFails \/ CreateFails
         \/ WriteRefused \/ Leave \/ Kill
  PROVE  /\ UNCHANGED <<disk, history, conf>>
         /\ at' # "copying" /\ uncopied' = {}
BY DEF Sound, Moving, Start, ConfigUnreadable, Check, Migrate, MigrateFails, CreateFails,
       WriteRefused, Leave, Kill

\* The migration of a directory and its two ways to fail.
LEMMA MoveType ==
  ASSUME Sound,
         RenameLegacy \/ RenameRefused \/ CopyFile \/ CopyCut \/ RemoveLegacy \/ RemoveCut
  PROVE  TypeOK'
<1>0. TypeOK /\ files \subseteq Files /\ {"psm", "home"} \subseteq Dirs
  BY DEF Sound, TypeOK, Files, Dirs
<1>1. CASE RenameLegacy
  <2>1. at = "migrate_dir" /\ uncopied = {} /\ "psm" \in dirs
    BY <1>1 DEF Sound, Moving, RenameLegacy
  <2>2. files' \subseteq Stores \cup Configs /\ garbled' \subseteq files'
    BY <1>0, <1>1, MovedParts DEF RenameLegacy, TypeOK, Files
  <2>3. \A f \in files' : f[1] \in dirs'
    <3>. SUFFICES ASSUME NEW f \in files PROVE Moved(f)[1] \in dirs'
      BY <1>1 DEF RenameLegacy
    <3>1. f \in Files /\ f[1] \in dirs
      BY <1>0 DEF TypeOK
    <3>2. CASE f[1] = "psm"
      BY <1>1, <3>1, <3>2, MovedParts DEF RenameLegacy
    <3>3. CASE f[1] # "psm"
      BY <1>1, <3>1, <3>3, MovedParts DEF RenameLegacy
    <3>. QED  BY <3>2, <3>3
  <2>4. rows' \in [Stores -> SUBSET Aliases]
    <3>. SUFFICES ASSUME NEW f \in Stores
                  PROVE  (IF f[1] = "home" THEN rows[InPsm(f)] ELSE rows[f]) \in SUBSET Aliases
      BY <1>1 DEF RenameLegacy
    <3>. QED  BY <1>0, InPsmParts DEF TypeOK, Files
  <2>5. config' \in [Configs -> Config]
    <3>1. <<"psm", "config.json">> \in Configs
      BY DEF Configs
    <3>. QED  BY <1>0, <1>1, <3>1 DEF RenameLegacy, TypeOK
  <2>6. dirs' \subseteq Dirs /\ at' = "init" /\ uncopied' = {}
    BY <1>0, <1>1, <2>1 DEF RenameLegacy, TypeOK
  <2>. QED  BY <1>0, <1>1, <2>2, <2>3, <2>4, <2>5, <2>6 DEF RenameLegacy, TypeOK
<1>2. CASE RenameRefused
  BY <1>0, <1>2 DEF RenameRefused, TypeOK
<1>3. CASE CopyFile
  <2>1. PICK f \in uncopied :
          /\ files' = files \cup {Moved(f)}
          /\ garbled' = IF f \in garbled THEN garbled \cup {Moved(f)} ELSE garbled
          /\ IF f \in Stores
             THEN rows' = [rows EXCEPT ![Moved(f)] = rows[f]] /\ UNCHANGED config
             ELSE config' = [config EXCEPT ![Moved(f)] = config[f]] /\ UNCHANGED rows
          /\ uncopied' = uncopied \ {f}
    BY <1>3 DEF CopyFile
  <2>2. f \in Files /\ f[1] = "psm" /\ "home" \in dirs
    BY <1>0, <1>3 DEF Sound, Moving, CopyFile, TypeOK
  <2>3. Moved(f) \in Files /\ Moved(f)[1] = "home"
    BY <2>2, MovedParts
  <2>4. rows' \in [Stores -> SUBSET Aliases] /\ config' \in [Configs -> Config]
    <3>1. CASE f \in Stores
      BY <1>0, <2>1, <3>1 DEF TypeOK
    <3>2. CASE f \notin Stores
      <4>1. f \in Configs
        BY <2>2, <3>2 DEF Files
      <4>. QED  BY <1>0, <2>1, <3>2, <4>1 DEF TypeOK
    <3>. QED  BY <3>1, <3>2
  <2>5. files' \subseteq Stores \cup Configs /\ garbled' \subseteq files' /\ uncopied' \subseteq files'
    BY <1>0, <2>1, <2>3 DEF TypeOK, Files
  <2>6. \A g \in files' : g[1] \in dirs'
    BY <1>0, <1>3, <2>1, <2>2, <2>3 DEF TypeOK, CopyFile
  <2>. QED  BY <1>0, <1>3, <2>4, <2>5, <2>6 DEF TypeOK, CopyFile
<1>4. CASE CopyCut
  <2>1. PICK f \in uncopied : files' = files \cup {Moved(f)} /\ garbled' = garbled \cup {Moved(f)}
    BY <1>4 DEF CopyCut
  <2>2. f \in Files /\ f[1] = "psm" /\ "home" \in dirs
    BY <1>0, <1>4 DEF Sound, Moving, CopyCut, TypeOK
  <2>3. Moved(f) \in Files /\ Moved(f)[1] = "home"
    BY <2>2, MovedParts
  <2>4. files' \subseteq Stores \cup Configs /\ garbled' \subseteq files'
    BY <1>0, <2>1, <2>3 DEF TypeOK, Files
  <2>5. \A g \in files' : g[1] \in dirs'
    BY <1>0, <1>4, <2>1, <2>2, <2>3 DEF TypeOK, CopyCut
  <2>6. faults' \in 0..MaxFaults
    BY <1>0, <1>4, MaxFaultsAssumption DEF TypeOK, CopyCut
  <2>. QED  BY <1>0, <1>4, <2>4, <2>5, <2>6 DEF TypeOK, CopyCut
<1>5. CASE RemoveLegacy
  BY <1>0, <1>5 DEF RemoveLegacy, TypeOK
<1>6. CASE RemoveCut
  <2>1. faults' \in 0..MaxFaults
    BY <1>0, <1>6, MaxFaultsAssumption DEF TypeOK, RemoveCut
  <2>. QED  BY <1>0, <1>6, <2>1 DEF RemoveCut, TypeOK
<1>. QED  BY <1>1, <1>2, <1>3, <1>4, <1>5, <1>6

\* The twins stay twins while files are copied.
LEMMA MoveMoving ==
  ASSUME Sound,
         RenameLegacy \/ RenameRefused \/ CopyFile \/ CopyCut \/ RemoveLegacy \/ RemoveCut
  PROVE  Moving' /\ Checked'
<1>0. files \subseteq Files /\ garbled \subseteq files /\ TypeOK /\ Moving
  BY DEF Sound, TypeOK, Files
<1>1. CASE RenameLegacy \/ CopyCut \/ RemoveLegacy \/ RemoveCut
  <2>1. at' \in {"init", "off"} /\ uncopied' = {}
    BY <1>0, <1>1 DEF RenameLegacy, CopyCut, RemoveLegacy, RemoveCut, Moving
  <2>. QED  BY <2>1 DEF Moving, Checked, Upgrading
<1>2. CASE RenameRefused
  <2>1. "psm" \in dirs /\ \A g \in files : g[1] # "home"
    BY <1>0, <1>2 DEF RenameRefused, Moving, TypeOK
  <2>2. /\ at' = "copying" /\ files' = files /\ "psm" \in dirs' /\ "home" \in dirs'
        /\ uncopied' = {f \in files : f[1] = "psm"}
    BY <1>2, <2>1 DEF RenameRefused
  <2>. QED  BY <2>1, <2>2 DEF Moving, Checked, Upgrading
<1>3. CASE CopyFile
  <2>1. PICK f \in uncopied :
          /\ files' = files \cup {Moved(f)}
          /\ garbled' = IF f \in garbled THEN garbled \cup {Moved(f)} ELSE garbled
          /\ IF f \in Stores
             THEN rows' = [rows EXCEPT ![Moved(f)] = rows[f]] /\ UNCHANGED config
             ELSE config' = [config EXCEPT ![Moved(f)] = config[f]] /\ UNCHANGED rows
          /\ uncopied' = uncopied \ {f}
    BY <1>3 DEF CopyFile
  <2>2. at = "copying" /\ at' = "copying" /\ dirs' = dirs
    BY <1>3 DEF CopyFile
  <2>3. /\ f \in Files /\ f \in files /\ f[1] = "psm"
        /\ "psm" \in dirs /\ "home" \in dirs
        /\ \A e \in uncopied : e[1] = "psm"
        /\ \A e \in files : e[1] = "psm" /\ e \notin uncopied => Moved(e) \in files
        /\ \A g \in files : g[1] = "home" => Twin(g)
    BY <1>0, <2>2 DEF Moving, TypeOK
  <2>4. /\ Moved(f) \in Files /\ Moved(f)[1] = "home" /\ InPsm(Moved(f)) = f
        /\ Moved(f) \in Stores <=> f \in Stores
    BY <2>3, MovedParts
  <2>5. Moved(f) \notin files
    BY <2>1, <2>3, <2>4 DEF Twin
  <2>6. \A e \in files' : e[1] = "psm" /\ e \notin uncopied' => Moved(e) \in files'
    BY <2>1, <2>3, <2>4
  <2>7. ASSUME NEW g \in files', g[1] = "home"
        PROVE  Twin(g)'
    <3>1. CASE g = Moved(f)
      <4>1. InPsm(g) \in files' \ uncopied'
        BY <2>1, <2>3, <2>4, <3>1
      <4>2. g \in garbled' <=> InPsm(g) \in garbled'
        BY <1>0, <2>1, <2>3, <2>4, <2>5, <3>1
      <4>3. g \in Stores => rows'[g] = rows'[InPsm(g)]
        BY <1>0, <2>1, <2>3, <2>4, <3>1 DEF TypeOK
      <4>. QED  BY <4>1, <4>2, <4>3 DEF Twin
    <3>2. CASE g # Moved(f)
      <4>1. g \in files /\ g \in Files /\ Twin(g)
        BY <1>0, <2>1, <2>3, <2>7, <3>2
      <4>2. /\ InPsm(g) \in Files /\ InPsm(g)[1] = "psm" /\ InPsm(g) # Moved(f)
            /\ InPsm(g) \in Stores <=> g \in Stores
        BY <2>4, <2>7, <4>1, InPsmParts
      <4>3. InPsm(g) \in files' \ uncopied' /\ (g \in garbled' <=> InPsm(g) \in garbled')
        BY <2>1, <3>2, <4>1, <4>2 DEF Twin
      <4>4. g \in Stores => rows'[g] = rows[g] /\ rows'[InPsm(g)] = rows[InPsm(g)]
        BY <1>0, <2>1, <3>2, <4>2 DEF TypeOK
      <4>. QED  BY <4>1, <4>3, <4>4 DEF Twin
    <3>. QED  BY <3>1, <3>2
  <2>8. \A e \in uncopied' : e[1] = "psm"
    BY <2>1, <2>3
  <2>. QED  BY <2>2, <2>3, <2>6, <2>7, <2>8 DEF Moving, Checked, Upgrading
<1>. QED  BY <1>1, <1>2, <1>3

LEMMA UpgradeType ==
  ASSUME Sound,
         \/ Start \/ ConfigInit \/ ConfigUnreadable \/ Check \/ Backup \/ BackupCut
         \/ Migrate \/ MigrateFails
         \/ CreateDb \/ CreateFails \/ SaveMigrated \/ SaveCut \/ WriteConfig \/ WriteRefused
         \/ WriteCut \/ UseAliases \/ UseCut \/ UseTemporary \/ HandleSet \/ SetCut
         \/ Leave \/ Kill
  PROVE  TypeOK'
<1>0. /\ TypeOK /\ db_path \in Stores /\ (HasPath => JsonPath \in Stores)
      /\ HomeConfig \in Configs /\ HomeConfig[1] = "home" /\ HomeConfig \notin Stores
      /\ "home" \in Dirs
  BY DbPathType, HomeConfigParts DEF Sound, Dirs
<1>1. CASE Start
  BY <1>0, <1>1 DEF Start, TypeOK
<1>2. CASE ConfigInit
  <2>1. conf' \in Config
    BY <1>0, <1>2, DefaultIsConfig DEF ConfigInit, read_from, TypeOK
  <2>. QED  BY <1>0, <1>2, <2>1 DEF ConfigInit, TypeOK
<1>3. CASE ConfigUnreadable \/ Check \/ MigrateFails \/ CreateFails \/ WriteRefused \/ Leave
  BY <1>0, <1>3 DEF ConfigUnreadable, Check, MigrateFails, CreateFails, WriteRefused, Leave, TypeOK
<1>4. CASE Backup \/ BackupCut
  <2>1. \E copied \in SUBSET ToCopy : \E cut : CopyAside(copied, cut)
    BY <1>4 DEF Backup, BackupCut
  <2>2. copies' \in [CopyNames -> SUBSET Aliases] /\ older' \subseteq Aliases
    BY <1>0, <2>1, CopyParts
  <2>3. faults' \in 0..MaxFaults
    BY <1>0, <1>4, MaxFaultsAssumption DEF TypeOK, Backup, BackupCut
  <2>. QED  BY <1>0, <1>4, <2>2, <2>3 DEF Backup, BackupCut, TypeOK
<1>5. CASE Migrate
  <2>1. collection' \subseteq Aliases
    BY <1>0, <1>5 DEF Migrate, Whole, TypeOK
  <2>. QED  BY <1>0, <1>5, <2>1 DEF Migrate, TypeOK
<1>6. CASE CreateDb
  <2>1. rows' \in [Stores -> SUBSET Aliases]
    BY <1>0, <1>6 DEF CreateDb, TypeOK
  <2>. QED  BY <1>0, <1>6, <2>1 DEF CreateDb, TypeOK
<1>7. CASE SaveMigrated
  <2>1. rows' \in [Stores -> SUBSET Aliases]
    BY <1>0, <1>7 DEF SaveMigrated, TypeOK
  <2>. QED  BY <1>0, <1>7, <2>1 DEF SaveMigrated, TypeOK
<1>8. CASE SaveCut
  <2>1. rows' \in [Stores -> SUBSET Aliases]
    <3>1. PICK some \in (SUBSET collection) \cup {rows[db_path]} :
            rows' = [rows EXCEPT ![db_path] = some]
      BY <1>8 DEF SaveCut
    <3>2. some \subseteq Aliases
      BY <1>0, <3>1 DEF TypeOK
    <3>. QED  BY <1>0, <3>1, <3>2 DEF TypeOK
  <2>2. faults' \in 0..MaxFaults
    BY <1>0, <1>8, MaxFaultsAssumption DEF TypeOK, SaveCut
  <2>3. at' \in {"write", "off"} /\ mishaps' \subseteq {"save", "set"}
    BY <1>0, <1>8 DEF TypeOK, SaveCut
  <2>. QED  BY <1>0, <1>8, <2>1, <2>2, <2>3 DEF SaveCut, TypeOK
<1>9. CASE WriteConfig
  <2>1. config' \in [Configs -> Config]
    <3>1. [version |-> CurrentVersion, key |-> "server_file_path", path |-> db_path,
           fits |-> "yes"] \in Config
      BY <1>0 DEF Config, CurrentVersion
    <3>. QED  BY <1>0, <1>9, <3>1 DEF WriteConfig, TypeOK
  <2>. QED  BY <1>0, <1>9, <2>1 DEF WriteConfig, TypeOK
<1>10. CASE WriteCut
  <2>1. faults' \in 0..MaxFaults /\ garbled' \subseteq files
    BY <1>0, <1>10, MaxFaultsAssumption DEF Sound, Checked, Upgrading, Readable, TypeOK, WriteCut
  <2>. QED  BY <1>0, <1>10, <2>1 DEF WriteCut, TypeOK
<1>11. CASE UseAliases \/ UseCut
  <2>1. PICK stored \in SUBSET Aliases : SaveAliases(stored)
    BY <1>0, <1>11, UseParts
  <2>2. conf.path \in Stores /\ conf.path[1] \in dirs
    BY <2>1 DEF SaveAliases
  <2>3. rows' \in [Stores -> SUBSET Aliases] /\ known' \subseteq Aliases
    BY <1>0, <2>1, <2>2 DEF SaveAliases, TypeOK
  <2>4. files' \subseteq Stores \cup Configs /\ garbled' \subseteq files'
    BY <1>0, <2>1, <2>2 DEF TypeOK, SaveAliases
  <2>5. (\A f \in files' : f[1] \in dirs') /\ uncopied' \subseteq files'
    BY <1>0, <2>1, <2>2 DEF TypeOK, SaveAliases
  <2>6. faults' \in 0..MaxFaults
    BY <1>0, <1>11, UseParts
  <2>. QED  BY <1>0, <2>1, <2>3, <2>4, <2>5, <2>6 DEF SaveAliases, TypeOK
<1>12. CASE HandleSet
  <2>1. PICK p \in {conf.path, <<"other", "server.db">>} :
          /\ config' = [config EXCEPT ![HomeConfig] =
                          [conf EXCEPT !.path = p, !.key = "server_file_path"]]
          /\ mishaps' = IF p = conf.path THEN mishaps ELSE mishaps \cup {"set"}
    BY <1>12 DEF HandleSet
  <2>2. p \in Stores \cup {NoPath}
    BY <1>0, <2>1, ConfigParts, StoreOf DEF TypeOK, Dirs
  <2>3. [conf EXCEPT !.path = p, !.key = "server_file_path"] \in Config
    BY <1>0, <2>2 DEF TypeOK, Config
  <2>4. config' \in [Configs -> Config] /\ mishaps' \subseteq {"save", "set"}
    BY <1>0, <2>1, <2>3 DEF TypeOK
  <2>5. "home" \in dirs
    BY <1>12 DEF HandleSet, Sound, Checked
  <2>6. \A f \in files' : f[1] \in dirs'
    BY <1>0, <1>12, <2>5 DEF HandleSet, TypeOK
  <2>. QED  BY <1>0, <1>12, <2>4, <2>6 DEF HandleSet, TypeOK
<1>13. CASE SetCut
  <2>1. faults' \in 0..MaxFaults /\ "home" \in dirs
    BY <1>0, <1>13, MaxFaultsAssumption DEF Sound, Checked, TypeOK, SetCut
  <2>2. \A f \in files' : f[1] \in dirs'
    BY <1>0, <1>13, <2>1 DEF SetCut, TypeOK
  <2>. QED  BY <1>0, <1>13, <2>1, <2>2 DEF SetCut, TypeOK
<1>14. CASE UseTemporary
  BY <1>0, <1>14 DEF UseTemporary, TypeOK
<1>15. CASE Kill
  <2>1. faults' \in 0..MaxFaults
    BY <1>0, <1>15, MaxFaultsAssumption DEF TypeOK, Kill
  <2>. QED  BY <1>0, <1>15, <2>1 DEF Kill, TypeOK
<1>. QED
  BY <1>1, <1>2, <1>3, <1>4, <1>5, <1>6, <1>7, <1>8, <1>9, <1>10, <1>11, <1>12, <1>13, <1>14, <1>15

\* What a start has read and backed up stands until it uses it.
LEMMA UpgradeChecked ==
  ASSUME Sound,
         \/ Start \/ ConfigInit \/ ConfigUnreadable \/ Check \/ Backup \/ BackupCut
         \/ Migrate \/ MigrateFails
         \/ CreateDb \/ CreateFails \/ SaveMigrated \/ SaveCut \/ WriteConfig \/ WriteRefused
         \/ WriteCut \/ UseAliases \/ UseCut \/ UseTemporary \/ HandleSet \/ SetCut
         \/ Leave \/ Kill
  PROVE  Moving' /\ Checked'
<1>0. /\ TypeOK /\ Moving /\ Checked /\ db_path \in Stores /\ db_path # HomeConfig
      /\ HomeConfig \in Configs /\ HomeConfig \notin Stores
  BY DbPathType, HomeConfigParts DEF Sound
<1>1. Moving'
  <2>1. CASE Start
    BY <1>0, <2>1 DEF Moving, Start
  <2>2. CASE ~Start
    <3>1. at' \notin {"copying", "migrate_dir"} /\ uncopied' = {}
      BY <1>0, <2>2 DEF Moving, ConfigInit, ConfigUnreadable, Check, Backup, BackupCut,
        CopyAside, Migrate,
        MigrateFails, CreateDb, CreateFails, SaveMigrated, SaveCut, WriteConfig, WriteRefused,
        WriteCut, UseAliases, UseCut, UseTemporary, SaveAliases, HandleSet, SetCut, Leave, Kill
    <3>. QED  BY <3>1 DEF Moving
  <2>. QED  BY <2>1, <2>2
<1>. SUFFICES Checked'
  BY <1>1
<1>2. CASE at' \in {"off", "migrate_dir", "init"}
  BY <1>2 DEF Checked, Upgrading
<1>3. CASE at' \notin {"off", "migrate_dir", "init"}
  <2>1. ConfigInit \/ Check \/ Backup \/ Migrate \/ CreateDb \/ SaveMigrated \/ SaveCut
    BY <1>3 DEF Start, ConfigUnreadable, BackupCut, MigrateFails, CreateFails, WriteConfig,
      WriteRefused,
      WriteCut, UseAliases, UseCut, UseTemporary, SaveAliases, HandleSet, SetCut, Leave, Kill
  <2>2. CASE ConfigInit
    BY <2>2 DEF ConfigInit, Checked, Upgrading
  <2>3. CASE Check
    BY <1>0, <2>3 DEF Check, Checked, Upgrading, Readable
  <2>4. CASE Backup
    <3>1. db_path' = db_path /\ Readable(HomeConfig)' = Readable(HomeConfig)
          /\ Readable(db_path)' = Readable(db_path) /\ rows'[db_path'] = rows[db_path]
      BY <2>4 DEF Backup, Readable, db_path, HasPath, JsonPath
    <3>2. at = "backup" /\ at' = "migrate" /\ dirs' = dirs /\ config' = config
      BY <2>4 DEF Backup
    <3>3. Readable(db_path) => "server.db" \in ToCopy
      BY DEF Readable, ToCopy, CopyNames, Original
    <3>4. Readable(db_path) => rows[db_path] \subseteq copies'["server.db"]
      BY <1>0, <2>4, <3>3, CopyParts DEF Backup
    <3>. QED  BY <1>0, <3>1, <3>2, <3>4 DEF Checked, Upgrading
  <2>5. CASE Migrate
    <3>1. db_path' = db_path /\ Readable(HomeConfig)' = Readable(HomeConfig)
          /\ Readable(db_path)' = Readable(db_path) /\ rows'[db_path'] = rows[db_path]
      BY <2>5 DEF Migrate, Readable, db_path, HasPath, JsonPath
    <3>2. at = "migrate" /\ at' = "create" /\ dirs' = dirs /\ config' = config /\ backups' = backups
      BY <2>5 DEF Migrate
    <3>. QED  BY <1>0, <3>1, <3>2 DEF Checked, Upgrading
  <2>6. CASE CreateDb
    <3>1. db_path' = db_path
      BY <2>6 DEF CreateDb, db_path, HasPath, JsonPath
    <3>2. at = "create" /\ at' = "save" /\ dirs' = dirs /\ config' = config /\ backups' = backups
      BY <2>6 DEF CreateDb
    <3>3. Readable(HomeConfig)'
      BY <1>0, <2>6, <3>2 DEF CreateDb, Checked, Upgrading, Readable
    <3>4. db_path \in files' /\ db_path \notin garbled'
      BY <2>6 DEF CreateDb
    <3>5. rows'[db_path] \subseteq copies["server.db"]
      <4>1. CASE db_path \in files
        BY <1>0, <2>6, <3>2, <4>1 DEF CreateDb, Checked, Readable
      <4>2. CASE db_path \notin files
        BY <1>0, <2>6, <4>2 DEF CreateDb, TypeOK
      <4>. QED  BY <4>1, <4>2
    <3>6. Readable(db_path)'
      BY <3>1, <3>4 DEF Readable
    <3>. QED  BY <1>0, <3>1, <3>2, <3>3, <3>5, <3>6 DEF Checked, Upgrading
  <2>7. CASE SaveMigrated \/ SaveCut
    <3>1. /\ at = "save" /\ at' = "write" /\ dirs' = dirs /\ config' = config
          /\ Readable(HomeConfig)' = Readable(HomeConfig)
      BY <1>3, <2>7 DEF SaveMigrated, SaveCut, Readable
    <3>. QED  BY <1>0, <3>1 DEF Checked, Upgrading
  <2>. QED  BY <2>1, <2>2, <2>3, <2>4, <2>5, <2>6, <2>7
<1>. QED  BY <1>2, <1>3

LEMMA SoundInit == Init => Sound
<1>. SUFFICES ASSUME Init PROVE Sound
  OBVIOUS
<1>1. install \in Installs
  BY DEF Init
<1>2. /\ install.dirs \subseteq Dirs /\ install.files \subseteq Stores \cup Configs
      /\ install.rows \in [Stores -> SUBSET Aliases] /\ install.config \in Config
      /\ \A f \in install.files : f[1] \in install.dirs
  BY <1>1, InstallParts DEF Files
<1>3. TypeOK
  <2>1. /\ copies \in [CopyNames -> SUBSET Aliases] /\ older \subseteq Aliases
        /\ garbled = {} /\ uncopied = {} /\ collection = {} /\ mishaps = {} /\ at = "off"
    BY DEF Init
  <2>2. config \in [Configs -> Config] /\ conf \in Config /\ faults \in 0..MaxFaults
    BY <1>2, DefaultIsConfig, MaxFaultsAssumption DEF Init
  <2>3. known \subseteq Aliases
    BY <1>2 DEF Init, Whole
  <2>. QED  BY <1>1, <1>2, <2>1, <2>2, <2>3 DEF Init, TypeOK
<1>4. Moving /\ Checked
  BY DEF Init, Moving, Checked, Upgrading
<1>. QED  BY <1>3, <1>4 DEF Sound

LEMMA SoundStep == Sound /\ [Next]_vars => Sound'
<1>. SUFFICES ASSUME Sound, [Next]_vars PROVE Sound'
  OBVIOUS
<1>1. CASE RenameLegacy \/ RenameRefused \/ CopyFile \/ CopyCut \/ RemoveLegacy \/ RemoveCut
  BY <1>1, MoveType, MoveMoving DEF Sound
<1>2. CASE \/ Start \/ ConfigInit \/ ConfigUnreadable \/ Check \/ Backup \/ BackupCut
           \/ Migrate \/ MigrateFails
           \/ CreateDb \/ CreateFails \/ SaveMigrated \/ SaveCut \/ WriteConfig \/ WriteRefused
           \/ WriteCut \/ UseAliases \/ UseCut \/ UseTemporary \/ HandleSet \/ SetCut
         \/ Leave \/ Kill
  BY <1>2, UpgradeType, UpgradeChecked DEF Sound
<1>3. CASE UNCHANGED vars
  <2>1. db_path' = db_path
    BY <1>3 DEF vars, db_path, HasPath, JsonPath
  <2>. QED  BY <1>3, <2>1 DEF vars, Sound, TypeOK, Moving, Twin, Checked, Readable
<1>. QED  BY <1>1, <1>2, <1>3 DEF Next

LEMMA SoundAlways == Spec => []Sound
BY SoundInit, SoundStep, PTL DEF Spec

(* The state is well formed whatever is installed and whatever fails: every  *)
(* file is in a directory that exists, through every move, upgrade and kill. *)
THEOREM TypeCorrect == Spec => []TypeOK
<1>1. Sound => TypeOK
  BY DEF Sound
<1>. QED  BY SoundAlways, <1>1, PTL

-----------------------------------------------------------------------------
(* Nothing is destroyed. *)

LEMMA FoundIn ==
  ASSUME NEW a, NEW f \in Stores, f \in files', f \notin garbled', a \in rows'[f]
  PROVE  Somewhere(a)'
<1>1. Readable(f)'
  BY DEF Readable
<1>. QED  BY <1>1 DEF Somewhere

\* An original or its twin outlives every step of the move.
LEMMA MoveKeeps ==
  ASSUME Sound, NEW f \in Stores, Readable(f), NEW a \in rows[f],
         RenameLegacy \/ RenameRefused \/ CopyFile \/ CopyCut \/ RemoveLegacy \/ RemoveCut
  PROVE  Somewhere(a)'
<1>0. /\ TypeOK /\ Moving /\ f \in files /\ f \notin garbled /\ f \in Files
      /\ files \subseteq Files /\ garbled \subseteq files
  BY DEF Sound, TypeOK, Readable, Files
<1>1. CASE RenameLegacy
  <2>1. \A e \in files : e[1] # "home"
    BY <1>0, <1>1 DEF RenameLegacy, Moving, TypeOK
  <2>2. Moved(f) \in files' /\ Moved(f) \in Stores
    BY <1>0, <1>1, MovedParts DEF RenameLegacy
  <2>3. Moved(f) \notin garbled'
    <3>. SUFFICES ASSUME NEW e \in garbled, Moved(e) = Moved(f) PROVE FALSE
      BY <1>1 DEF RenameLegacy
    <3>1. e \in Files /\ e \in files /\ e # f
      BY <1>0
    <3>2. CASE e[1] = "psm" /\ f[1] = "psm"
      BY <1>0, <3>1, <3>2, MovedParts
    <3>3. CASE e[1] # "psm" /\ f[1] # "psm"
      BY <1>0, <3>1, <3>3, MovedParts
    <3>4. CASE e[1] = "psm" /\ f[1] # "psm"
      BY <1>0, <2>1, <3>1, <3>4, MovedParts
    <3>5. CASE e[1] # "psm" /\ f[1] = "psm"
      BY <1>0, <2>1, <3>1, <3>5, MovedParts
    <3>. QED  BY <3>2, <3>3, <3>4, <3>5
  <2>4. rows'[Moved(f)] = rows[f]
    <3>1. rows'[Moved(f)] = IF Moved(f)[1] = "home" THEN rows[InPsm(Moved(f))] ELSE rows[Moved(f)]
      BY <1>1, <2>2 DEF RenameLegacy
    <3>2. CASE f[1] = "psm"
      BY <1>0, <3>1, <3>2, MovedParts
    <3>3. CASE f[1] # "psm"
      BY <1>0, <2>1, <3>1, <3>3, MovedParts
    <3>. QED  BY <3>2, <3>3
  <2>. QED  BY <2>2, <2>3, <2>4, FoundIn
<1>2. CASE RenameRefused
  BY <1>0, <1>2, FoundIn DEF RenameRefused
<1>3. CASE CopyFile \/ CopyCut
  <2>1. PICK e \in uncopied :
          /\ files' = files \cup {Moved(e)} /\ garbled' \subseteq garbled \cup {Moved(e)}
          /\ rows' = rows \/ rows' = [rows EXCEPT ![Moved(e)] = rows[e]]
    BY <1>3 DEF CopyFile, CopyCut
  <2>2. e \in Files /\ e[1] = "psm" /\ \A g \in files : g[1] = "home" => Twin(g)
    BY <1>0, <1>3, <2>1 DEF Moving, CopyFile, CopyCut, TypeOK
  <2>3. Moved(e)[1] = "home" /\ InPsm(Moved(e)) = e
    BY <2>2, MovedParts
  <2>4. f # Moved(e)
    BY <1>0, <2>1, <2>2, <2>3 DEF Twin
  <2>5. f \in files' /\ f \notin garbled' /\ rows'[f] = rows[f]
    BY <1>0, <2>1, <2>4 DEF TypeOK
  <2>. QED  BY <2>5, FoundIn
<1>4. CASE RemoveLegacy \/ RemoveCut
  <2>1. PICK gone \in SUBSET {e \in files : e[1] = "psm"} :
          files' = files \ gone /\ garbled' \subseteq garbled /\ rows' = rows
    <3>1. CASE RemoveLegacy
      <4>1. files' = files \ {e \in files : e[1] = "psm"}
        BY <3>1 DEF RemoveLegacy
      <4>. QED  BY <3>1, <4>1 DEF RemoveLegacy
    <3>2. CASE RemoveCut
      BY <3>2 DEF RemoveCut
    <3>. QED  BY <1>4, <3>1, <3>2
  <2>2. CASE f \notin gone
    BY <1>0, <2>1, <2>2, FoundIn
  <2>3. CASE f \in gone
    <3>1. at = "copying" /\ uncopied = {} /\ f[1] = "psm"
      BY <1>4, <2>3 DEF RemoveLegacy, RemoveCut
    <3>2. Moved(f) \in files /\ Moved(f)[1] = "home" /\ InPsm(Moved(f)) = f
          /\ Moved(f) \in Stores
      BY <1>0, <3>1, MovedParts DEF Moving
    <3>3. Twin(Moved(f))
      BY <1>0, <3>1, <3>2 DEF Moving
    <3>4. Moved(f) \in files' /\ Moved(f) \notin garbled' /\ rows'[Moved(f)] = rows[f]
      BY <1>0, <2>1, <3>2, <3>3 DEF Twin
    <3>. QED  BY <3>2, <3>4, FoundIn
  <2>. QED  BY <2>2, <2>3
<1>. QED  BY <1>1, <1>2, <1>3, <1>4

\* The upgrade overwrites a database only when its aliases are in a backup.
LEMMA UpgradeKeeps ==
  ASSUME Sound, NEW f \in Stores, Readable(f), NEW a \in rows[f],
         \/ Start \/ ConfigInit \/ ConfigUnreadable \/ Check \/ Backup \/ BackupCut
         \/ Migrate \/ MigrateFails
         \/ CreateDb \/ CreateFails \/ SaveMigrated \/ SaveCut \/ WriteConfig \/ WriteRefused
         \/ WriteCut \/ UseTemporary \/ HandleSet \/ SetCut \/ Leave \/ Kill
  PROVE  Somewhere(a)'
<1>0. /\ TypeOK /\ Checked /\ f \in files /\ f \notin garbled /\ db_path \in Stores /\ f # HomeConfig
  BY DbPathType, HomeConfigParts DEF Sound, Readable
<1>1. CASE SaveMigrated \/ SaveCut
  <2>1. at = "save" /\ backups' = backups /\ files' = files /\ garbled' = garbled
    BY <1>1 DEF SaveMigrated, SaveCut
  <2>2. CASE f = db_path
    BY <1>0, <2>1, <2>2 DEF Checked, Somewhere, CopyNames
  <2>3. CASE f # db_path
    <3>1. rows'[f] = rows[f]
      BY <1>0, <1>1, <2>3 DEF SaveMigrated, SaveCut, TypeOK
    <3>. QED  BY <1>0, <2>1, <3>1, FoundIn
  <2>. QED  BY <2>2, <2>3
<1>2. CASE CreateDb
  <2>1. rows'[f] = rows[f]
    BY <1>0, <1>2 DEF CreateDb, TypeOK
  <2>. QED  BY <1>0, <1>2, <2>1, FoundIn DEF CreateDb
<1>3. CASE \/ Start \/ ConfigInit \/ ConfigUnreadable \/ Check \/ Backup \/ BackupCut
           \/ Migrate \/ MigrateFails
           \/ CreateFails \/ WriteConfig \/ WriteRefused \/ WriteCut \/ UseTemporary \/ HandleSet
           \/ SetCut \/ Leave \/ Kill
  <2>1. rows' = rows /\ f \in files'
    BY <1>0, <1>3 DEF Start, ConfigInit, ConfigUnreadable, Check, Backup, BackupCut, CopyAside,
      Migrate, MigrateFails,
      CreateFails, WriteConfig, WriteRefused, WriteCut, UseTemporary, HandleSet, SetCut, Leave, Kill
  <2>2. f \notin garbled'
    BY <1>0, <1>3 DEF Start, ConfigInit, ConfigUnreadable, Check, Backup, BackupCut, CopyAside,
      Migrate, MigrateFails,
      CreateFails, WriteConfig, WriteRefused, WriteCut, UseTemporary, HandleSet, SetCut, Leave, Kill
  <2>. QED  BY <2>1, <2>2, FoundIn
<1>. QED  BY <1>1, <1>2, <1>3

\* What is in a backup stays in one, unless two are made in one second.
LEMMA BackupsStay ==
  ASSUME Sound, Next, ~SameSecond
  PROVE  older \subseteq older' /\ \A n \in CopyNames : copies[n] \subseteq older' \cup copies'[n]
<1>1. CASE Backup \/ BackupCut
  <2>1. at = "backup" /\ \E copied \in SUBSET ToCopy : \E cut : CopyAside(copied, cut)
    BY <1>1 DEF Backup, BackupCut
  <2>2. older' # older
    BY <2>1 DEF SameSecond
  <2>. QED  BY <2>1, <2>2, CopyParts DEF Sound
<1>2. CASE ~(Backup \/ BackupCut)
  <2>1. older' = older /\ copies' = copies
    BY <1>2 DEF Next, Start, RenameLegacy, RenameRefused, CopyFile, CopyCut, RemoveLegacy,
      RemoveCut, ConfigInit, ConfigUnreadable, Check, Migrate, MigrateFails, CreateDb,
      CreateFails, SaveMigrated, SaveCut, WriteConfig, WriteRefused, WriteCut, UseAliases,
      UseCut, UseTemporary, SaveAliases, HandleSet, SetCut, Leave, Kill
  <2>. QED  BY <2>1
<1>. QED  BY <1>1, <1>2

LEMMA KeptStep ==
  ASSUME Sound, Next, at # "ready", ~SameSecond, NEW a \in Aliases, Somewhere(a)
  PROVE  Somewhere(a)'
<1>1. CASE a \in older \/ \E n \in CopyNames : a \in copies[n]
  <2>1. a \in older' \/ \E n \in CopyNames : a \in copies'[n]
    BY <1>1, BackupsStay
  <2>. QED  BY <2>1 DEF Somewhere
<1>2. CASE \E f \in Stores : Readable(f) /\ a \in rows[f]
  <2>1. PICK f \in Stores : Readable(f) /\ a \in rows[f]
    BY <1>2
  <2>2. ~UseAliases /\ ~UseCut
    BY DEF UseAliases, UseCut, SaveAliases
  <2>. QED  BY <2>1, <2>2, MoveKeeps, UpgradeKeeps DEF Next
<1>. QED  BY <1>1, <1>2 DEF Somewhere

(* However often hp is started, killed and reconfigured, and whatever write, *)
(* copy or save fails, no step of a start up to its command takes the last   *)
(* readable copy of an alias, unless two backups fall into one second:       *)
(* ~/.psm is removed only when its copies are whole, and the upgrade         *)
(* overwrites a database only after it backed it up.                         *)
THEOREM AliasesSurvive == Spec => NothingDestroyed
<1>1. Sound /\ [Next]_vars =>
        [(at # "ready" /\ ~SameSecond) => \A a \in Aliases : Somewhere(a) => Somewhere(a)']_vars
  BY KeptStep
<1>. QED  BY <1>1, SoundAlways, PTL DEF Spec, NothingDestroyed

-----------------------------------------------------------------------------
(* Once upgraded. *)

(* Once config.json carries the current version, no step of a start up to    *)
(* its command takes an alias out of a store that exists: the upgrade never  *)
(* runs a second time over it.                                               *)
THEOREM NeverUpgradedTwice == Spec => UpgradedOnce
<1>1. Sound /\ [Next]_vars =>
        [(at # "ready" /\ Readable(HomeConfig) /\ config[HomeConfig].version = CurrentVersion) =>
           \A f \in files \cap files' \cap Stores : rows[f] \subseteq rows'[f]]_vars
  <2>. SUFFICES ASSUME Sound, Next, at # "ready",
                       Readable(HomeConfig), config[HomeConfig].version = CurrentVersion,
                       NEW f \in files \cap files' \cap Stores
                PROVE  rows[f] \subseteq rows'[f]
    OBVIOUS
  <2>0. /\ TypeOK /\ Moving /\ Checked /\ f \in files /\ f \in Stores /\ HomeConfig \in files
    BY DEF Sound, Readable
  <2>1. at \notin Upgrading
    BY <2>0 DEF Checked, CurrentVersion
  <2>2. at # "migrate_dir"
    BY <2>0, HomeConfigParts DEF Moving, TypeOK
  <2>3. CASE CopyFile
    <3>1. PICK e \in uncopied : rows' = rows \/ rows' = [rows EXCEPT ![Moved(e)] = rows[e]]
      BY <2>3 DEF CopyFile
    <3>2. e \in Files /\ e[1] = "psm" /\ \A g \in files : g[1] = "home" => Twin(g)
      BY <2>0, <2>3, <3>1 DEF Moving, CopyFile, TypeOK, Files
    <3>3. Moved(e)[1] = "home" /\ InPsm(Moved(e)) = e
      BY <3>2, MovedParts
    <3>4. f # Moved(e)
      BY <2>0, <3>1, <3>2, <3>3 DEF Twin
    <3>. QED  BY <2>0, <3>1, <3>4 DEF TypeOK
  <2>4. CASE ~CopyFile
    <3>1. ~UseAliases /\ ~UseCut
      BY DEF UseAliases, UseCut, SaveAliases
    <3>2. rows' = rows
      BY <2>1, <2>2, <2>4, <3>1 DEF Next, Start, RenameLegacy, RenameRefused, CopyCut,
        RemoveLegacy, RemoveCut, ConfigInit, ConfigUnreadable, Check, Backup, BackupCut, Migrate,
        MigrateFails, CreateDb, CreateFails, SaveMigrated, SaveCut, WriteConfig, WriteRefused,
        WriteCut, UseTemporary, HandleSet, SetCut, Leave, Kill, Upgrading
    <3>. QED  BY <3>2
  <2>. QED  BY <2>3, <2>4
<1>. QED  BY <1>1, SoundAlways, PTL DEF Spec, UpgradedOnce

-----------------------------------------------------------------------------
(***************************************************************************)
(* Regular installations. Until the upgrade has rewritten config.json the  *)
(* user's aliases are in the server.json it names, and in each thing the   *)
(* upgrade has made of it so far; from then on they are in the database    *)
(* next to it. A start that read a whole config.json has it in hand.       *)
(***************************************************************************)

Database == <<install.config.path[1], "server.db">>

OldStore ==
  /\ config[HomeConfig].version < CurrentVersion
  /\ config[HomeConfig].path = install.config.path
  /\ install.config.path[2] = "server.json"
  /\ install.config.path \in files /\ known \subseteq Whole(install.config.path)
  /\ at # "ready"
  /\ at \in {"create", "save"} => known \subseteq collection
  /\ at = "write" => Database \in files /\ known \subseteq rows[Database]

NewStore ==
  /\ config[HomeConfig].version = CurrentVersion
  /\ config[HomeConfig].path = Database
  /\ Database \in files /\ known \subseteq rows[Database]
  /\ at \notin Upgrading

Quiet ==
  /\ "psm" \notin dirs /\ at \notin {"migrate_dir", "copying"} /\ garbled \subseteq {HomeConfig}
  /\ config[HomeConfig].key = "server_file_path" /\ config[HomeConfig].fits = "yes"
InHand ==
  /\ at \in Upgrading \cup {"check", "ready"} /\ Readable(HomeConfig) => conf = config[HomeConfig]
  /\ at = "ready" => Readable(HomeConfig)

RegularInv == Regular /\ mishaps = {} => Quiet /\ InHand /\ (OldStore \/ NewStore)

LEMMA RegularParts ==
  ASSUME install \in Installs, Regular
  PROVE  /\ install.config \in Config /\ install.config.path \in Stores
         /\ Database \in Stores
         /\ install.config.path[2] = "server.db" => install.config.path = Database
         /\ install.config.path[2] = "server.json" => install.config.path # Database
         /\ install.files \cap Stores = {install.config.path}
<1>1. install.config \in Config /\ install.files \subseteq Files
  BY InstallParts
<1>2. install.config.path \in Stores
  BY <1>1, ConfigParts, FileParts DEF Regular
<1>3. install.config.path \in Files
  BY <1>2 DEF Files
<1>4. Database \in Stores
  BY <1>3, FileParts, StoreOf DEF Database
<1>5. /\ install.config.path[2] = "server.db" => install.config.path = Database
      /\ install.config.path[2] = "server.json" => install.config.path # Database
  BY <1>3, FileParts DEF Database
<1>6. install.files \cap Stores = {install.config.path}
  <2>. DEFINE S == install.files \cap Stores
  <2>1. Cardinality(S) = 1 /\ install.config.path \in S
    BY <1>2 DEF Regular
  <2>2. IsFiniteSet(Stores)
    <3>1. IsFiniteSet(Dirs) /\ IsFiniteSet({"server.json", "server.db"})
      <4>1. IsFiniteSet({}) /\ IsFiniteSet({"psm"}) /\ IsFiniteSet({"server.json"})
        BY FS_EmptySet, FS_Singleton
      <4>2. IsFiniteSet({"psm"} \cup {"home"}) /\ IsFiniteSet({"server.json"} \cup {"server.db"})
        BY <4>1, FS_AddElement
      <4>3. IsFiniteSet(({"psm"} \cup {"home"}) \cup {"other"})
        BY <4>2, FS_AddElement
      <4>4. /\ Dirs = ({"psm"} \cup {"home"}) \cup {"other"}
            /\ {"server.json", "server.db"} = {"server.json"} \cup {"server.db"}
        BY DEF Dirs
      <4>. QED  BY <4>2, <4>3, <4>4
    <3>. QED  BY <3>1, FS_Product DEF Stores
  <2>3. IsFiniteSet(S)
    BY <2>2, FS_Subset
  <2>4. PICK x : S = {x}
    BY <2>1, <2>3, FS_Singleton
  <2>. QED  BY <2>1, <2>4
<1>. QED  BY <1>1, <1>2, <1>4, <1>5, <1>6

LEMMA RegularInit == Init => RegularInv
<1>. SUFFICES ASSUME Init, Regular, mishaps = {} PROVE Quiet /\ InHand /\ (OldStore \/ NewStore)
  BY DEF RegularInv
<1>. DEFINE p == install.config.path
<1>1. /\ install \in Installs /\ dirs = install.dirs /\ files = install.files
      /\ rows = install.rows /\ garbled = {} /\ at = "off"
      /\ config[HomeConfig] = install.config
      /\ known = UNION {Whole(f) : f \in files \cap Stores}
  BY HomeConfigParts DEF Init
<1>2. p \in Stores /\ files \cap Stores = {p} /\ install.config \in Config
  BY <1>1, RegularParts
<1>3. known = Whole(p) /\ p \in files
  BY <1>1, <1>2
<1>4. Quiet /\ InHand
  BY <1>1 DEF Regular, Quiet, InHand, Upgrading
<1>5. CASE install.config.version = CurrentVersion
  <2>1. p = Database
    BY <1>1, <1>5, RegularParts DEF Regular
  <2>2. Whole(p) = rows[p]
    BY <1>5 DEF Regular, Whole
  <2>. QED  BY <1>1, <1>3, <1>4, <1>5, <2>1, <2>2 DEF NewStore, Upgrading
<1>6. CASE install.config.version # CurrentVersion
  <2>1. install.config.version < CurrentVersion
    BY <1>2, <1>6, ConfigParts DEF CurrentVersion
  <2>2. p[2] = "server.json"
    BY <1>6 DEF Regular
  <2>. QED  BY <1>1, <1>3, <1>4, <2>1, <2>2 DEF OldStore
<1>. QED  BY <1>5, <1>6

\* mishaps only grows, so a state without any comes from one without any.
LEMMA MishapsStay ==
  ASSUME Next, mishaps' = {}
  PROVE  mishaps = {} /\ install' = install
BY DEF Next, Start, RenameLegacy, RenameRefused, CopyFile, CopyCut, RemoveLegacy, RemoveCut,
  ConfigInit, ConfigUnreadable, Check, Backup, BackupCut, CopyAside, Migrate, MigrateFails,
    CreateDb, CreateFails,
  SaveMigrated, SaveCut, WriteConfig, WriteRefused, WriteCut, UseAliases, UseCut, UseTemporary,
    SaveAliases, HandleSet, SetCut,
  Leave, Kill

\* Where the database goes, and that it may be read.
LEMMA RegularPath ==
  ASSUME Sound, Regular, Quiet, OldStore \/ NewStore
  PROVE  /\ HasPath /\ JsonPath = config[HomeConfig].path /\ db_path = Database
         /\ Database \in Stores /\ Database # HomeConfig
         /\ \A f \in files : f \in Stores => Readable(f)
<1>1. install \in Installs
  BY DEF Sound, TypeOK
<1>2. /\ install.config.path \in Stores /\ Database \in Stores
      /\ Database = <<install.config.path[1], "server.db">>
  BY <1>1, RegularParts DEF Database
<1>3. config[HomeConfig].path \in {install.config.path, Database}
  BY DEF OldStore, NewStore
<1>4. HasPath /\ JsonPath = config[HomeConfig].path
  BY <1>2, <1>3, FileParts DEF HasPath, JsonPath, Quiet, Files
<1>5. db_path = Database
  BY <1>2, <1>3, <1>4 DEF db_path
<1>. QED  BY <1>2, <1>4, <1>5, HomeConfigParts DEF Readable, Quiet

\* One step of a start over a regular installation.
LEMMA RegularStep ==
  ASSUME Sound, Sound', RegularInv, Next
  PROVE  RegularInv'
<1>. SUFFICES ASSUME Regular', mishaps' = {}
              PROVE  Quiet' /\ InHand' /\ (OldStore' \/ NewStore')
  BY DEF RegularInv
<1>0. /\ mishaps = {} /\ install' = install /\ Regular
      /\ TypeOK /\ Moving /\ Checked
      /\ HomeConfig \in Configs /\ HomeConfig \notin Stores
  BY MishapsStay, HomeConfigParts DEF Regular, Sound
<1>1. Quiet /\ InHand /\ (OldStore \/ NewStore)
  BY <1>0 DEF RegularInv
<1>2. /\ HasPath /\ JsonPath = config[HomeConfig].path /\ db_path = Database
      /\ Database \in Stores /\ Database # HomeConfig /\ Database' = Database
      /\ install.config.path \in Stores
      /\ install.config.path[2] = "server.json" => install.config.path # Database
      /\ \A f \in files : f \in Stores => Readable(f)
  BY <1>0, <1>1, RegularPath, RegularParts DEF TypeOK, Database
<1>3. CASE Start
  BY <1>0, <1>1, <1>2, <1>3
     DEF Start, Quiet, InHand, OldStore, Whole, NewStore, Upgrading, Readable
<1>4. CASE RenameLegacy \/ RenameRefused \/ CopyFile \/ CopyCut \/ RemoveLegacy \/ RemoveCut
  BY <1>1, <1>4 DEF Quiet, RenameLegacy, RenameRefused, CopyFile, CopyCut, RemoveLegacy, RemoveCut
<1>5. CASE ConfigInit
  BY <1>0, <1>1, <1>2, <1>5
     DEF ConfigInit, read_from, Quiet, InHand, OldStore, Whole, NewStore, Upgrading, Readable
<1>6. CASE ConfigUnreadable \/ MigrateFails \/ CreateFails \/ WriteRefused \/ Leave \/ Kill
  <2>1. at' = "off" /\ UNCHANGED <<disk, history>>
    BY <1>6 DEF ConfigUnreadable, MigrateFails, CreateFails, WriteRefused, Leave, Kill
  <2>. QED  BY <1>0, <1>1, <1>2, <2>1 DEF Quiet, InHand, OldStore, Whole, NewStore, Upgrading
<1>7. CASE Check
  <2>1. UNCHANGED <<disk, conf, history>> /\ Readable(HomeConfig) /\ at = "check"
        /\ at' = IF NeedsUpgrade /\ config[HomeConfig].version < CurrentVersion
                 THEN "backup" ELSE "ready"
    BY <1>7 DEF Check
  <2>2. CASE OldStore
    <3>1. at' = "backup"
      BY <2>1, <2>2 DEF OldStore, NeedsUpgrade
    <3>. QED  BY <1>0, <1>1, <1>2, <2>1, <2>2, <3>1 DEF Quiet, InHand, OldStore, Whole, Upgrading, Readable
  <2>3. CASE NewStore
    <3>1. at' = "ready"
      BY <2>1, <2>3 DEF NewStore, CurrentVersion
    <3>. QED  BY <1>0, <1>1, <1>2, <2>1, <2>3, <3>1 DEF Quiet, InHand, NewStore, Upgrading, Readable
  <2>. QED  BY <1>1, <2>2, <2>3
<1>8. CASE Backup
  <2>1. OldStore
    BY <1>1, <1>8 DEF Backup, NewStore, Upgrading
  <2>. QED  BY <1>0, <1>1, <1>2, <1>8, <2>1
            DEF Backup, Quiet, InHand, OldStore, Whole, Upgrading, Readable
<1>9. CASE Migrate
  <2>1. OldStore
    BY <1>1, <1>9 DEF Migrate, NewStore, Upgrading
  <2>2. collection' = Whole(install.config.path)
    BY <1>2, <1>9, <2>1 DEF Migrate, OldStore, Whole
  <2>. QED  BY <1>0, <1>1, <1>2, <1>9, <2>1, <2>2
            DEF Migrate, Quiet, InHand, OldStore, Whole, Upgrading, Readable
<1>10. CASE CreateDb
  <2>1. OldStore /\ at = "create"
    BY <1>1, <1>10 DEF CreateDb, NewStore, Upgrading
  <2>2. Whole(install.config.path)' = Whole(install.config.path)
    BY <1>0, <1>2, <1>10, <2>1 DEF CreateDb, OldStore, Whole, TypeOK
  <2>3. Readable(HomeConfig) /\ conf = config[HomeConfig]
    BY <1>0, <1>1, <2>1 DEF Checked, InHand, Upgrading
  <2>4. OldStore'
    BY <1>0, <1>2, <1>10, <2>1, <2>2 DEF CreateDb, OldStore, Whole
  <2>5. Quiet' /\ InHand'
    BY <1>1, <1>10, <2>3 DEF CreateDb, Quiet, InHand, Upgrading
  <2>. QED  BY <2>4, <2>5
<1>11. CASE SaveMigrated \/ SaveCut
  <2>1. OldStore /\ at = "save"
    BY <1>1, <1>11 DEF SaveMigrated, SaveCut, NewStore, Upgrading
  <2>2. /\ UNCHANGED <<dirs, files, garbled, config, conf, known>>
        /\ \E some : rows' = [rows EXCEPT ![db_path] = some]
    BY <1>11 DEF SaveMigrated, SaveCut
  <2>3. Whole(install.config.path)' = Whole(install.config.path)
    BY <1>0, <1>2, <2>1, <2>2 DEF OldStore, Whole, TypeOK
  <2>4. \/ at' = "off"
        \/ at' = "write" /\ rows'[Database] = collection
    BY <1>0, <1>2, <1>11 DEF SaveMigrated, SaveCut, TypeOK
  <2>5. Database \in files /\ known \subseteq collection
    BY <1>0, <1>2, <2>1 DEF Checked, Readable, OldStore, Whole
  <2>6. OldStore'
    BY <1>0, <1>2, <2>1, <2>2, <2>3, <2>4, <2>5 DEF OldStore, Whole
  <2>7. Quiet' /\ InHand'
    BY <1>1, <2>1, <2>2, <2>4 DEF Quiet, InHand, Upgrading, Readable
  <2>. QED  BY <2>6, <2>7
<1>12. CASE WriteConfig
  <2>1. OldStore /\ at = "write"
    BY <1>1, <1>12 DEF WriteConfig, NewStore, Upgrading
  <2>2. config'[HomeConfig] = [version |-> CurrentVersion, key |-> "server_file_path",
                               path |-> Database, fits |-> "yes"]
    BY <1>0, <1>2, <1>12 DEF WriteConfig, TypeOK
  <2>3. NewStore'
    BY <1>2, <1>12, <2>1, <2>2 DEF WriteConfig, NewStore, OldStore, Whole, Upgrading
  <2>4. Quiet' /\ InHand'
    BY <1>1, <1>12, <2>2 DEF WriteConfig, Quiet, InHand, Upgrading
  <2>. QED  BY <2>3, <2>4
<1>13. CASE WriteCut
  <2>1. at' = "off" /\ garbled' = garbled \cup {HomeConfig}
        /\ UNCHANGED <<dirs, files, rows, config, known>>
    BY <1>13 DEF WriteCut
  <2>. QED  BY <1>0, <1>1, <1>2, <2>1 DEF Quiet, InHand, OldStore, Whole, NewStore, Upgrading
<1>14. CASE UseAliases \/ UseCut
  <2>1. PICK stored \in SUBSET Aliases : SaveAliases(stored)
    BY <1>0, <1>14, UseParts
  <2>2. NewStore /\ conf.path = Database /\ at = "ready" /\ at' = "off"
    BY <1>1, <2>1 DEF SaveAliases, OldStore, Whole, NewStore, InHand
  <2>3. /\ UNCHANGED <<dirs, garbled, config, conf>> /\ files' = files \cup {Database}
        /\ rows' = [rows EXCEPT ![Database] = stored]
        /\ known' = (known \ rows[Database]) \cup stored
    BY <2>1, <2>2 DEF SaveAliases, Held, NewStore
  <2>4. rows'[Database] = stored /\ known' = stored
    BY <1>0, <1>2, <2>2, <2>3 DEF TypeOK, NewStore
  <2>5. NewStore'
    BY <1>2, <2>2, <2>3, <2>4 DEF NewStore, Upgrading
  <2>6. Quiet' /\ InHand'
    BY <1>1, <2>2, <2>3 DEF Quiet, InHand, Upgrading
  <2>. QED  BY <2>5, <2>6
<1>15. CASE HandleSet
  <2>1. NewStore /\ conf = config[HomeConfig] /\ conf \in Config
    BY <1>0, <1>1, <1>15 DEF HandleSet, OldStore, Whole, InHand, TypeOK
  <2>2. config' = [config EXCEPT ![HomeConfig] =
                     [conf EXCEPT !.path = conf.path, !.key = "server_file_path"]]
    BY <1>0, <1>15 DEF HandleSet
  <2>3. config'[HomeConfig] = [conf EXCEPT !.path = conf.path, !.key = "server_file_path"]
    BY <1>0, <2>2 DEF TypeOK
  <2>4. /\ config'[HomeConfig].version = conf.version /\ config'[HomeConfig].path = conf.path
        /\ config'[HomeConfig].key = "server_file_path" /\ config'[HomeConfig].fits = conf.fits
    BY <2>1, <2>3 DEF Config
  <2>5. NewStore'
    BY <1>2, <1>15, <2>1, <2>4 DEF HandleSet, NewStore, Upgrading
  <2>6. Quiet' /\ InHand'
    BY <1>1, <1>15, <2>1, <2>4 DEF HandleSet, Quiet, InHand, Upgrading
  <2>. QED  BY <2>5, <2>6
<1>16. CASE SetCut
  <2>1. /\ at' = "off" /\ garbled' = garbled \cup {HomeConfig}
        /\ files' = files \cup {HomeConfig} /\ UNCHANGED <<dirs, rows, config, known>>
    BY <1>16 DEF SetCut
  <2>. QED  BY <1>0, <1>1, <1>2, <2>1 DEF Quiet, InHand, OldStore, Whole, NewStore, Upgrading
<1>17. CASE UseTemporary
  <2>1. at = "ready" /\ conf.path = NoPath
    BY <1>17 DEF UseTemporary
  <2>2. conf.path = Database
    BY <1>1, <2>1 DEF OldStore, Whole, NewStore, InHand
  <2>3. Database # NoPath
    BY <1>2, FileParts DEF Files
  <2>. QED  BY <2>1, <2>2, <2>3
<1>18. CASE BackupCut
  <2>1. OldStore /\ at' = "off" /\ UNCHANGED <<dirs, files, garbled, rows, config, history>>
    BY <1>1, <1>18 DEF BackupCut, NewStore, Upgrading
  <2>. QED  BY <1>0, <1>1, <1>2, <2>1 DEF Quiet, InHand, OldStore, Whole, Upgrading
<1>. QED
  BY <1>3, <1>4, <1>5, <1>6, <1>7, <1>8, <1>9, <1>10, <1>11, <1>12, <1>13, <1>14, <1>15, <1>16,
     <1>17, <1>18
     DEF Next

(* From a configuration of the documented form, every start that gets to its *)
(* command shows it all the aliases with a complete entry, and all that the  *)
(* saves of commands, cut ones included, have left since, whatever was       *)
(* killed before; unless the upgrade went on after a failed save, or         *)
(* `hp set` chose another store.                                             *)
THEOREM RegularSeesAll == Spec => []RegularKept
<1>1. Sound /\ RegularInv => RegularKept
  <2>. SUFFICES ASSUME Sound, RegularInv, Regular, mishaps = {}, at = "ready"
                PROVE  known \subseteq Visible
    BY DEF RegularKept
  <2>1. Quiet /\ InHand /\ NewStore
    BY DEF RegularInv, OldStore
  <2>2. conf.path = Database /\ Database \in files /\ known \subseteq rows[Database]
    BY <2>1 DEF InHand, NewStore
  <2>3. Database \in Stores /\ Readable(Database)
    BY <2>1, <2>2, RegularPath
  <2>. QED  BY <2>2, <2>3 DEF Visible
<1>2. Sound /\ Sound' /\ RegularInv /\ [Next]_vars => RegularInv'
  <2>. SUFFICES ASSUME Sound, Sound', RegularInv, UNCHANGED vars PROVE RegularInv'
    BY RegularStep
  <2>. QED  BY DEF vars, RegularInv, Regular, Quiet, InHand, OldStore, Whole, NewStore, Database, Readable
<1>. QED  BY <1>1, <1>2, RegularInit, SoundAlways, PTL DEF Spec

=============================================================================
