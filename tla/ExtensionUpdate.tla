--------------------------- MODULE ExtensionUpdate ---------------------------
(***************************************************************************)
(* The update of the extension itself: main/update.go, update_linux.go,    *)
(* update_windows.go, install_linux.go and mvdirs_linux.go. Every version  *)
(* of the extension has a directory with a package registry. On Linux the  *)
(* versions share one DataFolder, with the files of the applications; on   *)
(* Windows each has its own.                                               *)
(*                                                                         *)
(* The guest agent calls "update" of the new version until it succeeds,    *)
(* then "uninstall" of the old one and "install" of the new one, in the    *)
(* order of Test_linuxUpdateInstallFlow (main_linux_test.go:53). It is not *)
(* part of this repository, nor is the platform that handles "uninstall",  *)
(* which may delete the DataFolder (main_linux_test.go:189).               *)
(*                                                                         *)
(* What the action plan does while a version is in service is reduced to   *)
(* installing and removing applications. The files of an application are   *)
(* one entry of the DataFolder. Its content is a number, 0 if there are    *)
(* none, and every installation makes a new content.                       *)
(***************************************************************************)
EXTENDS Integers

CONSTANTS
  Apps,        \* the applications
  LastVersion, \* versions of the extension, from 1
  MaxContent,  \* contents of the files of an application
  Absent,      \* no registry file
  Damaged,     \* a registry file that is empty, or cut
  NoDir,       \* no directory
  MaxKills,    \* bound: ends of a callback's process
  MaxFaults    \* bound: errors of file operations

Versions == 1..LastVersion
Contents == 1..MaxContent

VARIABLES
  windows,    \* the platform
  reg,        \* the registry file of each version
  later,      \* pairs of versions: the registry of the first was written later
  data,       \* the DataFolder of each version; on Linux all use that of 1
  backup,     \* DataFolder.backup, on Linux
  current,    \* the version in service, or that is replaced
  new,        \* the version it is replaced by
  stage,      \* "service", "update", "uninstall", "install"
  pc,         \* where the callback is; "failed" when it is to be retried
  prev,       \* the version whose registry the update callback takes
  content,    \* previousPackageRegistryContent
  todo,       \* entries of a directory walk, or directories, still to do
  truth,      \* history: what is installed, with which files
  sound,      \* history: nothing was missing when this update began
  clean,      \* history: nor has the update met one of its weak points
  kills, faults   \* what has happened of the bounded events

files == <<reg, later, data, backup>>
agent == <<windows, current, new, stage>>
callback == <<pc, prev, content, todo>>
history == <<truth, sound, clean>>
bounds == <<kills, faults>>
vars == <<files, agent, callback, history, bounds>>

(* The entry of an application in a registry: the content of its files, and *)
(* the version in whose DataFolder they are (DownloadDir).                  *)
Entries == [content : Contents \cup {0}, home : Versions \cup {0}]
NotInstalled == [content |-> 0, home |-> 0]
NoPackages == [a \in Apps |-> NotInstalled]
Registries == [Apps -> Entries]
EmptyDir == [a \in Apps |-> 0]
Directories == [Apps -> Contents \cup {0}]

ASSUME ConstantsAssumption ==
  /\ LastVersion \in Nat \ {0}
  /\ {MaxContent, MaxKills, MaxFaults} \subseteq Nat
  /\ Absent \notin Registries /\ Damaged \notin Registries /\ Absent # Damaged
  /\ NoDir \notin Directories

Outcomes == INSTANCE RegistryOutcomes WITH NoPackages <- Absent, Unreadable <- Damaged

Init ==
  /\ windows \in BOOLEAN
  /\ reg = [v \in Versions |-> Absent]
  /\ later = {}
  /\ data = [v \in Versions |-> NoDir]
  /\ backup = NoDir
  /\ current = 1
  /\ new = 1
  /\ stage = "service"
  /\ pc = "none"
  /\ prev = 0
  /\ content = Absent
  /\ todo = {}
  /\ truth = EmptyDir
  /\ sound = TRUE
  /\ clean = TRUE
  /\ kills = 0
  /\ faults = 0

-----------------------------------------------------------------------------
Fault == faults < MaxFaults /\ faults' = faults + 1 /\ UNCHANGED kills
Killed == kills < MaxKills /\ kills' = kills + 1 /\ UNCHANGED faults

(* What GetExistingPackages makes of a file.                               *)
Read(r) == IF r \in {Absent, Damaged} THEN NoPackages ELSE r

Home(v) == IF windows THEN v ELSE 1

(* The entries of a directory.                                             *)
Holds(d) == IF d = NoDir THEN {} ELSE {a \in Apps : d[a] # 0}

WriteRegistry(v, r) ==
  /\ reg' = [reg EXCEPT ![v] = r]
  /\ later' = {w \in later : v \notin {w[1], w[2]}} \cup {<<v, u>> : u \in Versions \ {v}}

(* What is installed, according to a registry and in its files.            *)
Lists(r) == \A a \in Apps : Read(r)[a].content = truth[a]
Kept(a) ==
  \/ \E v \in Versions : data[v] # NoDir /\ data[v][a] = truth[a]
  \/ backup # NoDir /\ backup[a] = truth[a]

(* A save of the registry of the version in service, by the action plan.   *)
InstallApp ==
  /\ stage = "service"
  /\ \E a \in Apps, c \in Contents :
       /\ c # truth[a]
       /\ \A v \in Versions : a \in Holds(data[v]) => data[v][a] # c
       /\ a \in Holds(backup) => backup[a] # c
       /\ LET d == data[Home(current)] IN
          data' = [data EXCEPT ![Home(current)] =
                     [IF d = NoDir THEN EmptyDir ELSE d EXCEPT ![a] = c]]
       /\ WriteRegistry(current,
            [Read(reg[current]) EXCEPT ![a] = [content |-> c, home |-> Home(current)]])
       /\ truth' = [truth EXCEPT ![a] = c]
  /\ UNCHANGED <<agent, callback, backup, sound, clean, bounds>>

RemoveApp ==
  /\ stage = "service"
  /\ \E a \in Apps :
       /\ Read(reg[current])[a].content # 0
       /\ data' = IF data[Home(current)] = NoDir THEN data
                  ELSE [data EXCEPT ![Home(current)][a] = 0]
       /\ WriteRegistry(current, [Read(reg[current]) EXCEPT ![a] = NotInstalled])
       /\ truth' = [truth EXCEPT ![a] = 0]
  /\ UNCHANGED <<agent, callback, backup, sound, clean, bounds>>

-----------------------------------------------------------------------------
(* The guest agent.                                                        *)
StartUpdate ==
  /\ stage = "service"
  /\ \E v \in Versions : v > current /\ new' = v
  /\ stage' = "update"
  /\ pc' = "stat"
  /\ sound' = (Lists(reg[current]) /\ \A a \in Apps : truth[a] # 0 => Kept(a))
  /\ clean' = sound'
  /\ UNCHANGED <<files, windows, current, prev, content, todo, truth, bounds>>

RetryUpdate ==
  /\ stage = "update"
  /\ pc = "failed"
  /\ pc' = "stat"
  /\ UNCHANGED <<files, agent, prev, content, todo, history, bounds>>

(* The old version is uninstalled. Its directory is deleted or stays, and  *)
(* so does, on Linux, the DataFolder.                                      *)
UninstallOld ==
  /\ stage = "uninstall"
  /\ stage' = "install"
  /\ pc' = "restore"
  /\ \/ UNCHANGED <<reg, data, clean>>
     \/ /\ windows
        /\ reg' = [reg EXCEPT ![current] = Absent]
        /\ data' = [data EXCEPT ![current] = NoDir]
        /\ UNCHANGED clean
     \/ /\ ~windows
        /\ reg' \in {reg, [reg EXCEPT ![current] = Absent]}
        /\ data' \in {data, [data EXCEPT ![1] = NoDir]}
        /\ clean' = (clean /\ (data' = data \/ Holds(data[1]) = {}))
  /\ UNCHANGED <<later, backup, windows, current, new, prev, content, todo, truth, sound, bounds>>

-----------------------------------------------------------------------------
(* vmAppUpdateCallback of the new version.                                 *)
ReturnSuccess ==
  /\ stage' = "uninstall"
  /\ pc' = "none"
  /\ prev' = 0
  /\ content' = Absent
  /\ todo' = {}

ReturnError ==
  /\ stage' = stage
  /\ pc' = "failed"
  /\ prev' = 0
  /\ content' = Absent
  /\ todo' = {}

GoTo(label) ==
  /\ pc' = label
  /\ UNCHANGED <<stage, prev, content>>

FailIfPresent ==
  /\ pc = "stat"
  /\ \/ reg[new] # Absent /\ ReturnError
     \/ reg[new] = Absent /\ GoTo("pick") /\ UNCHANGED todo
  /\ UNCHANGED <<files, windows, current, new, history, bounds>>

(* The registry file of the new version is there, or cannot be looked at:  *)
(* the callback has nothing to do.                                         *)
StatRegistry ==
  /\ pc = "stat"
  /\ \/ reg[new] # Absent /\ ReturnSuccess /\ UNCHANGED <<clean, bounds>>
     \/ Fault /\ ReturnSuccess /\ clean' = FALSE
     \/ reg[new] = Absent /\ GoTo("pick") /\ UNCHANGED <<todo, clean, bounds>>
  /\ UNCHANGED <<files, windows, current, new, truth, sound>>

(* getMostRecentlyUpdatedPackageRegistryFile, of the registries it sees:   *)
(* one that cannot be looked at is left out.                               *)
Others == {v \in Versions \ {new} : reg[v] # Absent}
MostRecent(u, seen) == u \in seen /\ \A v \in seen \ {u} : <<u, v>> \in later

(* The config folder is created, its path is split, and the registry of    *)
(* another version is chosen and read.                                     *)
PickRegistry ==
  /\ pc = "pick"
  /\ \/ \E seen \in SUBSET Others, u \in Versions :
          /\ MostRecent(u, seen)
          /\ (seen = Others /\ UNCHANGED bounds) \/ (seen # Others /\ Fault)
          /\ prev' = u
          /\ content' = reg[u]
          /\ pc' = "copy"
          /\ clean' = (clean /\ u = current)
          /\ UNCHANGED <<stage, todo>>
     \/ Others = {} /\ ReturnError /\ UNCHANGED <<clean, bounds>>
     \/ Fault /\ ReturnError /\ UNCHANGED clean
  /\ UNCHANGED <<files, windows, current, new, truth, sound>>

ClearFirst ==
  /\ pc = "copy"
  /\ WriteRegistry(prev, NoPackages)
  /\ GoTo("clear")
  /\ UNCHANGED <<data, backup, windows, current, new, todo, history, bounds>>

(* os.WriteFile of the new registry. After an error, or a kill, it is not  *)
(* there, or there and damaged.                                            *)
CopyRegistry ==
  /\ pc = "copy"
  /\ \/ WriteRegistry(new, content) /\ GoTo("clear") /\ UNCHANGED <<todo, clean, bounds>>
     \/ (Fault \/ Killed) /\ ReturnError /\ UNCHANGED <<reg, later, clean>>
     \/ (Fault \/ Killed) /\ ReturnError /\ WriteRegistry(new, Damaged) /\ clean' = FALSE
  /\ UNCHANGED <<data, backup, windows, current, new, truth, sound>>

(* On Windows a kill from here on is not made up for: the registry that is *)
(* there ends the next try.                                                *)
KilledLate ==
  /\ Killed
  /\ ReturnError
  /\ clean' = (clean /\ ~windows)

(* The DataFolders of the other versions, on Windows.                      *)
OtherFolders == {v \in Versions \ {new} : data[v] # NoDir}

MoveOnBothPlatforms ==
  /\ pc = "clear"
  /\ \/ /\ WriteRegistry(prev, NoPackages)
        /\ GoTo("move")
        /\ UNCHANGED <<todo, clean, bounds>>
     \/ KilledLate /\ WriteRegistry(prev, Damaged)
  /\ UNCHANGED <<data, backup, windows, current, new, truth, sound>>

(* os.WriteFile of the old registry, whose error is ignored.               *)
ClearRegistry ==
  /\ pc = "clear"
  /\ \/ /\ \/ WriteRegistry(prev, NoPackages) /\ UNCHANGED bounds
           \/ Fault /\ UNCHANGED <<reg, later>>
           \/ Fault /\ WriteRegistry(prev, Damaged)
        /\ GoTo(IF windows THEN "downloads" ELSE "move")
        /\ todo' = IF windows THEN OtherFolders ELSE {}
        /\ UNCHANGED clean
     \/ KilledLate /\ WriteRegistry(prev, Damaged)
  /\ UNCHANGED <<data, backup, windows, current, new, truth, sound>>

-----------------------------------------------------------------------------
(* Linux: moveDirsAll and mergeDirWithPreferenceWalk. One entry is renamed *)
(* at a time; of two of the same name, the source or the destination wins. *)
PreferSource(d, s, a) == [d EXCEPT ![a] = s[a]]
PreferAlwaysSource(d, s, a) == [d EXCEPT ![a] = s[a]]
PreferDestination(d, s, a) == [d EXCEPT ![a] = IF d[a] # 0 THEN d[a] ELSE s[a]]

(* The source without the entry, if it was moved.                          *)
Left(d, s, a, prefersSource) ==
  [s EXCEPT ![a] = IF prefersSource \/ d[a] = 0 THEN 0 ELSE @]

(* DataFolder to backup: as a whole if there is no backup.                 *)
MoveData ==
  /\ pc = "move"
  /\ \/ /\ data[1] = NoDir
        /\ GoTo("mkdir")
        /\ UNCHANGED <<data, backup, todo, bounds>>
     \/ /\ data[1] # NoDir
        /\ backup = NoDir
        /\ backup' = data[1]
        /\ data' = [data EXCEPT ![1] = NoDir]
        /\ GoTo("mkdir")
        /\ UNCHANGED <<todo, bounds>>
     \/ /\ data[1] # NoDir
        /\ backup # NoDir
        /\ todo' = Holds(data[1])
        /\ GoTo("merge")
        /\ UNCHANGED <<data, backup, bounds>>
     \/ Fault /\ ReturnError /\ UNCHANGED <<data, backup>>
  /\ UNCHANGED <<reg, later, windows, current, new, history>>

MergeData ==
  /\ pc = "merge"
  /\ \/ \E a \in todo :
          /\ backup' = PreferSource(backup, data[1], a)
          /\ data' = [data EXCEPT ![1] = Left(backup, data[1], a, TRUE)]
          /\ todo' = todo \ {a}
          /\ GoTo("merge")
          /\ UNCHANGED bounds
     \/ /\ todo = {}
        /\ data' = [data EXCEPT ![1] = NoDir]
        /\ GoTo("mkdir")
        /\ UNCHANGED <<backup, todo, bounds>>
     \/ /\ ReturnError
        /\ UNCHANGED data
        /\ \/ Fault /\ UNCHANGED backup
           \/ (Fault \/ Killed) /\ \E a \in todo : backup' = [backup EXCEPT ![a] = 0]
  /\ UNCHANGED <<reg, later, windows, current, new, history>>

(* An empty DataFolder, and the callback is done.                          *)
MakeDataFolder ==
  /\ pc = "mkdir"
  /\ \/ /\ data' = [data EXCEPT ![1] = IF @ = NoDir THEN EmptyDir ELSE @]
        /\ ReturnSuccess
        /\ UNCHANGED bounds
     \/ Fault /\ ReturnError /\ UNCHANGED data
  /\ UNCHANGED <<reg, later, backup, windows, current, new, history>>

(* Linux: vmAppInstallCallback of the new version. Whatever happens, it    *)
(* returns no error. On Windows it does nothing.                           *)
InService ==
  /\ stage' = "service"
  /\ current' = new
  /\ pc' = "none"
  /\ todo' = {}

Restore ==
  /\ pc = "restore"
  /\ \/ /\ windows \/ backup = NoDir
        /\ InService
        /\ UNCHANGED <<data, backup, clean, bounds>>
     \/ /\ ~windows /\ backup # NoDir /\ data[1] = NoDir
        /\ data' = [data EXCEPT ![1] = backup]
        /\ backup' = NoDir
        /\ InService
        /\ UNCHANGED <<clean, bounds>>
     \/ /\ ~windows /\ backup # NoDir /\ data[1] # NoDir
        /\ todo' = Holds(backup)
        /\ pc' = "remerge"
        /\ UNCHANGED <<data, backup, stage, current, clean, bounds>>
     \/ /\ ~windows /\ backup # NoDir
        /\ Fault
        /\ InService
        /\ clean' = FALSE
        /\ UNCHANGED <<data, backup>>
  /\ UNCHANGED <<reg, later, windows, new, prev, content, truth, sound>>

MergeBackup ==
  /\ pc = "remerge"
  /\ \/ \E a \in todo :
          /\ data' = [data EXCEPT ![1] = PreferDestination(data[1], backup, a)]
          /\ backup' = Left(data[1], backup, a, FALSE)
          /\ todo' = todo \ {a}
          /\ UNCHANGED <<stage, current, pc, clean, bounds>>
     \/ /\ todo = {}
        /\ backup' = NoDir
        /\ InService
        /\ UNCHANGED <<data, clean, bounds>>
     \/ /\ Fault
        /\ InService
        /\ clean' = FALSE
        /\ UNCHANGED <<data, backup>>
  /\ UNCHANGED <<reg, later, windows, new, prev, content, truth, sound>>

-----------------------------------------------------------------------------
(* Windows: moveDownloadDirToCurrentVersion copies the entries of all other *)
(* versions, directory by directory, in the order of their names; errors   *)
(* of robocopy are only logged. An error before the first ends it.         *)

(* The files of an installed application, in a DataFolder.                 *)
Has(d, a) == d # NoDir /\ d[a] = truth[a]

(* The files of another version come over those that are installed.        *)
Overwrites(v) ==
  \E a \in Holds(data[v]) : truth[a] # 0 /\ Has(data[new], a) /\ ~Has(data[v], a)

CopyDownloads ==
  /\ pc = "downloads"
  /\ \/ \E v \in todo : \E copied \in SUBSET Holds(data[v]) :
          /\ data' = [data EXCEPT ![new] =
               [a \in Apps |-> IF a \in copied THEN data[v][a]
                               ELSE IF data[new] = NoDir THEN 0 ELSE data[new][a]]]
          /\ todo' = todo \ {v}
          /\ GoTo("downloads")
          /\ \/ copied = Holds(data[v]) /\ clean' = (clean /\ ~Overwrites(v)) /\ UNCHANGED bounds
             \/ copied # Holds(data[v]) /\ Fault /\ clean' = FALSE
     \/ /\ todo = {}
        /\ GoTo("rewrite")
        /\ UNCHANGED <<data, todo, clean, bounds>>
     \/ /\ todo = OtherFolders
        /\ Fault
        /\ ReturnSuccess
        /\ clean' = FALSE
        /\ UNCHANGED data
  /\ UNCHANGED <<reg, later, backup, windows, current, new, truth, sound>>

(* updateDownloadDirInPackageRegistryFile.                                 *)
Rewritten ==
  [a \in Apps |-> [Read(reg[new])[a] EXCEPT !.home = IF @ = 0 THEN 0 ELSE new]]

LeaveRegistry(left) ==
  \/ left = reg[new] /\ UNCHANGED <<reg, later, sound>> /\ clean' = FALSE
  \/ left = Rewritten /\ WriteRegistry(new, left) /\ UNCHANGED <<sound, clean>>
  \/ left \in {Absent, Damaged} /\ WriteRegistry(new, left) /\ sound' = FALSE /\ clean' = FALSE

RewriteDownloadDirs ==
  /\ pc = "rewrite"
  /\ \/ /\ Read(reg[new]) = NoPackages
        /\ ReturnSuccess
        /\ UNCHANGED <<reg, later, sound, clean, bounds>>
     \/ /\ Read(reg[new]) # NoPackages
        /\ WriteRegistry(new, Rewritten)
        /\ ReturnSuccess
        /\ UNCHANGED <<sound, clean, bounds>>
     \/ /\ Read(reg[new]) # NoPackages
        /\ Fault
        /\ \E w \in Outcomes!FaultyWrites(reg[new], Rewritten) : LeaveRegistry(w.left)
        /\ ReturnSuccess
     \/ /\ Read(reg[new]) # NoPackages
        /\ Killed
        /\ \E left \in Outcomes!KilledWrites(reg[new], Rewritten) : LeaveRegistry(left)
        /\ ReturnError
  /\ UNCHANGED <<data, backup, windows, current, new, truth>>

-----------------------------------------------------------------------------
(* The process of a callback ends between two of its steps.                *)
Kill ==
  /\ \/ stage = "update" /\ pc \in {"clear", "downloads", "rewrite"} /\ KilledLate
     \/ /\ stage = "update" /\ pc \notin {"clear", "downloads", "rewrite", "failed"}
        /\ Killed
        /\ ReturnError
        /\ UNCHANGED clean
     \/ /\ stage = "install"
        /\ Killed
        /\ pc' = "restore"
        /\ todo' = {}
        /\ UNCHANGED <<stage, prev, content, clean>>
  /\ UNCHANGED <<files, windows, current, new, truth, sound>>

UpdateCallback ==
  \/ StatRegistry \/ PickRegistry \/ CopyRegistry \/ ClearRegistry
  \/ MoveData \/ MergeData \/ MakeDataFolder
  \/ CopyDownloads \/ RewriteDownloadDirs

Progress ==
  \/ RetryUpdate \/ UninstallOld
  \/ UpdateCallback
  \/ Restore \/ MergeBackup

Next ==
  \/ InstallApp \/ RemoveApp
  \/ StartUpdate
  \/ Progress
  \/ Kill

Spec == Init /\ [][Next]_vars

(* The guest agent goes on with an update it began, and a callback is      *)
(* sequential code that does not wait for anything.                        *)
FairSpec == Spec /\ WF_vars(Progress)

-----------------------------------------------------------------------------
TypeOK ==
  /\ windows \in BOOLEAN
  /\ reg \in [Versions -> Registries \cup {Absent, Damaged}]
  /\ later \subseteq Versions \X Versions
  /\ data \in [Versions -> Directories \cup {NoDir}]
  /\ backup \in Directories \cup {NoDir}
  /\ {current, new} \subseteq Versions
  /\ stage \in {"service", "update", "uninstall", "install"}
  /\ pc \in {"none", "failed", "stat", "pick", "copy", "clear", "move", "merge",
             "mkdir", "downloads", "rewrite", "restore", "remerge"}
  /\ prev \in Versions \cup {0}
  /\ content \in Registries \cup {Absent, Damaged}
  /\ todo \subseteq Apps \cup Versions
  /\ truth \in Directories
  /\ sound \in BOOLEAN
  /\ clean \in BOOLEAN
  /\ backup # NoDir => ~windows
  /\ pc \in {"downloads", "rewrite"} => windows
  /\ prev # 0 => stage = "update" /\ prev # new
  /\ kills \in 0..MaxKills
  /\ faults \in 0..MaxFaults

(* While an update goes on, and until the old version is uninstalled,      *)
(* nothing is lost: some version's registry lists what is installed, and   *)
(* the files of every application are in a DataFolder or its backup,       *)
(* wherever the callback is ended or fails, and with leftovers of an       *)
(* earlier update (update_linux.go:64-97, mvdirs_linux.go:53). The         *)
(* exception is a save of the registry that is cut on Windows              *)
(* (update_windows.go:175).                                                *)
NothingLostByUpdate ==
  stage \in {"update", "uninstall"} /\ sound =>
    /\ \E v \in Versions : Lists(reg[v])
    /\ \A a \in Apps : truth[a] # 0 => Kept(a)

(* An update that met none of its weak points hands everything over: the   *)
(* version in service has the registry, and the files where the registry   *)
(* and its own DataFolder say. The weak points are the steps that make     *)
(* `clean` FALSE.                                                          *)
CarriedOver ==
  stage = "service" /\ clean =>
    /\ Lists(reg[current])
    /\ \A a \in Apps : truth[a] # 0 =>
         /\ Has(data[Home(current)], a)
         /\ reg[current][a].home = Home(current)

(* An update ends, unless no version has a registry file: then the         *)
(* callback fails however often it is retried (update.go:96).              *)
UpdateEnds ==
  stage # "service" ~> stage = "service" \/ (stage = "update" /\ Others = {})

(* The claim of update_linux.go:82: no data is lost in the update process. *)
PackagesSurvive ==
  stage = "service" /\ ~windows =>
    \A a \in Apps : truth[a] # 0 =>
      data[1] # NoDir /\ data[1][a] = truth[a]
=============================================================================
