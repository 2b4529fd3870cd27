------------------------ MODULE ExtensionUpdateProofs ------------------------
(***************************************************************************)
(* Proofs about ExtensionUpdate, for any applications, versions, contents, *)
(* kills and errors.                                                       *)
(***************************************************************************)
EXTENDS ExtensionUpdate, TLAPS

UpdatePlaces == {"failed", "stat", "pick", "copy", "clear", "move", "merge", "mkdir",
                 "downloads", "rewrite"}

(* Where a callback is, and what it has by then.                           *)
Places ==
  /\ stage # "service" => current < new
  /\ stage \in {"service", "uninstall"} => pc = "none"
  /\ stage = "update" => pc \in UpdatePlaces
  /\ stage = "install" => pc \in {"restore", "remerge"}
  /\ pc \in {"pick", "copy"} => reg[new] = Absent
  /\ pc = "copy" => prev \in Others /\ content = reg[prev]
  /\ pc = "clear" => prev \in Versions \ {new} /\ reg[new] = reg[prev] /\ reg[new] # Absent
  /\ pc \in {"move", "merge", "mkdir", "remerge"} => ~windows
  /\ pc = "merge" => data[1] # NoDir /\ backup # NoDir /\ todo = Holds(data[1])
  /\ pc = "remerge" => data[1] # NoDir /\ backup # NoDir /\ todo \subseteq Apps
  /\ pc = "downloads" => todo \subseteq OtherFolders

(* On Windows, no version has files that was not yet installed.            *)
NoneAhead ==
  windows => \A v \in Versions :
    v > (IF stage = "service" THEN current ELSE new) => data[v] = NoDir

(* On Linux, where DataFolder and backup both have files of an application, *)
(* those in the DataFolder are not the older ones.                         *)
NewerInData ==
  ~windows /\ data[1] # NoDir /\ backup # NoDir =>
    \A a \in Apps :
      data[1][a] # 0 /\ backup[a] # 0 /\ backup[a] = truth[a] => data[1][a] = truth[a]

(* While an update goes on: until the registry of the new version exists,  *)
(* that of the old one is untouched; some registry lists what is installed. *)
RegistryKept ==
  stage \in {"update", "uninstall"} /\ sound =>
    /\ stage = "update" /\ reg[new] = Absent => Lists(reg[current])
    /\ \E v \in Versions : Lists(reg[v])

(* The files are there, on Windows with another version than the new one,  *)
(* which copies may overwrite.                                             *)
FilesKept ==
  stage \in {"update", "uninstall"} /\ sound =>
    \A a \in Apps : truth[a] # 0 =>
      /\ Kept(a)
      /\ windows => \E v \in Versions \ {new} : data[v] # NoDir /\ data[v][a] = truth[a]

Inv == TypeOK /\ Places /\ NoneAhead /\ NewerInData /\ RegistryKept /\ FilesKept

-----------------------------------------------------------------------------
LEMMA Constants ==
  /\ LastVersion \in Nat \ {0}
  /\ MaxContent \in Nat /\ MaxKills \in Nat /\ MaxFaults \in Nat
  /\ Absent \notin Registries /\ Damaged \notin Registries /\ Absent # Damaged
  /\ NoDir \notin Directories
  /\ 1 \in Versions
  /\ NoPackages \in Registries
  /\ EmptyDir \in Directories
BY ConstantsAssumption DEF Versions, NoPackages, Registries, Entries, NotInstalled, EmptyDir,
   Directories

LEMMA ReadTypes ==
  ASSUME NEW r \in Registries \cup {Absent, Damaged}
  PROVE  Read(r) \in Registries
BY Constants DEF Read

LEMMA WriteTypes ==
  ASSUME TypeOK, NEW v \in Versions, NEW r \in Registries \cup {Absent, Damaged},
         WriteRegistry(v, r)
  PROVE  /\ reg' \in [Versions -> Registries \cup {Absent, Damaged}]
         /\ later' \subseteq Versions \X Versions
         /\ reg'[v] = r
         /\ \A u \in Versions \ {v} : reg'[u] = reg[u]
BY DEF TypeOK, WriteRegistry

LEMMA BoundTypes ==
  ASSUME TypeOK, Fault \/ Killed \/ UNCHANGED bounds
  PROVE  kills' \in 0..MaxKills /\ faults' \in 0..MaxFaults
BY Constants DEF TypeOK, Fault, Killed, bounds

LEMMA DirTypes ==
  ASSUME NEW d \in Directories, NEW a \in Apps, NEW c \in Contents \cup {0}
  PROVE  /\ [d EXCEPT ![a] = c] \in Directories
         /\ [d EXCEPT ![a] = c] # NoDir
         /\ [d EXCEPT ![a] = c][a] = c
         /\ \A b \in Apps \ {a} : [d EXCEPT ![a] = c][b] = d[b]
BY Constants DEF Directories

LEMMA DataTypes ==
  ASSUME TypeOK, NEW v \in Versions, NEW d \in Directories \cup {NoDir},
         data' = [data EXCEPT ![v] = d]
  PROVE  /\ data' \in [Versions -> Directories \cup {NoDir}]
         /\ data'[v] = d
         /\ \A u \in Versions \ {v} : data'[u] = data[u]
BY DEF TypeOK

LEMMA EntryTypes ==
  ASSUME NEW r \in Registries, NEW a \in Apps, NEW e \in Entries
  PROVE  [r EXCEPT ![a] = e] \in Registries
BY DEF Registries

LEMMA HomeTypes ==
  ASSUME TypeOK
  PROVE  /\ Home(current) \in Versions
         /\ windows => Home(current) = current
         /\ ~windows => Home(current) = 1
BY Constants DEF TypeOK, Home

-----------------------------------------------------------------------------
(* The version in service.                                                 *)
LEMMA InstallAppStep == ASSUME Inv, InstallApp PROVE Inv'
<1> USE DEF Inv
<1> DEFINE d == IF data[Home(current)] = NoDir THEN EmptyDir ELSE data[Home(current)]
<1>1. PICK a \in Apps, c \in Contents :
        /\ data' = [data EXCEPT ![Home(current)] = [d EXCEPT ![a] = c]]
        /\ WriteRegistry(current,
             [Read(reg[current]) EXCEPT ![a] = [content |-> c, home |-> Home(current)]])
        /\ truth' = [truth EXCEPT ![a] = c]
  BY DEF InstallApp
<1>2. /\ stage = "service"
      /\ UNCHANGED <<agent, callback, backup, sound, clean, bounds>>
  BY DEF InstallApp
<1>3. d \in Directories
  BY Constants, HomeTypes DEF TypeOK
<1> DEFINE e == [d EXCEPT ![a] = c]
<1>4. /\ e \in Directories /\ e[a] = c
      /\ \A b \in Apps \ {a} : e[b] = d[b]
  BY <1>3, DirTypes
<1> HIDE DEF e, d
<1>5. /\ data' \in [Versions -> Directories \cup {NoDir}]
      /\ data'[Home(current)] = e
      /\ \A u \in Versions \ {Home(current)} : data'[u] = data[u]
  BY <1>1, <1>4, HomeTypes, DataTypes DEF e
<1>6. [content |-> c, home |-> Home(current)] \in Entries
  BY HomeTypes DEF Entries
<1>7. Read(reg[current]) \in Registries
  BY ReadTypes DEF TypeOK
<1>8. /\ reg' \in [Versions -> Registries \cup {Absent, Damaged}]
      /\ later' \subseteq Versions \X Versions
  BY <1>1, <1>6, <1>7, EntryTypes, WriteTypes DEF TypeOK
<1>9. truth' \in Directories /\ truth'[a] = c /\ \A b \in Apps \ {a} : truth'[b] = truth[b]
  <2>1. truth \in Directories
    BY DEF TypeOK
  <2> QED
    BY <1>1, <2>1 DEF Directories
<1>10. TypeOK'
  BY <1>2, <1>5, <1>8, <1>9, BoundTypes DEF TypeOK, agent, callback, history, bounds
<1>11. Places'
  BY <1>2 DEF Places, agent, callback
<1>12. NoneAhead'
  BY <1>2, <1>5, HomeTypes DEF NoneAhead, agent, TypeOK, Versions
<1>13. NewerInData'
  <2>1. SUFFICES ASSUME ~windows, backup # NoDir, NEW b \in Apps,
                        data'[1][b] # 0, backup[b] # 0, backup[b] = truth'[b]
                 PROVE  data'[1][b] = truth'[b]
    BY <1>2 DEF NewerInData, agent
  <2>2. data'[1] = e
    BY <1>5, <2>1, HomeTypes
  <2>3. CASE b = a
    BY <1>4, <1>9, <2>2, <2>3
  <2>4. CASE b # a
    <3>1. e[b] = d[b] /\ truth'[b] = truth[b]
      BY <1>4, <1>9, <2>4
    <3>2. data[1] # NoDir /\ d = data[1]
      BY <2>1, <2>2, <3>1, HomeTypes DEF d, EmptyDir
    <3> QED
      BY <2>1, <2>2, <3>1, <3>2 DEF NewerInData
  <2> QED
    BY <2>3, <2>4
<1>14. RegistryKept' /\ FilesKept'
  BY <1>2 DEF RegistryKept, FilesKept, agent
<1> QED
  BY <1>10, <1>11, <1>12, <1>13, <1>14

LEMMA RemoveAppStep == ASSUME Inv, RemoveApp PROVE Inv'
<1> USE DEF Inv
<1>1. PICK a \in Apps :
        /\ data' = IF data[Home(current)] = NoDir THEN data
                   ELSE [data EXCEPT ![Home(current)] = [@ EXCEPT ![a] = 0]]
        /\ WriteRegistry(current, [Read(reg[current]) EXCEPT ![a] = NotInstalled])
        /\ truth' = [truth EXCEPT ![a] = 0]
  BY DEF RemoveApp
<1>2. /\ stage = "service"
      /\ UNCHANGED <<agent, callback, backup, sound, clean, bounds>>
  BY DEF RemoveApp
<1>3. /\ data' \in [Versions -> Directories \cup {NoDir}]
      /\ \A u \in Versions : data[u] = NoDir => data'[u] = NoDir
      /\ \A u \in Versions : data[u] # NoDir =>
           \A b \in Apps \ {a} : data'[u][b] = data[u][b]
  BY <1>1, HomeTypes, DirTypes, DataTypes DEF TypeOK
<1>4. NotInstalled \in Entries
  BY DEF Entries, NotInstalled
<1>5. Read(reg[current]) \in Registries
  BY ReadTypes DEF TypeOK
<1>6. /\ reg' \in [Versions -> Registries \cup {Absent, Damaged}]
      /\ later' \subseteq Versions \X Versions
  BY <1>1, <1>4, <1>5, EntryTypes, WriteTypes DEF TypeOK
<1>7. truth' \in Directories /\ truth'[a] = 0 /\ \A b \in Apps \ {a} : truth'[b] = truth[b]
  <2>1. truth \in Directories
    BY DEF TypeOK
  <2> QED
    BY <1>1, <2>1 DEF Directories
<1>8. TypeOK'
  BY <1>2, <1>3, <1>6, <1>7, BoundTypes DEF TypeOK, agent, callback, history, bounds
<1>9. Places' /\ RegistryKept' /\ FilesKept'
  BY <1>2 DEF Places, RegistryKept, FilesKept, agent, callback
<1>10. NoneAhead'
  BY <1>2, <1>3 DEF NoneAhead, agent
<1>11. NewerInData'
  BY <1>2, <1>3, <1>7, Constants DEF NewerInData, agent
<1> QED
  BY <1>8, <1>9, <1>10, <1>11

-----------------------------------------------------------------------------
(* The guest agent.                                                        *)
LEMMA StartUpdateStep == ASSUME Inv, StartUpdate PROVE Inv'
<1> USE DEF Inv
<1>1. PICK v \in Versions : v > current /\ new' = v
  BY DEF StartUpdate
<1>2. /\ stage = "service" /\ stage' = "update" /\ pc' = "stat"
      /\ sound' = (Lists(reg[current]) /\ \A a \in Apps : truth[a] # 0 => Kept(a))
      /\ clean' = sound'
      /\ UNCHANGED <<files, windows, current, prev, content, todo, truth, bounds>>
  BY DEF StartUpdate
<1>3. current \in Nat /\ v \in Nat /\ current \in Versions
  BY DEF TypeOK, Versions
<1>4. prev = 0 /\ pc = "none"
  BY <1>2 DEF TypeOK, Places
<1>5. TypeOK'
  BY <1>1, <1>2, <1>4, BoundTypes DEF TypeOK, files, bounds
<1>6. Places'
  BY <1>1, <1>2, <1>3 DEF Places, UpdatePlaces, files
<1>7. NoneAhead'
  <2>1. ASSUME windows, NEW u \in Versions, u > v PROVE data[u] = NoDir
    <3>1. u > current
      BY <1>1, <1>3, <2>1 DEF Versions
    <3> QED
      BY <1>2, <2>1, <3>1 DEF NoneAhead
  <2> QED
    BY <1>1, <1>2, <2>1 DEF NoneAhead, files
<1>8. NewerInData'
  BY <1>2 DEF NewerInData, files
<1>9. RegistryKept'
  BY <1>2, <1>3 DEF RegistryKept, Lists, Read, files
<1>10. FilesKept'
  <2>1. SUFFICES ASSUME sound', NEW a \in Apps, truth[a] # 0
                 PROVE  /\ Kept(a)
                        /\ windows => \E u \in Versions \ {v} :
                             data[u] # NoDir /\ data[u][a] = truth[a]
    BY <1>1, <1>2 DEF FilesKept, Kept, files
  <2>2. Kept(a)
    BY <1>2, <2>1
  <2>3. windows => data[v] = NoDir /\ backup = NoDir
    BY <1>1, <1>2 DEF NoneAhead, TypeOK
  <2> QED
    BY <2>2, <2>3 DEF Kept
<1> QED
  BY <1>5, <1>6, <1>7, <1>8, <1>9, <1>10

LEMMA RetryUpdateStep == ASSUME Inv, RetryUpdate PROVE Inv'
<1> USE DEF Inv
<1>1. TypeOK'
  BY BoundTypes DEF RetryUpdate, TypeOK, files, agent, history
<1>2. Places'
  BY DEF RetryUpdate, Places, UpdatePlaces, agent
<1>3. NoneAhead'
  BY DEF RetryUpdate, NoneAhead, files, agent
<1>4. NewerInData'
  BY DEF RetryUpdate, NewerInData, files, agent, history
<1>5. RegistryKept'
  BY DEF RetryUpdate, RegistryKept, Lists, files, agent, history
<1>6. FilesKept'
  BY DEF RetryUpdate, FilesKept, Kept, files, agent, history
<1> QED
  BY <1>1, <1>2, <1>3, <1>4, <1>5, <1>6

LEMMA UninstallOldStep == ASSUME Inv, UninstallOld PROVE Inv'
<1> USE DEF Inv
<1>1. TypeOK'
  BY BoundTypes DEF UninstallOld, TypeOK
<1>2. Places'
  BY DEF UninstallOld, Places
<1>3. NoneAhead'
  BY DEF UninstallOld, TypeOK, NoneAhead
<1>4. NewerInData'
  BY DEF UninstallOld, TypeOK, NewerInData
<1>5. RegistryKept'
  BY DEF UninstallOld, RegistryKept
<1>6. FilesKept'
  BY DEF UninstallOld, FilesKept
<1> QED
  BY <1>1, <1>2, <1>3, <1>4, <1>5, <1>6

-----------------------------------------------------------------------------
(* The update callback: the registry.                                      *)
LEMMA StatRegistryStep == ASSUME Inv, StatRegistry PROVE Inv'
<1> USE DEF Inv
<1>1. TypeOK'
  BY BoundTypes DEF StatRegistry, ReturnSuccess, GoTo, TypeOK, files
<1>2. Places'
  BY DEF StatRegistry, ReturnSuccess, GoTo, Places, UpdatePlaces, files
<1>3. NoneAhead'
  BY DEF StatRegistry, ReturnSuccess, GoTo, Places, NoneAhead, files
<1>4. NewerInData'
  BY DEF StatRegistry, NewerInData, files
<1>5. RegistryKept'
  BY DEF StatRegistry, TypeOK, Places, RegistryKept, Lists, files
<1>6. FilesKept'
  BY DEF StatRegistry, TypeOK, Places, FilesKept, Kept, files
<1> QED
  BY <1>1, <1>2, <1>3, <1>4, <1>5, <1>6

LEMMA PickRegistryStep == ASSUME Inv, PickRegistry PROVE Inv'
<1> USE DEF Inv
<1>1. TypeOK'
  <2>1. stage = "update"
    BY DEF PickRegistry, Places, TypeOK
  <2>2. \A seen \in SUBSET Others, u \in Versions :
          MostRecent(u, seen) => u # new /\ reg[u] \in Registries \cup {Absent, Damaged}
    BY DEF MostRecent, Others, TypeOK
  <2> QED
    BY <2>1, <2>2, BoundTypes DEF PickRegistry, ReturnError, TypeOK, files, history, bounds
<1>2. Places'
  BY DEF PickRegistry, ReturnError, MostRecent, Places, UpdatePlaces, Others, files
<1>3. NoneAhead'
  BY DEF PickRegistry, ReturnError, NoneAhead, files
<1>4. NewerInData'
  BY DEF PickRegistry, NewerInData, files
<1>5. RegistryKept'
  BY DEF PickRegistry, ReturnError, RegistryKept, Lists, files
<1>6. FilesKept'
  BY DEF PickRegistry, ReturnError, FilesKept, Kept, files
<1> QED
  BY <1>1, <1>2, <1>3, <1>4, <1>5, <1>6

LEMMA CopyRegistryStep == ASSUME Inv, CopyRegistry PROVE Inv'
<1> USE DEF Inv
<1>1. TypeOK'
  <2>1. stage = "update"
    BY DEF CopyRegistry, Places, TypeOK
  <2>2. /\ reg' \in [Versions -> Registries \cup {Absent, Damaged}]
        /\ later' \subseteq Versions \X Versions
    <3>1. {content, Damaged} \subseteq Registries \cup {Absent, Damaged} /\ new \in Versions
      BY DEF TypeOK
    <3>2. \/ WriteRegistry(new, content) \/ WriteRegistry(new, Damaged) \/ UNCHANGED <<reg, later>>
      BY DEF CopyRegistry
    <3>3. CASE WriteRegistry(new, content) \/ WriteRegistry(new, Damaged)
      BY <3>1, <3>3, WriteTypes
    <3>4. CASE UNCHANGED <<reg, later>>
      BY <3>4 DEF TypeOK
    <3> QED
      BY <3>2, <3>3, <3>4
  <2>3. Fault \/ Killed \/ UNCHANGED bounds
    BY DEF CopyRegistry
  <2>4. kills' \in 0..MaxKills /\ faults' \in 0..MaxFaults
    BY <2>3, BoundTypes
  <2> QED
    BY <2>1, <2>2, <2>4, Constants DEF CopyRegistry, ReturnError, GoTo, TypeOK, files, history
<1>2. Places'
  <2>1. stage = "update" /\ prev \in Others /\ content = reg[prev] /\ reg[prev] # Absent
    BY DEF CopyRegistry, Places, Others, TypeOK
  <2>2. CASE WriteRegistry(new, content) /\ GoTo("clear")
    <3>1. reg'[new] = content /\ reg'[prev] = reg[prev]
      BY <2>1, <2>2, WriteTypes DEF TypeOK, Others
    <3> QED
      BY <2>1, <2>2, <3>1 DEF CopyRegistry, GoTo, Places, UpdatePlaces, Others
  <2>3. CASE ReturnError
    BY <2>1, <2>3 DEF CopyRegistry, ReturnError, Places, UpdatePlaces
  <2> QED
    BY <2>2, <2>3 DEF CopyRegistry
<1>3. NoneAhead'
  BY DEF CopyRegistry, ReturnError, GoTo, NoneAhead
<1>4. NewerInData'
  BY DEF CopyRegistry, NewerInData
<1>5. RegistryKept'
  <2>1. stage = "update" /\ reg[new] = Absent /\ current \in Versions \ {new}
    BY DEF CopyRegistry, Places, TypeOK, Versions
  <2>2. /\ stage' = stage /\ reg'[current] = reg[current]
        /\ UNCHANGED <<current, new, truth, sound>>
    <3>1. {content, Damaged} \subseteq Registries \cup {Absent, Damaged} /\ new \in Versions
      BY DEF TypeOK
    <3>2. \/ WriteRegistry(new, content) \/ WriteRegistry(new, Damaged) \/ UNCHANGED reg
      BY DEF CopyRegistry
    <3>3. reg'[current] = reg[current]
      BY <2>1, <3>1, <3>2, WriteTypes
    <3> QED
      BY <3>3 DEF CopyRegistry, ReturnError, GoTo
  <2> QED
    BY <2>1, <2>2 DEF RegistryKept, Lists
<1>6. FilesKept'
  BY DEF CopyRegistry, ReturnError, GoTo, FilesKept, Kept
<1> QED
  BY <1>1, <1>2, <1>3, <1>4, <1>5, <1>6

LEMMA ClearRegistryStep == ASSUME Inv, ClearRegistry PROVE Inv'
<1> USE DEF Inv
<1>1. stage = "update" /\ stage' = stage /\ prev \in Versions \ {new}
  BY DEF ClearRegistry, Places, GoTo, KilledLate, ReturnError, TypeOK
<1>2. /\ reg' \in [Versions -> Registries \cup {Absent, Damaged}]
      /\ later' \subseteq Versions \X Versions
      /\ \A u \in Versions \ {prev} : reg'[u] = reg[u]
  <2>1. WriteRegistry(prev, NoPackages) \/ WriteRegistry(prev, Damaged) \/ UNCHANGED <<reg, later>>
    BY DEF ClearRegistry
  <2>2. CASE WriteRegistry(prev, NoPackages) \/ WriteRegistry(prev, Damaged)
    BY <1>1, <2>2, WriteTypes, Constants
  <2>3. CASE UNCHANGED <<reg, later>>
    BY <2>3 DEF TypeOK
  <2> QED
    BY <2>1, <2>2, <2>3
<1>3. /\ UNCHANGED <<data, backup, windows, current, new, truth, sound>>
      /\ Fault \/ Killed \/ UNCHANGED bounds
  BY DEF ClearRegistry, KilledLate
<1>4. TypeOK'
  <2>1. kills' \in 0..MaxKills /\ faults' \in 0..MaxFaults
    BY <1>3, BoundTypes
  <2>2. OtherFolders \subseteq Versions
    BY DEF OtherFolders
  <2>3. /\ prev' \in {prev, 0} /\ content' \in {content, Absent}
        /\ todo' \in {OtherFolders, {}} /\ clean' \in BOOLEAN
        /\ pc' \in {"downloads", "move", "failed"} /\ (pc' = "downloads" => windows)
    BY DEF ClearRegistry, GoTo, KilledLate, ReturnError, TypeOK
  <2> QED
    BY <1>1, <1>2, <1>3, <2>1, <2>2, <2>3 DEF TypeOK
<1>5. Places'
  <2>1. pc' \in {"downloads", "move", "failed"}
    BY DEF ClearRegistry, GoTo, KilledLate, ReturnError
  <2>2. pc' = "downloads" => todo' = OtherFolders
    BY DEF ClearRegistry, GoTo, KilledLate, ReturnError
  <2>3. pc' = "move" => ~windows
    BY DEF ClearRegistry, GoTo, KilledLate, ReturnError
  <2> QED
    BY <1>1, <1>3, <2>1, <2>2, <2>3 DEF Places, UpdatePlaces, OtherFolders
<1>6. NoneAhead' /\ NewerInData' /\ FilesKept'
  BY <1>1, <1>3 DEF NoneAhead, NewerInData, FilesKept, Kept
<1>7. RegistryKept'
  <2>1. SUFFICES ASSUME sound PROVE reg'[new] # Absent /\ \E v \in Versions : Lists(reg'[v])
    BY <1>1, <1>3 DEF RegistryKept, Lists
  <2>2. /\ reg[new] = reg[prev] /\ reg[new] # Absent /\ new \in Versions
        /\ reg'[new] = reg[new]
    BY <1>1, <1>2 DEF ClearRegistry, Places, TypeOK
  <2>3. PICK v \in Versions : Lists(reg[v])
    BY <1>1, <2>1 DEF RegistryKept
  <2>4. \E u \in Versions : reg'[u] = reg[v]
    BY <1>2, <2>2
  <2> QED
    BY <2>2, <2>3, <2>4, <1>3 DEF Lists
<1> QED
  BY <1>4, <1>5, <1>6, <1>7

-----------------------------------------------------------------------------
(* Linux: DataFolder to backup, and back when the new version is installed. *)
LEMMA MoveDataStep == ASSUME Inv, MoveData PROVE Inv'
<1> USE DEF Inv
<1>1. TypeOK'
  <2>1. data[1] \in Directories \cup {NoDir} /\ Holds(data[1]) \subseteq Apps
    BY Constants DEF TypeOK, Holds
  <2>2. data' = data \/ data' = [data EXCEPT ![1] = NoDir]
    BY DEF MoveData
  <2>3. data' \in [Versions -> Directories \cup {NoDir}]
    BY <2>2 DEF TypeOK
  <2>4. kills' \in 0..MaxKills /\ faults' \in 0..MaxFaults
    BY BoundTypes DEF MoveData
  <2>5. stage' = "update" /\ ~windows /\ stage = "update"
    BY DEF MoveData, Places, GoTo, ReturnError, TypeOK
  <2> QED
    BY <2>1, <2>3, <2>4, <2>5 DEF MoveData, GoTo, ReturnError, TypeOK, history
<1>2. Places'
  BY DEF MoveData, GoTo, ReturnError, Places, UpdatePlaces
<1>3. NoneAhead'
  BY DEF MoveData, Places, NoneAhead
<1>4. NewerInData'
  BY DEF MoveData, TypeOK, NewerInData, history
<1>5. RegistryKept'
  BY DEF MoveData, GoTo, ReturnError, RegistryKept, Lists, history
<1>6. FilesKept'
  BY DEF MoveData, TypeOK, Places, FilesKept, Kept, history
<1> QED
  BY <1>1, <1>2, <1>3, <1>4, <1>5, <1>6

LEMMA MergeDataStep == ASSUME Inv, MergeData PROVE Inv'
<1> USE DEF Inv
<1>1. /\ stage = "update" /\ stage' = stage /\ ~windows
      /\ data[1] # NoDir /\ backup # NoDir /\ todo = Holds(data[1])
      /\ data[1] \in Directories /\ backup \in Directories
      /\ UNCHANGED <<reg, later, windows, current, new, history>>
  BY Constants DEF MergeData, Places, TypeOK, GoTo, ReturnError
<1>2. kills' \in 0..MaxKills /\ faults' \in 0..MaxFaults
  BY BoundTypes DEF MergeData
<1>3. CASE \E a \in todo :
             /\ backup' = PreferSource(backup, data[1], a)
             /\ data' = [data EXCEPT ![1] = Left(backup, data[1], a, TRUE)]
             /\ todo' = todo \ {a}
             /\ GoTo("merge")
  <2>1. PICK a \in todo :
          /\ backup' = [backup EXCEPT ![a] = data[1][a]]
          /\ data' = [data EXCEPT ![1] = [data[1] EXCEPT ![a] = 0]]
          /\ todo' = todo \ {a}
          /\ GoTo("merge")
    BY <1>3 DEF PreferSource, Left
  <2>2. a \in Apps /\ data[1][a] \in Contents \cup {0} /\ data[1][a] # 0
    BY <1>1 DEF Holds, Directories
  <2>3. /\ backup' \in Directories /\ backup' # NoDir /\ backup'[a] = data[1][a]
        /\ \A b \in Apps \ {a} : backup'[b] = backup[b]
    BY <1>1, <2>1, <2>2, Constants DEF Directories
  <2> DEFINE d == [data[1] EXCEPT ![a] = 0]
  <2>4. d \in Directories /\ d # NoDir /\ d[a] = 0 /\ \A b \in Apps \ {a} : d[b] = data[1][b]
    BY <1>1, <2>2, DirTypes
  <2>5. data' = [data EXCEPT ![1] = d]
    BY <2>1
  <2> HIDE DEF d
  <2>6. /\ data' \in [Versions -> Directories \cup {NoDir}]
        /\ data'[1] = d
        /\ \A u \in Versions \ {1} : data'[u] = data[u]
    BY <2>4, <2>5, Constants, DataTypes
  <2>7. TypeOK'
    BY <1>1, <1>2, <2>1, <2>3, <2>6 DEF TypeOK, GoTo, history
  <2>8. Holds(d) = Holds(data[1]) \ {a}
    BY <1>1, <2>4 DEF Holds
  <2>9. Places'
    BY <1>1, <2>1, <2>3, <2>4, <2>6, <2>8 DEF Places, GoTo, UpdatePlaces
  <2>10. NoneAhead' /\ RegistryKept'
    BY <1>1 DEF NoneAhead, RegistryKept, Lists, history
  <2>11. NewerInData'
    BY <1>1, <2>3, <2>4, <2>6 DEF NewerInData, history
  <2>12. FilesKept'
    <3>1. SUFFICES ASSUME sound, NEW b \in Apps, truth[b] # 0 PROVE Kept(b)'
      BY <1>1 DEF FilesKept, history
    <3>2. Kept(b)
      BY <1>1, <3>1 DEF FilesKept
    <3>3. CASE \E v \in Versions : data[v] # NoDir /\ data[v][b] = truth[b]
      <4>1. PICK v \in Versions : data[v] # NoDir /\ data[v][b] = truth[b]
        BY <3>3
      <4>2. CASE v # 1
        BY <1>1, <2>6, <4>1, <4>2 DEF Kept, history
      <4>3. CASE v = 1 /\ b = a
        BY <1>1, <2>3, <4>1, <4>3 DEF Kept, history
      <4>4. CASE v = 1 /\ b # a
        BY <1>1, <2>4, <2>6, <4>1, <4>4 DEF Kept, history
      <4> QED
        BY <4>2, <4>3, <4>4
    <3>4. CASE backup[b] = truth[b]
      <4>1. CASE b = a
        BY <1>1, <2>2, <2>3, <3>1, <3>4, <4>1 DEF NewerInData, Kept, history
      <4>2. CASE b # a
        BY <1>1, <2>3, <3>4, <4>2 DEF Kept, history
      <4> QED
        BY <4>1, <4>2
    <3> QED
      BY <3>2, <3>3, <3>4 DEF Kept
  <2> QED
    BY <2>7, <2>9, <2>10, <2>11, <2>12
<1>4. CASE /\ todo = {}
           /\ data' = [data EXCEPT ![1] = NoDir]
           /\ GoTo("mkdir")
           /\ UNCHANGED <<backup, todo>>
  <2>1. /\ data' \in [Versions -> Directories \cup {NoDir}]
        /\ data'[1] = NoDir
        /\ \A u \in Versions \ {1} : data'[u] = data[u]
    BY <1>4, Constants, DataTypes
  <2>2. TypeOK'
    BY <1>1, <1>2, <1>4, <2>1 DEF TypeOK, GoTo, history
  <2>3. Places' /\ NoneAhead' /\ RegistryKept' /\ NewerInData'
    BY <1>1, <1>4, <2>1 DEF Places, UpdatePlaces, NoneAhead, RegistryKept, NewerInData, Lists,
       GoTo, history
  <2>4. \A b \in Apps : truth[b] # 0 /\ Kept(b) => Kept(b)'
    BY <1>1, <1>4, <2>1 DEF Kept, Holds, history
  <2>5. FilesKept'
    BY <1>1, <2>4 DEF FilesKept, history
  <2> QED
    BY <2>2, <2>3, <2>5
<1>5. CASE /\ ReturnError
           /\ UNCHANGED data
           /\ \/ UNCHANGED backup
              \/ \E a \in todo : backup' = [backup EXCEPT ![a] = 0]
  <2>1. /\ backup' \in Directories /\ backup' # NoDir
        /\ \A b \in Apps : backup'[b] = backup[b] \/ (backup'[b] = 0 /\ data[1][b] # 0)
    <3>1. CASE UNCHANGED backup
      BY <1>1, <3>1
    <3>2. CASE \E a \in todo : backup' = [backup EXCEPT ![a] = 0]
      BY <1>1, <3>2, Constants DEF Holds, Directories
    <3> QED
      BY <1>5, <3>1, <3>2
  <2>2. TypeOK'
    BY <1>1, <1>2, <1>5, <2>1 DEF TypeOK, ReturnError, history
  <2>3. Places' /\ NoneAhead' /\ RegistryKept'
    BY <1>1, <1>5
    DEF Places, UpdatePlaces, NoneAhead, RegistryKept, Lists, ReturnError, history
  <2>4. NewerInData'
    BY <1>1, <1>5, <2>1 DEF NewerInData, history
  <2>5. \A b \in Apps : truth[b] # 0 /\ Kept(b) => Kept(b)'
    <3>1. SUFFICES ASSUME NEW b \in Apps, truth[b] # 0, Kept(b) PROVE Kept(b)'
      OBVIOUS
    <3>2. CASE backup[b] = truth[b] /\ data[1][b] # 0
      BY <1>1, <1>5, <3>1, <3>2, Constants DEF NewerInData, Kept, history
    <3> QED
      BY <1>1, <1>5, <2>1, <3>1, <3>2 DEF Kept, history
  <2>6. FilesKept'
    BY <1>1, <2>5 DEF FilesKept, history
  <2> QED
    BY <2>2, <2>3, <2>4, <2>6
<1> QED
  BY <1>3, <1>4, <1>5 DEF MergeData

LEMMA MakeDataFolderStep == ASSUME Inv, MakeDataFolder PROVE Inv'
<1> USE DEF Inv
<1>1. TypeOK'
  BY BoundTypes, Constants DEF MakeDataFolder, ReturnSuccess, ReturnError, TypeOK, history
<1>2. Places'
  BY DEF MakeDataFolder, ReturnSuccess, ReturnError, Places, UpdatePlaces
<1>3. NoneAhead'
  BY DEF MakeDataFolder, Places, NoneAhead
<1>4. NewerInData'
  <2>1. \/ UNCHANGED data
        \/ data[1] # NoDir /\ data'[1] = data[1]
        \/ data'[1] = EmptyDir
    BY Constants DEF MakeDataFolder, TypeOK
  <2> QED
    BY <2>1 DEF MakeDataFolder, NewerInData, EmptyDir, history
<1>5. RegistryKept'
  BY DEF MakeDataFolder, TypeOK, Places, RegistryKept, Lists, history
<1>6. FilesKept'
  BY DEF MakeDataFolder, TypeOK, Places, FilesKept, Kept, history
<1> QED
  BY <1>1, <1>2, <1>3, <1>4, <1>5, <1>6

LEMMA RestoreStep == ASSUME Inv, Restore PROVE Inv'
<1> USE DEF Inv
<1>1. TypeOK'
  <2>1. data' = data \/ (backup # NoDir /\ data' = [data EXCEPT ![1] = backup])
    BY DEF Restore
  <2>2. data' \in [Versions -> Directories \cup {NoDir}]
    BY <2>1 DEF TypeOK
  <2>3. Holds(backup) \subseteq Apps
    BY DEF Holds
  <2>4. kills' \in 0..MaxKills /\ faults' \in 0..MaxFaults
    BY BoundTypes DEF Restore
  <2>5. prev = 0
    BY DEF Restore, Places, UpdatePlaces, TypeOK
  <2> QED
    BY <2>2, <2>3, <2>4, <2>5 DEF Restore, InService, TypeOK
<1>2. Places'
  BY DEF Restore, InService, Places, UpdatePlaces, Holds
<1>3. NoneAhead'
  BY DEF Restore, InService, Places, NoneAhead
<1>4. NewerInData'
  BY DEF Restore, NewerInData
<1>5. RegistryKept'
  BY DEF Restore, InService, RegistryKept, Lists
<1>6. FilesKept'
  BY DEF Restore, InService, FilesKept, Kept
<1> QED
  BY <1>1, <1>2, <1>3, <1>4, <1>5, <1>6

LEMMA MergeBackupStep == ASSUME Inv, MergeBackup PROVE Inv'
<1> USE DEF Inv
<1>1. /\ stage = "install" /\ stage' \in {"install", "service"} /\ ~windows
      /\ data[1] # NoDir /\ backup # NoDir /\ todo \subseteq Apps
      /\ data[1] \in Directories /\ backup \in Directories
      /\ prev = 0 /\ current < new /\ pc = "remerge"
      /\ UNCHANGED <<reg, later, windows, new, prev, content, truth, sound>>
  BY Constants DEF MergeBackup, Places, UpdatePlaces, TypeOK, InService
<1>2. kills' \in 0..MaxKills /\ faults' \in 0..MaxFaults
  BY BoundTypes DEF MergeBackup
<1>3. NoneAhead' /\ RegistryKept' /\ FilesKept'
  BY <1>1 DEF NoneAhead, RegistryKept, FilesKept
<1>4. CASE \E a \in todo :
             /\ data' = [data EXCEPT ![1] = PreferDestination(data[1], backup, a)]
             /\ backup' = Left(data[1], backup, a, FALSE)
             /\ todo' = todo \ {a}
             /\ UNCHANGED <<stage, current, pc, clean, bounds>>
  <2>1. PICK a \in todo :
          /\ data' = [data EXCEPT ![1] = PreferDestination(data[1], backup, a)]
          /\ backup' = Left(data[1], backup, a, FALSE)
          /\ todo' = todo \ {a}
          /\ UNCHANGED <<stage, current, pc, clean, bounds>>
    BY <1>4
  <2> DEFINE d == PreferDestination(data[1], backup, a)
  <2>2. a \in Apps /\ data[1][a] \in Contents \cup {0} /\ backup[a] \in Contents \cup {0}
    BY <1>1 DEF Directories
  <2>3. /\ d \in Directories /\ d # NoDir
        /\ d[a] = (IF data[1][a] # 0 THEN data[1][a] ELSE backup[a])
        /\ \A b \in Apps \ {a} : d[b] = data[1][b]
    BY <1>1, <2>2, DirTypes DEF PreferDestination
  <2>4. /\ backup' \in Directories /\ backup' # NoDir
        /\ backup'[a] = (IF data[1][a] = 0 THEN 0 ELSE backup[a])
        /\ \A b \in Apps \ {a} : backup'[b] = backup[b]
    <3>1. backup' = [backup EXCEPT ![a] = IF data[1][a] = 0 THEN 0 ELSE backup[a]]
      BY <2>1 DEF Left
    <3> QED
      BY <1>1, <2>2, <3>1, Constants DEF Directories
  <2>5. data' = [data EXCEPT ![1] = d]
    BY <2>1
  <2> HIDE DEF d
  <2>6. data' \in [Versions -> Directories \cup {NoDir}] /\ data'[1] = d
    BY <2>3, <2>5, Constants, DataTypes
  <2>7. TypeOK'
    BY <1>1, <1>2, <2>1, <2>4, <2>6 DEF TypeOK
  <2>8. Places'
    BY <1>1, <2>1, <2>3, <2>4, <2>6 DEF Places
  <2>9. NewerInData'
    BY <1>1, <2>3, <2>4, <2>6 DEF NewerInData
  <2> QED
    BY <1>3, <2>7, <2>8, <2>9
<1>5. CASE InService /\ UNCHANGED data /\ backup' \in {backup, NoDir}
  <2>1. clean' \in BOOLEAN
    BY DEF TypeOK, MergeBackup
  <2>2. TypeOK'
    BY <1>1, <1>2, <1>5, <2>1 DEF TypeOK, InService
  <2>3. Places' /\ NewerInData'
    BY <1>1, <1>5 DEF Places, NewerInData, InService
  <2> QED
    BY <1>3, <2>2, <2>3
<1> QED
  BY <1>4, <1>5 DEF MergeBackup

-----------------------------------------------------------------------------
(* Windows: the copies, and the DownloadDirs.                              *)
LEMMA CopyDownloadsStep == ASSUME Inv, CopyDownloads PROVE Inv'
<1> USE DEF Inv
<1>1. TypeOK'
  <2>1. data' \in [Versions -> Directories \cup {NoDir}]
    <3>1. CASE UNCHANGED data
      BY <3>1 DEF TypeOK
    <3>2. ASSUME NEW v \in todo, NEW copied \in SUBSET Holds(data[v])
          PROVE  [a \in Apps |-> IF a \in copied THEN data[v][a]
                                 ELSE IF data[new] = NoDir THEN 0 ELSE data[new][a]]
                 \in Directories
      <4>1. data[v] \in Directories
        BY Constants DEF CopyDownloads, Places, OtherFolders, TypeOK
      <4>2. data[new] \in Directories \cup {NoDir}
        BY DEF TypeOK
      <4> QED
        BY <4>1, <4>2 DEF Directories
    <3> HIDE DEF Inv
    <3>3. data \in [Versions -> Directories \cup {NoDir}]
      BY DEF Inv, TypeOK
    <3> QED
      BY <3>1, <3>2, <3>3 DEF CopyDownloads
  <2>2. kills' \in 0..MaxKills /\ faults' \in 0..MaxFaults
    BY BoundTypes DEF CopyDownloads
  <2>3. stage = "update" /\ windows
    BY DEF CopyDownloads, Places, TypeOK
  <2>4. clean' \in BOOLEAN
    BY DEF CopyDownloads, TypeOK
  <2> QED
    BY <2>1, <2>2, <2>3, <2>4 DEF CopyDownloads, GoTo, ReturnSuccess, TypeOK
<1>2. Places'
  BY DEF CopyDownloads, GoTo, ReturnSuccess, TypeOK, Places, UpdatePlaces, OtherFolders
<1>3. NoneAhead'
  <2>1. \A u \in Versions \ {new} : data'[u] = data[u]
    BY DEF CopyDownloads, TypeOK
  <2>2. stage = "update" /\ stage' # "service" /\ new \in Versions
    BY DEF CopyDownloads, Places, GoTo, ReturnSuccess, TypeOK
  <2> QED
    BY <2>1, <2>2 DEF CopyDownloads, NoneAhead, Versions
<1>4. NewerInData'
  BY DEF CopyDownloads, TypeOK, NewerInData
<1>5. RegistryKept'
  BY DEF CopyDownloads, TypeOK, Places, RegistryKept, Lists
<1>6. FilesKept'
  BY DEF CopyDownloads, TypeOK, Places, FilesKept, Kept
<1> QED
  BY <1>1, <1>2, <1>3, <1>4, <1>5, <1>6

(* Rewriting the DownloadDirs changes no content.                          *)
LEMMA Rewriting ==
  ASSUME TypeOK
  PROVE  /\ Rewritten \in Registries
         /\ \A a \in Apps : Read(Rewritten)[a].content = Read(reg[new])[a].content
<1>1. Read(reg[new]) \in Registries
  BY ReadTypes DEF TypeOK
<1>2. \A a \in Apps : [Read(reg[new])[a] EXCEPT !.home = IF @ = 0 THEN 0 ELSE new] \in Entries
  BY <1>1 DEF TypeOK, Registries, Entries
<1>3. Rewritten \in Registries
  BY <1>2 DEF Rewritten, Registries
<1>4. Read(Rewritten) = Rewritten
  BY <1>3, Constants DEF Read
<1> QED
  BY <1>1, <1>3, <1>4 DEF Rewritten, Registries, Entries

LEMMA RewriteDownloadDirsStep == ASSUME Inv, RewriteDownloadDirs PROVE Inv'
<1> USE DEF Inv
<1>1. TypeOK'
  <2>1. Rewritten \in Registries
    BY Rewriting
  <2>2. /\ reg' \in [Versions -> Registries \cup {Absent, Damaged}]
        /\ later' \subseteq Versions \X Versions
    <3>1. \/ UNCHANGED <<reg, later>>
          \/ \E r \in {Rewritten, Absent, Damaged} : WriteRegistry(new, r)
      BY Constants DEF RewriteDownloadDirs, LeaveRegistry
    <3>2. CASE UNCHANGED <<reg, later>>
      BY <3>2 DEF TypeOK
    <3>3. CASE \E r \in {Rewritten, Absent, Damaged} : WriteRegistry(new, r)
      BY <2>1, <3>3, WriteTypes DEF TypeOK
    <3> QED
      BY <3>1, <3>2, <3>3
  <2>3. kills' \in 0..MaxKills /\ faults' \in 0..MaxFaults
    BY BoundTypes DEF RewriteDownloadDirs
  <2>4. stage = "update" /\ stage' \in {"update", "uninstall"} /\ pc' \in {"none", "failed"}
    BY DEF RewriteDownloadDirs, Places, ReturnSuccess, ReturnError, TypeOK
  <2>5. sound' \in BOOLEAN /\ clean' \in BOOLEAN
    BY DEF RewriteDownloadDirs, LeaveRegistry, TypeOK
  <2>6. prev' = 0 /\ content' = Absent /\ todo' = {}
    BY DEF RewriteDownloadDirs, ReturnSuccess, ReturnError
  <2>7. UNCHANGED <<data, backup, windows, current, new, truth>>
    BY DEF RewriteDownloadDirs
  <2> QED
    BY <2>2, <2>3, <2>4, <2>5, <2>6, <2>7 DEF TypeOK
<1>2. Places'
  BY DEF RewriteDownloadDirs, ReturnSuccess, ReturnError, Places, UpdatePlaces
<1>3. NoneAhead'
  BY DEF RewriteDownloadDirs, ReturnSuccess, ReturnError, Places, NoneAhead
<1>4. NewerInData'
  BY DEF RewriteDownloadDirs, NewerInData
<1>5. RegistryKept'
  <2>1. SUFFICES ASSUME sound'
                 PROVE  /\ stage' = "update" /\ reg'[new] = Absent => Lists(reg[current])
                        /\ reg'[current] = reg[current]
                        /\ \E v \in Versions : Lists(reg'[v])
    BY DEF RewriteDownloadDirs, RegistryKept, Lists
  <2>2. stage = "update" /\ current \in Versions \ {new}
    BY DEF RewriteDownloadDirs, Places, TypeOK, Versions
  <2>3. sound /\ (UNCHANGED reg \/ WriteRegistry(new, Rewritten))
    BY <2>1 DEF RewriteDownloadDirs, LeaveRegistry
  <2>4. /\ reg[new] = Absent => Lists(reg[current])
        /\ \E v \in Versions : Lists(reg[v])
    BY <2>2, <2>3 DEF RegistryKept
  <2>5. CASE UNCHANGED reg
    BY <2>2, <2>4, <2>5
  <2>6. CASE WriteRegistry(new, Rewritten)
    <3>1. /\ reg'[new] = Rewritten /\ Rewritten # Absent
          /\ \A u \in Versions \ {new} : reg'[u] = reg[u]
      BY <2>6, WriteTypes, Rewriting, Constants DEF TypeOK
    <3>2. Lists(reg[new]) => Lists(Rewritten)
      BY Rewriting DEF Lists
    <3> QED
      BY <2>2, <2>4, <3>1, <3>2
  <2> QED
    BY <2>3, <2>5, <2>6
<1>6. FilesKept'
  BY DEF RewriteDownloadDirs, LeaveRegistry, TypeOK, Places, FilesKept, Kept
<1> QED
  BY <1>1, <1>2, <1>3, <1>4, <1>5, <1>6

-----------------------------------------------------------------------------
(* The end of a process.                                                   *)
LEMMA KillStep == ASSUME Inv, Kill PROVE Inv'
<1> USE DEF Inv
<1>1. TypeOK'
  BY BoundTypes DEF Kill, KilledLate, ReturnError, TypeOK, files
<1>2. Places'
  BY DEF Kill, KilledLate, ReturnError, Places, UpdatePlaces
<1>3. NoneAhead'
  BY DEF Kill, KilledLate, ReturnError, NoneAhead, files
<1>4. NewerInData'
  BY DEF Kill, NewerInData, files
<1>5. RegistryKept'
  BY DEF Kill, RegistryKept, Lists, files
<1>6. FilesKept'
  BY DEF Kill, FilesKept, Kept, files
<1> QED
  BY <1>1, <1>2, <1>3, <1>4, <1>5, <1>6

-----------------------------------------------------------------------------
LEMMA InitInv == Init => Inv
<1> SUFFICES ASSUME Init PROVE Inv
  OBVIOUS
<1>1. \A a \in Apps : EmptyDir[a] = 0
  BY DEF EmptyDir
<1>2. TypeOK
  BY Constants DEF Init, TypeOK, Versions
<1>3. Places /\ NoneAhead /\ NewerInData /\ RegistryKept /\ FilesKept
  BY <1>1 DEF Init, Places, NoneAhead, NewerInData, RegistryKept, FilesKept
<1> QED
  BY <1>2, <1>3 DEF Inv

LEMMA NextInv == Inv /\ [Next]_vars => Inv'
<1> SUFFICES ASSUME Inv, [Next]_vars PROVE Inv'
  OBVIOUS
<1>1. CASE UNCHANGED vars
  BY <1>1 DEF vars, files, agent, callback, history, bounds, Inv, TypeOK, Places, NoneAhead,
     NewerInData, RegistryKept, FilesKept, Others, OtherFolders, Kept, Lists
<1>2. CASE Next
  BY <1>2, InstallAppStep, RemoveAppStep, StartUpdateStep, RetryUpdateStep, UninstallOldStep,
     StatRegistryStep, PickRegistryStep, CopyRegistryStep, ClearRegistryStep, MoveDataStep,
     MergeDataStep, MakeDataFolderStep, RestoreStep, MergeBackupStep, CopyDownloadsStep,
     RewriteDownloadDirsStep, KillStep
  DEF Next, Progress, UpdateCallback
<1> QED
  BY <1>1, <1>2

(* The inductive invariant.                                                *)
THEOREM Invariance == Spec => []Inv
BY InitInv, NextInv, PTL DEF Spec

(* Every variable stays in its type: only Linux has a backup, only Windows *)
(* copies downloads, and the registry that is taken over is never that of  *)
(* the new version.                                                        *)
THEOREM TypeCorrectness == Spec => []TypeOK
BY Invariance, PTL DEF Inv

(* While an update goes on, wherever its callback is ended or fails, some  *)
(* registry lists what is installed, and the files of every application    *)
(* are in a DataFolder or its backup (update_linux.go:64-97,               *)
(* mvdirs_linux.go:53, update_windows.go:130-251).                         *)
THEOREM NothingIsLostByUpdate == Spec => []NothingLostByUpdate
<1>1. Inv => NothingLostByUpdate
  BY DEF Inv, RegistryKept, FilesKept, NothingLostByUpdate
<1> QED
  BY <1>1, Invariance, PTL
-----------------------------------------------------------------------------
(* Why CarriedOver holds. No version ahead has a registry (NoRegistryAhead), *)
(* so an update begins without one; on Linux only one DataFolder is in use *)
(* (LinuxFolder); an entry with content says where its files are           *)
(* (HomesKnown). Then, in an update that met no weak point (HandedOver):   *)
(* the registry that is taken is that of the version in service, and as    *)
(* soon as the new version has one it lists what is installed. On Linux    *)
(* the files reach the installation of the new version in the DataFolder   *)
(* or in its backup. On Windows each file is copied or its folder is still *)
(* to be copied, and an update that returned has rewritten the entries.    *)
NoRegistryAhead ==
  \A v \in Versions :
    v > (IF stage = "service" THEN current ELSE new) => reg[v] = Absent

LinuxFolder == ~windows => \A v \in Versions \ {1} : data[v] = NoDir

HasHomes(r) ==
  r \notin {Absent, Damaged} =>
    \A a \in Apps : r[a].content # 0 => r[a].home # 0 /\ (~windows => r[a].home = 1)

HomesKnown == \A v \in Versions : HasHomes(reg[v])

Grounds == NoRegistryAhead /\ LinuxFolder /\ HomesKnown

LatePlaces == {"clear", "move", "merge", "mkdir", "downloads", "rewrite"}

Installed == {a \in Apps : truth[a] # 0}

HandedOver ==
  stage # "service" /\ clean =>
    /\ sound
    /\ stage # "update" \/ pc \in LatePlaces => reg[new] # Absent
    /\ pc = "copy" => prev = current
    /\ reg[new] # Absent => Lists(reg[new])
    /\ stage = "install" /\ ~windows => \A a \in Installed : Kept(a)
    /\ pc = "remerge" => \A a \in Apps : backup[a] # 0 /\ data[1][a] = 0 => a \in todo
    /\ pc = "downloads" => \A a \in Installed :
         Has(data[new], a) \/ \E v \in todo : Has(data[v], a)
    /\ pc = "rewrite" => \A a \in Installed : Has(data[new], a)
    /\ reg[new] # Absent /\ windows /\ pc \notin {"clear", "downloads", "rewrite"} =>
         \A a \in Installed : Has(data[new], a) /\ reg[new][a].home = new

-----------------------------------------------------------------------------
LEMMA InitGrounds == Init => Grounds
BY Constants DEF Init, Grounds, NoRegistryAhead, LinuxFolder, HomesKnown, HasHomes

(* One registry is written: an entry with content must say where its files *)
(* are.                                                                    *)
LEMMA WriteHomes ==
  ASSUME TypeOK, HomesKnown, windows' = windows, NEW v \in Versions,
         NEW r \in Registries \cup {Absent, Damaged}, HasHomes(r), WriteRegistry(v, r)
  PROVE  HomesKnown'
BY WriteTypes DEF HomesKnown, HasHomes

LEMMA NoPackagesHomes == HasHomes(NoPackages) /\ HasHomes(Absent) /\ HasHomes(Damaged)
BY DEF HasHomes, NoPackages, NotInstalled

LEMMA ReadHomes ==
  ASSUME NEW r, HasHomes(r)
  PROVE  HasHomes(Read(r))
BY NoPackagesHomes DEF Read

LEMMA NextGrounds == Inv /\ Grounds /\ [Next]_vars => Grounds'
<1> SUFFICES ASSUME Inv, Grounds, [Next]_vars PROVE Grounds'
  OBVIOUS
<1>t. TypeOK /\ Places /\ current \in Versions /\ new \in Versions /\ Versions \subseteq Nat
  BY DEF Inv, TypeOK, Versions
<1>g. NoRegistryAhead /\ LinuxFolder /\ HomesKnown
  BY DEF Grounds
(* A step that writes no registry, or one that may have been there.        *)
<1>w. ASSUME UNCHANGED <<windows, current, new>>, stage' = stage,
             LinuxFolder',
             NEW v \in Versions, NEW r \in Registries \cup {Absent, Damaged},
             WriteRegistry(v, r), HasHomes(r),
             reg[v] # Absent \/ v = (IF stage = "service" THEN current ELSE new)
      PROVE  Grounds'
  <2>1. HomesKnown'
    BY <1>g, <1>t, <1>w, WriteHomes
  <2>2. NoRegistryAhead'
    BY <1>g, <1>t, <1>w, WriteTypes DEF NoRegistryAhead
  <2>3. QED
    BY <1>w, <2>1, <2>2 DEF Grounds
<1>u. ASSUME UNCHANGED <<windows, reg, current, new>>, (stage = "service" <=> stage' = "service"),
             LinuxFolder'
      PROVE  Grounds'
  BY <1>g, <1>u DEF Grounds, NoRegistryAhead, HomesKnown, HasHomes
<1>l. UNCHANGED <<windows, data>> => LinuxFolder'
  BY <1>g DEF LinuxFolder
<1>1. CASE UNCHANGED vars
  BY <1>1, <1>l, <1>u DEF vars, files, agent
<1>2. CASE InstallApp
  <2>1. PICK a \in Apps, c \in Contents :
          /\ data' = [data EXCEPT ![Home(current)] =
               [IF data[Home(current)] = NoDir THEN EmptyDir ELSE data[Home(current)]
                 EXCEPT ![a] = c]]
          /\ WriteRegistry(current,
               [Read(reg[current]) EXCEPT ![a] = [content |-> c, home |-> Home(current)]])
    BY <1>2 DEF InstallApp
  <2> DEFINE e == [content |-> c, home |-> Home(current)]
             r == [Read(reg[current]) EXCEPT ![a] = e]
  <2>2. stage = "service" /\ UNCHANGED agent
    BY <1>2 DEF InstallApp
  <2>3. e \in Entries /\ Read(reg[current]) \in Registries /\ HasHomes(Read(reg[current]))
    BY <1>g, <1>t, HomeTypes, ReadTypes, ReadHomes DEF Entries, TypeOK, HomesKnown
  <2>4. r \in Registries
    BY <2>3, EntryTypes
  <2>5. e.home # 0 /\ (~windows => e.home = 1)
    BY <1>t, HomeTypes DEF Versions
  <2>6. HasHomes(r)
    <3>1. \A b \in Apps : r[b] = IF b = a THEN e ELSE Read(reg[current])[b]
      BY <2>3 DEF Registries
    <3>2. Read(reg[current]) \notin {Absent, Damaged}
      BY <2>3, Constants
    <3> HIDE DEF e, r
    <3>3. QED
      BY <2>3, <2>5, <3>1, <3>2 DEF HasHomes
  <2>7. LinuxFolder'
    BY <1>g, <1>t, <2>1, <2>2, HomeTypes DEF LinuxFolder, agent, TypeOK
  <2>8. WriteRegistry(current, r)
    BY <2>1
  <2> HIDE DEF r
  <2>9. QED
    BY <1>t, <1>w, <2>2, <2>4, <2>6, <2>7, <2>8 DEF agent
<1>3. CASE RemoveApp
  <2>1. PICK a \in Apps :
          /\ data' = IF data[Home(current)] = NoDir THEN data
                     ELSE [data EXCEPT ![Home(current)] = [@ EXCEPT ![a] = 0]]
          /\ WriteRegistry(current, [Read(reg[current]) EXCEPT ![a] = NotInstalled])
    BY <1>3 DEF RemoveApp
  <2> DEFINE r == [Read(reg[current]) EXCEPT ![a] = NotInstalled]
  <2>2. stage = "service" /\ UNCHANGED agent
    BY <1>3 DEF RemoveApp
  <2>3. /\ NotInstalled \in Entries /\ Read(reg[current]) \in Registries
        /\ HasHomes(Read(reg[current]))
    BY <1>g, <1>t, ReadTypes, ReadHomes DEF Entries, NotInstalled, TypeOK, HomesKnown
  <2>4. r \in Registries
    BY <2>3, EntryTypes
  <2>5. HasHomes(r)
    <3>1. \A b \in Apps : r[b] = IF b = a THEN NotInstalled ELSE Read(reg[current])[b]
      BY <2>3 DEF Registries
    <3>2. Read(reg[current]) \notin {Absent, Damaged}
      BY <2>3, Constants
    <3> HIDE DEF r
    <3>3. QED
      BY <2>3, <3>1, <3>2 DEF HasHomes, NotInstalled
  <2>6. LinuxFolder'
    BY <1>g, <1>t, <2>1, <2>2, HomeTypes DEF LinuxFolder, agent, TypeOK
  <2>7. WriteRegistry(current, r)
    BY <2>1
  <2> HIDE DEF r
  <2>8. QED
    BY <1>t, <1>w, <2>2, <2>4, <2>5, <2>6, <2>7 DEF agent
<1>4. CASE StartUpdate
  <2>1. PICK v \in Versions : v > current /\ new' = v
    BY <1>4 DEF StartUpdate
  <2>2. stage = "service" /\ stage' = "update" /\ UNCHANGED <<windows, reg, data>>
    BY <1>4 DEF StartUpdate, files
  <2>3. NoRegistryAhead'
    BY <1>g, <1>t, <2>1, <2>2 DEF NoRegistryAhead
  <2>4. QED
    BY <1>g, <2>2, <2>3 DEF Grounds, LinuxFolder, HomesKnown, HasHomes
<1>5. CASE UninstallOld
  <2>1. /\ stage = "uninstall" /\ stage' = "install" /\ UNCHANGED <<windows, current, new>>
        /\ \A v \in Versions : reg'[v] \in {reg[v], Absent}
        /\ \A v \in Versions : data'[v] \in {data[v], NoDir}
    BY <1>5, <1>t DEF UninstallOld, TypeOK
  <2>2. NoRegistryAhead'
    BY <1>g, <2>1 DEF NoRegistryAhead
  <2>3. LinuxFolder'
    BY <1>g, <2>1 DEF LinuxFolder
  <2>4. HomesKnown'
    BY <1>g, <2>1 DEF HomesKnown, HasHomes
  <2>5. QED
    BY <2>2, <2>3, <2>4 DEF Grounds
<1>6. CASE StatRegistry \/ PickRegistry \/ RetryUpdate \/ Kill
  BY <1>6, <1>t, <1>l, <1>u DEF StatRegistry, PickRegistry, RetryUpdate, Kill, KilledLate,
     ReturnSuccess, ReturnError, GoTo, files, agent, Places, UpdatePlaces
<1>7. CASE CopyRegistry
  <2>1. stage = "update" /\ stage' = stage /\ UNCHANGED <<windows, data, current, new>>
    BY <1>7, <1>t DEF CopyRegistry, GoTo, ReturnError, Places, TypeOK
  <2>2. content \in Registries \cup {Absent, Damaged} /\ HasHomes(content)
    BY <1>7, <1>g, <1>t DEF CopyRegistry, Places, Others, HomesKnown, TypeOK
  <2>3. WriteRegistry(new, content) \/ WriteRegistry(new, Damaged) \/ UNCHANGED reg
    BY <1>7 DEF CopyRegistry
  <2>4. QED
    BY <1>l, <1>t, <1>u, <1>w, <2>1, <2>2, <2>3, NoPackagesHomes
<1>8. CASE ClearRegistry
  <2>1. /\ stage = "update" /\ stage' = stage /\ UNCHANGED <<windows, data, current, new>>
        /\ prev \in Versions /\ reg[prev] # Absent
    BY <1>8, <1>t DEF ClearRegistry, KilledLate, GoTo, ReturnError, Places, TypeOK
  <2>2. WriteRegistry(prev, NoPackages) \/ WriteRegistry(prev, Damaged) \/ UNCHANGED reg
    BY <1>8 DEF ClearRegistry
  <2>3. QED
    BY <1>l, <1>u, <1>w, <2>1, <2>2, NoPackagesHomes, Constants
<1>9. CASE MoveData \/ MergeData \/ MakeDataFolder
  <2>1. /\ ~windows /\ stage = "update" /\ stage' # "service"
        /\ UNCHANGED <<windows, reg, current, new>>
    BY <1>9, <1>t DEF MoveData, MergeData, MakeDataFolder, GoTo, ReturnSuccess, ReturnError,
       Places, TypeOK
  <2>2. \A v \in Versions \ {1} : data'[v] = data[v]
    BY <1>9, <1>t DEF MoveData, MergeData, MakeDataFolder, TypeOK
  <2>3. QED
    BY <1>g, <1>u, <2>1, <2>2 DEF LinuxFolder
<1>10. CASE Restore \/ MergeBackup
  <2>1. stage = "install" /\ UNCHANGED <<windows, reg, new>>
    BY <1>10, <1>t DEF Restore, MergeBackup, Places, UpdatePlaces, TypeOK
  <2>2. \A v \in Versions \ {1} : data'[v] = data[v]
    BY <1>10, <1>t DEF Restore, MergeBackup, TypeOK
  <2>3. NoRegistryAhead'
    BY <1>10, <1>g, <2>1 DEF Restore, MergeBackup, InService, NoRegistryAhead
  <2>4. QED
    BY <1>g, <2>1, <2>2, <2>3 DEF Grounds, LinuxFolder, HomesKnown, HasHomes
<1>11. CASE CopyDownloads
  <2>1. /\ windows /\ stage = "update" /\ stage' # "service"
        /\ UNCHANGED <<windows, reg, current, new>>
    BY <1>11, <1>t DEF CopyDownloads, GoTo, ReturnSuccess, Places, TypeOK
  <2>2. QED
    BY <1>u, <2>1 DEF LinuxFolder
<1>12. CASE RewriteDownloadDirs
  <2>1. /\ windows /\ stage = "update" /\ stage' # "service"
        /\ UNCHANGED <<windows, data, current, new>>
    BY <1>12, <1>t DEF RewriteDownloadDirs, ReturnSuccess, ReturnError, Places, TypeOK
  <2>2. Rewritten \in Registries
    BY <1>t, Rewriting
  <2>3. HasHomes(Rewritten)
    <3>1. \A a \in Apps : Rewritten[a].content # 0 => Rewritten[a].home # 0
      <4>1. Read(reg[new]) \in Registries /\ HasHomes(Read(reg[new]))
        BY <1>g, <1>t, ReadTypes, ReadHomes DEF TypeOK, HomesKnown
      <4>2. Read(reg[new]) \notin {Absent, Damaged}
        BY <4>1, Constants
      <4>3. ASSUME NEW a \in Apps, Rewritten[a].content # 0 PROVE Rewritten[a].home # 0
        <5>1. Read(reg[new])[a] \in Entries /\ new # 0
          BY <1>t, <4>1 DEF Registries, Versions
        <5>2. Rewritten[a].content = Read(reg[new])[a].content
          BY <5>1 DEF Rewritten, Entries
        <5>3. Read(reg[new])[a].home # 0
          BY <4>1, <4>2, <4>3, <5>2 DEF HasHomes
        <5>4. QED
          BY <5>1, <5>3 DEF Rewritten, Entries
      <4>4. QED
        BY <4>3
    <3>2. QED
      BY <2>1, <3>1 DEF HasHomes
  <2>4. \/ UNCHANGED reg
        \/ \E r \in {Rewritten, Absent, Damaged} : WriteRegistry(new, r)
    BY <1>12, Constants DEF RewriteDownloadDirs, LeaveRegistry
  <2>5. ASSUME NEW r \in {Rewritten, Absent, Damaged}, WriteRegistry(new, r) PROVE Grounds'
    <3>1. HasHomes(r) /\ r \in Registries \cup {Absent, Damaged}
      BY <2>2, <2>3, NoPackagesHomes
    <3>2. HomesKnown'
      BY <1>g, <1>t, <2>1, <2>5, <3>1, WriteHomes
    <3>3. NoRegistryAhead'
      BY <1>g, <1>t, <2>1, <2>5, <3>1, WriteTypes DEF NoRegistryAhead
    <3>4. QED
      BY <2>1, <3>2, <3>3 DEF Grounds, LinuxFolder
  <2>6. QED
    BY <1>l, <1>u, <2>1, <2>4, <2>5
<1>13. QED
  BY <1>1, <1>2, <1>3, <1>4, <1>5, <1>6, <1>7, <1>8, <1>9, <1>10, <1>11, <1>12
  DEF Next, Progress, UpdateCallback

-----------------------------------------------------------------------------
HandOverInv == Inv /\ Grounds /\ HandedOver /\ CarriedOver

(* A registry that lists an application is one, and says where its files   *)
(* are.                                                                    *)
LEMMA ListedHome ==
  ASSUME Inv, Grounds, NEW v \in Versions, Lists(reg[v]), NEW a \in Installed
  PROVE  /\ reg[v] \in Registries /\ Read(reg[v]) = reg[v]
         /\ reg[v][a].content = truth[a] /\ reg[v][a].home # 0
         /\ ~windows => reg[v][a].home = 1
<1>1. reg[v] \in Registries \cup {Absent, Damaged}
  BY DEF Inv, TypeOK
<1>2. a \in Apps /\ truth[a] # 0
  BY DEF Installed
<1>3. reg[v] \notin {Absent, Damaged}
  BY <1>2 DEF Lists, Read, NoPackages, NotInstalled
<1> QED
  BY <1>1, <1>2, <1>3 DEF Lists, Read, Grounds, HomesKnown, HasHomes

LEMMA InitHandedOver == Init => HandedOver /\ CarriedOver
<1>1. \A a \in Apps : EmptyDir[a] = 0 /\ NoPackages[a].content = 0
  BY DEF EmptyDir, NoPackages, NotInstalled
<1> QED
  BY <1>1, Constants DEF Init, HandedOver, CarriedOver, Lists, Read

LEMMA InstallAppHands == ASSUME HandOverInv, InstallApp PROVE HandedOver' /\ CarriedOver'
<1>t. TypeOK /\ current \in Versions
  BY DEF HandOverInv, Inv, TypeOK
<1> DEFINE d == IF data[Home(current)] = NoDir THEN EmptyDir ELSE data[Home(current)]
<1>1. PICK a \in Apps, c \in Contents :
        /\ data' = [data EXCEPT ![Home(current)] = [d EXCEPT ![a] = c]]
        /\ WriteRegistry(current,
             [Read(reg[current]) EXCEPT ![a] = [content |-> c, home |-> Home(current)]])
        /\ truth' = [truth EXCEPT ![a] = c]
  BY DEF InstallApp
<1>2. stage = "service" /\ UNCHANGED <<agent, clean>>
  BY DEF InstallApp
<1>3. d \in Directories
  BY <1>t, Constants, HomeTypes DEF TypeOK
<1> DEFINE e == [d EXCEPT ![a] = c]
           n == [content |-> c, home |-> Home(current)]
           r == [Read(reg[current]) EXCEPT ![a] = n]
<1>4. e \in Directories /\ e # NoDir /\ e[a] = c /\ \A b \in Apps \ {a} : e[b] = d[b]
  BY <1>3, DirTypes
<1>5. Read(reg[current]) \in Registries /\ n \in Entries
  BY <1>t, HomeTypes, ReadTypes DEF Entries, TypeOK
<1>6. r \in Registries /\ r[a] = n /\ \A b \in Apps \ {a} : r[b] = Read(reg[current])[b]
  BY <1>5, EntryTypes DEF Registries
<1>7. n.content = c /\ n.home = Home(current) /\ c # 0
  BY DEF Contents
<1>8. data' = [data EXCEPT ![Home(current)] = e] /\ WriteRegistry(current, r)
  BY <1>1
<1>9. truth'[a] = c /\ \A b \in Apps \ {a} : truth'[b] = truth[b]
  BY <1>1, <1>t DEF TypeOK, Directories
<1> HIDE DEF d, e, n, r
<1>10. data'[Home(current)] = e
  BY <1>4, <1>8, <1>t, HomeTypes, DataTypes
<1>11. reg'[current] = r /\ Read(r) = r
  BY <1>6, <1>8, <1>t, WriteTypes, Constants DEF Read
<1>12. HandedOver'
  BY <1>2 DEF HandedOver, agent
<1>13. ASSUME clean PROVE CarriedOver'
  <2>1. Lists(reg[current])
    BY <1>2, <1>13 DEF HandOverInv, CarriedOver
  <2>2. \A b \in Apps : r[b].content = truth'[b]
    BY <1>6, <1>7, <1>9, <2>1 DEF Lists
  <2>3. ASSUME NEW b \in Apps, truth'[b] # 0
        PROVE  e[b] = truth'[b] /\ r[b].home = Home(current)
    <3>1. CASE b = a
      BY <1>4, <1>6, <1>7, <1>9, <3>1
    <3>2. CASE b # a
      <4>1. Has(data[Home(current)], b) /\ reg[current][b].home = Home(current)
        BY <1>2, <1>13, <1>9, <2>3, <3>2 DEF HandOverInv, CarriedOver
      <4>2. Read(reg[current]) = reg[current]
        BY <1>9, <1>t, <2>1, <2>3, <3>2, ListedHome DEF HandOverInv, Installed
      <4>3. d = data[Home(current)]
        BY <4>1 DEF Has, d
      <4> QED
        BY <1>4, <1>6, <1>9, <3>2, <4>1, <4>2, <4>3 DEF Has
    <3> QED
      BY <3>1, <3>2
  <2>4. Home(current)' = Home(current)
    BY <1>2 DEF Home, agent
  <2>5. \A b \in Apps : Has(data[Home(current)], b)' <=> e[b] = truth'[b]
    BY <1>4, <1>10, <2>4 DEF Has
  <2>7. Lists(reg[current])'
    BY <1>2, <1>6, <1>11, <2>2, Constants DEF Lists, Read, agent
  <2> QED
    BY <1>2, <1>11, <2>3, <2>4, <2>5, <2>7 DEF CarriedOver, agent
<1> QED
  BY <1>2, <1>12, <1>13 DEF CarriedOver, agent

LEMMA RemoveAppHands == ASSUME HandOverInv, RemoveApp PROVE HandedOver' /\ CarriedOver'
<1>t. TypeOK /\ current \in Versions
  BY DEF HandOverInv, Inv, TypeOK
<1>1. PICK a \in Apps :
        /\ data' = IF data[Home(current)] = NoDir THEN data
                   ELSE [data EXCEPT ![Home(current)] = [@ EXCEPT ![a] = 0]]
        /\ WriteRegistry(current, [Read(reg[current]) EXCEPT ![a] = NotInstalled])
        /\ truth' = [truth EXCEPT ![a] = 0]
  BY DEF RemoveApp
<1>2. stage = "service" /\ UNCHANGED <<agent, clean>>
  BY DEF RemoveApp
<1> DEFINE r == [Read(reg[current]) EXCEPT ![a] = NotInstalled]
<1>3. Read(reg[current]) \in Registries /\ NotInstalled \in Entries
  BY <1>t, ReadTypes DEF Entries, NotInstalled, TypeOK
<1>4. r \in Registries /\ r[a] = NotInstalled
      /\ \A b \in Apps \ {a} : r[b] = Read(reg[current])[b]
  BY <1>3, EntryTypes DEF Registries
<1>5. WriteRegistry(current, r)
  BY <1>1
<1> HIDE DEF r
<1>6. reg'[current] = r /\ Read(r) = r
  BY <1>4, <1>5, <1>t, WriteTypes, Constants DEF Read
<1>7. truth'[a] = 0 /\ \A b \in Apps \ {a} : truth'[b] = truth[b]
  BY <1>1, <1>t DEF TypeOK, Directories
<1>8. data[Home(current)] # NoDir =>
        data'[Home(current)] # NoDir
        /\ \A b \in Apps \ {a} : data'[Home(current)][b] = data[Home(current)][b]
  BY <1>1, <1>t, HomeTypes, DirTypes, DataTypes DEF TypeOK
<1>9. HandedOver'
  BY <1>2 DEF HandedOver, agent
<1>10. ASSUME clean PROVE CarriedOver'
  <2>1. Lists(reg[current])
    BY <1>2, <1>10 DEF HandOverInv, CarriedOver
  <2>2. \A b \in Apps : r[b].content = truth'[b]
    BY <1>4, <1>7, <2>1 DEF Lists, NotInstalled
  <2>3. ASSUME NEW b \in Apps, truth'[b] # 0
        PROVE  /\ data'[Home(current)] # NoDir /\ data'[Home(current)][b] = truth'[b]
               /\ r[b].home = Home(current)
    <3>1. b # a /\ truth[b] # 0
      BY <1>7, <2>3
    <3>2. Has(data[Home(current)], b) /\ reg[current][b].home = Home(current)
      BY <1>2, <1>10, <3>1 DEF HandOverInv, CarriedOver
    <3>3. Read(reg[current]) = reg[current]
      BY <1>t, <2>1, <3>1, ListedHome DEF HandOverInv, Installed
    <3> QED
      BY <1>4, <1>7, <1>8, <3>1, <3>2, <3>3 DEF Has
  <2>4. Home(current)' = Home(current)
    BY <1>2 DEF Home, agent
  <2>5. \A b \in Apps : Has(data[Home(current)], b)' <=>
          data'[Home(current)] # NoDir /\ data'[Home(current)][b] = truth'[b]
    BY <2>4 DEF Has
  <2>6. Lists(reg[current])'
    BY <1>2, <1>4, <1>6, <2>2, Constants DEF Lists, Read, agent
  <2> QED
    BY <1>2, <1>6, <2>3, <2>4, <2>5, <2>6 DEF CarriedOver, agent
<1> QED
  BY <1>2, <1>9, <1>10 DEF CarriedOver, agent

LEMMA StartUpdateHands == ASSUME HandOverInv, StartUpdate PROVE HandedOver' /\ CarriedOver'
<1>1. PICK v \in Versions : v > current /\ new' = v
  BY DEF StartUpdate
<1>2. stage = "service" /\ stage' = "update" /\ pc' = "stat" /\ clean' = sound' /\ reg' = reg
  BY DEF StartUpdate, files
<1>3. reg[v] = Absent
  BY <1>1, <1>2 DEF HandOverInv, Grounds, NoRegistryAhead
<1> QED
  BY <1>1, <1>2, <1>3 DEF HandedOver, CarriedOver, LatePlaces

LEMMA RetryUpdateHands == ASSUME HandOverInv, RetryUpdate PROVE HandedOver' /\ CarriedOver'
BY DEF HandOverInv, RetryUpdate, HandedOver, CarriedOver, LatePlaces, Lists, Installed, Has,
   files, agent, history

LEMMA UninstallOldHands == ASSUME HandOverInv, UninstallOld PROVE HandedOver' /\ CarriedOver'
<1>1. /\ stage = "uninstall" /\ stage' = "install" /\ pc' = "restore" /\ current # new
      /\ reg \in [Versions -> Registries \cup {Absent, Damaged}]
      /\ data \in [Versions -> Directories \cup {NoDir}]
      /\ {current, new} \subseteq Versions
      /\ UNCHANGED <<backup, windows, current, new, truth, sound>>
  BY DEF UninstallOld, HandOverInv, Inv, TypeOK, Places, Versions
<1>2. SUFFICES ASSUME clean' PROVE HandedOver'
  BY <1>1 DEF CarriedOver, HandedOver
<1>3. clean
  BY <1>2 DEF UninstallOld
<1>4. /\ sound /\ reg[new] # Absent /\ Lists(reg[new])
      /\ windows => \A a \in Installed : Has(data[new], a) /\ reg[new][a].home = new
  BY <1>1, <1>3 DEF HandOverInv, HandedOver, Inv, Places
<1>5. reg'[new] = reg[new] /\ (windows => data'[new] = data[new])
  BY <1>1 DEF UninstallOld
<1>6. ASSUME ~windows, NEW a \in Installed PROVE Kept(a)'
  <2>1. Kept(a) /\ truth[a] # 0 /\ a \in Apps
    BY <1>1, <1>4 DEF HandOverInv, Inv, FilesKept, Installed
  <2>2. data' = data \/ (data' = [data EXCEPT ![1] = NoDir] /\ Holds(data[1]) = {})
    BY <1>2, <1>6 DEF UninstallOld
  <2>3. data[1] = NoDir \/ data[1][a] # truth[a] \/ Holds(data[1]) # {}
    BY <2>1 DEF Holds
  <2> QED
    BY <1>1, <2>1, <2>2, <2>3, Constants DEF Kept
<1> QED
  BY <1>1, <1>4, <1>5, <1>6 DEF HandedOver, Lists, Installed, Has

LEMMA StatRegistryHands == ASSUME HandOverInv, StatRegistry PROVE HandedOver' /\ CarriedOver'
BY DEF HandOverInv, Inv, TypeOK, Places, StatRegistry, ReturnSuccess, GoTo, HandedOver, CarriedOver,
   LatePlaces, Lists, Installed, Has, files

LEMMA PickRegistryHands == ASSUME HandOverInv, PickRegistry PROVE HandedOver' /\ CarriedOver'
<1>1. /\ stage = "update" /\ stage' = stage /\ reg[new] = Absent
      /\ UNCHANGED <<reg, new, sound>>
  BY DEF PickRegistry, ReturnError, HandOverInv, Inv, TypeOK, Places, files
<1>2. \/ pc' = "copy" /\ clean' = (clean /\ prev' = current)
      \/ pc' = "failed" /\ clean' = clean
  BY DEF PickRegistry, ReturnError
<1>3. (clean' => clean) /\ (pc' = "copy" /\ clean' => prev' = current)
  <2>1. CASE clean' = (clean /\ prev' = current)
    BY <2>1, Zenon
  <2>2. CASE pc' = "failed" /\ clean' = clean
    BY <2>2
  <2> QED
    BY <1>2, <2>1, <2>2
<1>4. current' = current
  BY DEF PickRegistry
<1> QED
  BY <1>1, <1>2, <1>3, <1>4 DEF HandOverInv, HandedOver, CarriedOver, LatePlaces

LEMMA KillHands == ASSUME HandOverInv, Kill PROVE HandedOver' /\ CarriedOver'
<1>1. stage # "service" /\ stage' = stage
      /\ UNCHANGED <<files, windows, current, new, truth, sound>>
  BY DEF Kill, KilledLate, ReturnError, HandOverInv, Inv, TypeOK, Places
<1>2. stage = "install" => pc \in {"restore", "remerge"}
  BY DEF HandOverInv, Inv, Places
<1>3. /\ stage \in {"update", "install"}
      /\ pc' = IF stage = "install" THEN "restore" ELSE "failed"
  BY <1>2 DEF Kill, KilledLate, ReturnError
<1>4. \/ clean' = (clean /\ ~windows)
      \/ clean' = clean /\ pc \notin {"clear", "downloads", "rewrite"}
  BY <1>2 DEF Kill, KilledLate
<1>5. /\ clean' => clean
      /\ clean' /\ windows => pc \notin {"clear", "downloads", "rewrite"}
  <2>1. CASE clean' = (clean /\ ~windows)
    BY <2>1, Zenon
  <2>2. CASE clean' = clean /\ pc \notin {"clear", "downloads", "rewrite"}
    BY <2>2
  <2> QED
    BY <1>4, <2>1, <2>2
<1> QED
  BY <1>1, <1>2, <1>3, <1>5
  DEF HandOverInv, HandedOver, CarriedOver, LatePlaces, Lists, Kept, Installed, Has, Holds, files

LEMMA CopyRegistryHands == ASSUME HandOverInv, CopyRegistry PROVE HandedOver' /\ CarriedOver'
<1>1. /\ stage = "update" /\ stage' = stage /\ pc = "copy"
      /\ reg[new] = Absent /\ prev \in Versions \ {new} /\ content = reg[prev]
      /\ content # Absent /\ content \in Registries \cup {Absent, Damaged}
      /\ new \in Versions
      /\ UNCHANGED <<data, backup, windows, current, new, truth, sound>>
  BY DEF CopyRegistry, ReturnError, GoTo, HandOverInv, Inv, TypeOK, Places, Others
<1>2. CASE WriteRegistry(new, content) /\ GoTo("clear") /\ UNCHANGED clean
  <2>1. reg'[new] = content
    BY <1>1, <1>2, WriteTypes DEF HandOverInv, Inv
  <2>2. clean => Lists(content)
    BY <1>1 DEF HandOverInv, Inv, RegistryKept, HandedOver
  <2> QED
    BY <1>1, <1>2, <2>1, <2>2 DEF HandOverInv, GoTo, HandedOver, CarriedOver, LatePlaces, Lists
<1>3. CASE ReturnError /\ UNCHANGED <<reg, later, clean>>
  BY <1>1, <1>3 DEF HandOverInv, ReturnError, HandedOver, CarriedOver, LatePlaces
<1>4. CASE clean' = FALSE
  BY <1>4 DEF HandedOver, CarriedOver
<1> QED
  BY <1>2, <1>3, <1>4 DEF CopyRegistry

LEMMA ClearRegistryHands == ASSUME HandOverInv, ClearRegistry PROVE HandedOver' /\ CarriedOver'
<1>1. /\ stage = "update" /\ stage' = stage /\ pc = "clear"
      /\ prev \in Versions \ {new} /\ new \in Versions
      /\ UNCHANGED <<data, backup, windows, current, new, truth, sound>>
  BY DEF ClearRegistry, KilledLate, ReturnError, GoTo, HandOverInv, Inv, TypeOK, Places
<1>2. reg'[new] = reg[new]
  BY <1>1, WriteTypes, Constants DEF ClearRegistry, HandOverInv, Inv
<1>3. /\ clean' => clean
      /\ clean' /\ windows => pc' = "downloads" /\ todo' = OtherFolders
      /\ ~windows => pc' \in {"move", "failed"}
  <2>1. \/ /\ pc' = IF windows THEN "downloads" ELSE "move"
           /\ todo' = IF windows THEN OtherFolders ELSE {}
           /\ clean' = clean
        \/ pc' = "failed" /\ clean' = (clean /\ ~windows)
    BY DEF ClearRegistry, KilledLate, ReturnError, GoTo
  <2>2. clean' => clean /\ (pc' = "failed" => ~windows)
    BY <2>1, Zenon
  <2> QED
    BY <2>1, <2>2
<1>4. SUFFICES ASSUME clean, clean' PROVE HandedOver'
  BY <1>1, <1>3 DEF HandedOver, CarriedOver
<1>5. sound /\ reg[new] # Absent /\ Lists(reg[new])
  BY <1>1, <1>4 DEF HandOverInv, HandedOver, LatePlaces
<1>6. ASSUME windows, NEW a \in Installed PROVE \E v \in OtherFolders : Has(data[v], a)
  <2>1. PICK v \in Versions \ {new} : data[v] # NoDir /\ data[v][a] = truth[a]
    BY <1>1, <1>5, <1>6 DEF HandOverInv, Inv, FilesKept, Installed
  <2> QED
    BY <2>1 DEF OtherFolders, Has
<1> QED
  BY <1>1, <1>2, <1>3, <1>4, <1>5, <1>6 DEF HandedOver, Lists, Installed, Has

-----------------------------------------------------------------------------
LEMMA MoveHands ==
  ASSUME HandOverInv, MoveData \/ MergeData \/ MakeDataFolder
  PROVE  HandedOver' /\ CarriedOver'
<1>1. /\ stage = "update" /\ pc \in LatePlaces /\ ~windows
      /\ UNCHANGED <<reg, windows, new, history>>
  BY DEF MoveData, MergeData, MakeDataFolder, LatePlaces, HandOverInv, Inv, TypeOK, Places
<1>2. stage' \in {"update", "uninstall"} /\ pc' \in {"none", "failed", "merge", "mkdir"}
  BY <1>1 DEF MoveData, MergeData, MakeDataFolder, GoTo, ReturnSuccess, ReturnError
<1> QED
  BY <1>1, <1>2 DEF HandOverInv, HandedOver, CarriedOver, Lists, history

(* With the files of an application in the one DataFolder, or the registry *)
(* and its own DataFolder on Windows, the version that takes over has it.  *)
LEMMA TakesOver ==
  ASSUME HandOverInv, stage = "install", clean, InService,
         UNCHANGED <<reg, windows, new, truth, clean>>,
         windows => UNCHANGED data,
         ~windows => \A a \in Installed : data'[1] # NoDir /\ data'[1][a] = truth[a]
  PROVE  HandedOver' /\ CarriedOver'
<1>1. stage' = "service" /\ current' = new /\ new \in Versions
  BY DEF InService, HandOverInv, Inv, TypeOK
<1>2. /\ Lists(reg[new])
      /\ windows => \A a \in Installed : Has(data[new], a) /\ reg[new][a].home = new
  BY DEF HandOverInv, Inv, TypeOK, Places, HandedOver
<1>3. Home(current)' = IF windows THEN new ELSE 1
  BY <1>1 DEF Home
<1>4. ASSUME NEW a \in Installed
      PROVE  /\ Has(data[Home(current)], a)'
             /\ reg[new][a].home = (IF windows THEN new ELSE 1)
  BY <1>1, <1>2, <1>3, <1>4, ListedHome DEF HandOverInv, Has, Installed
<1> QED
  BY <1>1, <1>2, <1>3, <1>4 DEF HandedOver, CarriedOver, Lists, Installed

LEMMA RestoreHands == ASSUME HandOverInv, Restore PROVE HandedOver' /\ CarriedOver'
<1>1. /\ stage = "install" /\ pc = "restore" /\ new \in Versions /\ truth \in Directories
      /\ data \in [Versions -> Directories \cup {NoDir}] /\ clean \in BOOLEAN
      /\ backup \in Directories \cup {NoDir}
      /\ UNCHANGED <<reg, windows, new, truth, sound>>
  BY DEF Restore, HandOverInv, Inv, TypeOK, Places, UpdatePlaces
<1>2. ASSUME clean, ~windows, NEW a \in Installed
      PROVE  \/ data[1] # NoDir /\ data[1][a] = truth[a]
             \/ backup # NoDir /\ backup[a] = truth[a]
  BY <1>1, <1>2 DEF HandOverInv, HandedOver, Kept, Grounds, LinuxFolder
<1>3. CASE clean' # TRUE
  BY <1>1, <1>3 DEF Restore, InService, HandedOver, CarriedOver
<1>4. ASSUME clean, InService, UNCHANGED <<data, clean>>, windows \/ backup = NoDir
      PROVE  HandedOver' /\ CarriedOver'
  BY <1>1, <1>2, <1>4, TakesOver
<1>5. ASSUME clean, InService, UNCHANGED clean, ~windows, backup # NoDir, data[1] = NoDir,
             data' = [data EXCEPT ![1] = backup]
      PROVE  HandedOver' /\ CarriedOver'
  BY <1>1, <1>2, <1>5, TakesOver, Constants
<1>6. ASSUME clean, ~windows, backup # NoDir, data[1] # NoDir, todo' = Holds(backup),
             pc' = "remerge", UNCHANGED <<data, backup, stage, current, clean>>
      PROVE  HandedOver' /\ CarriedOver'
  BY <1>1, <1>6 DEF HandOverInv, HandedOver, CarriedOver, Lists, Kept, Installed, Holds
<1>7. CASE clean' = TRUE
  <2>1. clean /\ clean' = clean
    BY <1>1, <1>7 DEF Restore
  <2> QED
    BY <1>4, <1>5, <1>6, <2>1, <1>7 DEF Restore
<1> QED
  BY <1>3, <1>7

LEMMA MergeBackupHands == ASSUME HandOverInv, MergeBackup PROVE HandedOver' /\ CarriedOver'
<1>1. /\ stage = "install" /\ pc = "remerge" /\ ~windows
      /\ data[1] # NoDir /\ backup # NoDir /\ todo \subseteq Apps
      /\ data[1] \in Directories /\ backup \in Directories
      /\ data \in [Versions -> Directories \cup {NoDir}]
      /\ new \in Versions /\ clean \in BOOLEAN
      /\ UNCHANGED <<reg, windows, new, truth, sound>>
  BY Constants DEF MergeBackup, HandOverInv, Inv, TypeOK, Places, UpdatePlaces
<1>2. ASSUME clean, NEW a \in Installed
      PROVE  data[1][a] = truth[a] \/ backup[a] = truth[a]
  BY <1>1, <1>2 DEF HandOverInv, HandedOver, Kept, Grounds, LinuxFolder
<1>3. clean => \A a \in Apps : backup[a] # 0 /\ data[1][a] = 0 => a \in todo
  BY <1>1 DEF HandOverInv, HandedOver
<1>4. ASSUME clean, NEW a \in todo,
             data' = [data EXCEPT ![1] = PreferDestination(data[1], backup, a)],
             backup' = Left(data[1], backup, a, FALSE),
             todo' = todo \ {a}, UNCHANGED <<stage, current, pc, clean>>
      PROVE  HandedOver' /\ CarriedOver'
  <2> DEFINE d == PreferDestination(data[1], backup, a)
  <2>1. a \in Apps /\ data[1][a] \in Contents \cup {0} /\ backup[a] \in Contents \cup {0}
    BY <1>1, <1>4 DEF Directories
  <2>2. /\ d \in Directories /\ d # NoDir
        /\ d[a] = (IF data[1][a] # 0 THEN data[1][a] ELSE backup[a])
        /\ \A b \in Apps \ {a} : d[b] = data[1][b]
    BY <1>1, <2>1, DirTypes DEF PreferDestination
  <2>3. /\ backup' # NoDir
        /\ backup'[a] = (IF data[1][a] = 0 THEN 0 ELSE backup[a])
        /\ \A b \in Apps \ {a} : backup'[b] = backup[b]
    <3>1. backup' = [backup EXCEPT ![a] = IF data[1][a] = 0 THEN 0 ELSE backup[a]]
      BY <1>4 DEF Left
    <3> QED
      BY <1>1, <2>1, <3>1, Constants DEF Directories
  <2>4. data'[1] = d
    BY <1>1, <1>4, Constants
  <2> HIDE DEF d
  <2>5. ASSUME NEW b \in Installed PROVE Kept(b)'
    <3>1. (data'[1][b] = truth[b] \/ backup'[b] = truth[b]) /\ data'[1] # NoDir
      BY <1>2, <1>4, <2>2, <2>3, <2>4, <2>5 DEF Installed
    <3> QED
      BY <1>1, <2>3, <3>1, Constants DEF Kept
  <2>6. \A b \in Apps : backup'[b] # 0 /\ data'[1][b] = 0 => b \in todo'
    BY <1>3, <1>4, <2>2, <2>3, <2>4
  <2> QED
    BY <1>1, <1>4, <2>5, <2>6 DEF HandOverInv, HandedOver, CarriedOver, Lists, Installed
<1>5. ASSUME clean, todo = {}, InService, UNCHANGED <<data, clean>>
      PROVE  HandedOver' /\ CarriedOver'
  <2>1. ASSUME NEW a \in Installed PROVE data[1][a] = truth[a]
    BY <1>1, <1>2, <1>3, <1>5, <2>1 DEF HandOverInv, Inv, NewerInData, Installed
  <2> QED
    BY <1>1, <1>5, <2>1, TakesOver
<1>6. CASE clean' = TRUE
  <2>1. clean /\ clean' = clean
    BY <1>1, <1>6 DEF MergeBackup
  <2> QED
    BY <1>4, <1>5, <1>6, <2>1 DEF MergeBackup
<1>7. CASE clean' # TRUE
  BY <1>1, <1>7 DEF MergeBackup, InService, HandedOver, CarriedOver
<1> QED
  BY <1>6, <1>7

-----------------------------------------------------------------------------
LEMMA CopyDownloadsHands == ASSUME HandOverInv, CopyDownloads PROVE HandedOver' /\ CarriedOver'
<1>1. /\ stage = "update" /\ pc = "downloads" /\ windows /\ new \in Versions
      /\ data \in [Versions -> Directories \cup {NoDir}] /\ clean \in BOOLEAN
      /\ todo \subseteq OtherFolders
      /\ UNCHANGED <<reg, windows, current, new, truth, sound>>
  BY DEF CopyDownloads, HandOverInv, Inv, TypeOK, Places
<1>2. clean => /\ sound /\ reg[new] # Absent /\ Lists(reg[new])
               /\ \A a \in Installed :
                    Has(data[new], a) \/ \E v \in todo : Has(data[v], a)
  BY <1>1 DEF HandOverInv, HandedOver, LatePlaces
<1>3. ASSUME clean, NEW v \in todo, GoTo("downloads"), todo' = todo \ {v}, UNCHANGED clean,
             ~Overwrites(v),
             data' = [data EXCEPT ![new] =
               [a \in Apps |-> IF a \in Holds(data[v]) THEN data[v][a]
                               ELSE IF data[new] = NoDir THEN 0 ELSE data[new][a]]]
      PROVE  HandedOver' /\ CarriedOver'
  <2>1. new # v /\ \A u \in Versions \ {new} : data'[u] = data[u]
    BY <1>1, <1>3 DEF OtherFolders
  <2> DEFINE d == [a \in Apps |-> IF a \in Holds(data[v]) THEN data[v][a]
                                  ELSE IF data[new] = NoDir THEN 0 ELSE data[new][a]]
  <2>2. d \in Directories
    <3>1. data[v] \in Directories /\ data[new] \in Directories \cup {NoDir}
      BY <1>1, <1>3 DEF OtherFolders
    <3> QED
      BY <3>1 DEF Directories
  <2>3. data'[new] = d /\ d # NoDir
    BY <1>1, <1>3, <2>2, Constants
  <2>4. \A a \in Apps : d[a] = IF a \in Holds(data[v]) THEN data[v][a]
                               ELSE IF data[new] = NoDir THEN 0 ELSE data[new][a]
    OBVIOUS
  <2> HIDE DEF d
  <2>5. \A a \in Installed : Has(data[v], a) \/ Has(data[new], a) => Has(d, a)
    BY <1>3, <2>3, <2>4 DEF Has, Holds, Overwrites, Installed
  <2>6. ASSUME NEW a \in Installed
        PROVE  \/ data'[new] # NoDir /\ data'[new][a] = truth[a]
               \/ \E u \in todo' : data'[u] # NoDir /\ data'[u][a] = truth[a]
    <3>1. a \in Apps
      BY DEF Installed
    <3>2. \A u \in todo \ {v} : data'[u] = data[u]
      BY <1>1, <2>1 DEF OtherFolders
    <3> QED
      BY <1>2, <1>3, <2>3, <2>5, <3>1, <3>2 DEF Has
  <2> QED
    BY <1>1, <1>2, <1>3, <2>6 DEF GoTo, HandedOver, CarriedOver, Lists, Installed, Has
<1>4. ASSUME clean, todo = {}, GoTo("rewrite"), UNCHANGED <<data, clean>>
      PROVE  HandedOver' /\ CarriedOver'
  BY <1>1, <1>2, <1>4 DEF GoTo, HandedOver, CarriedOver, Lists, Installed, Has
<1>5. CASE clean' = TRUE
  <2>1. clean /\ clean' = clean
    <3>1. CASE \E v \in todo : clean' = (clean /\ ~Overwrites(v))
      BY <1>1, <1>5, <3>1, Zenon
    <3>2. CASE clean' = clean
      BY <1>5, <3>2
    <3> QED
      BY <1>5, <3>1, <3>2 DEF CopyDownloads
  <2>2. CASE \E v \in todo, copied \in SUBSET Apps :
               /\ copied = Holds(data[v])
               /\ data' = [data EXCEPT ![new] =
                    [a \in Apps |-> IF a \in copied THEN data[v][a]
                                    ELSE IF data[new] = NoDir THEN 0 ELSE data[new][a]]]
               /\ todo' = todo \ {v}
               /\ GoTo("downloads")
               /\ clean' = (clean /\ ~Overwrites(v))
    <3>1. PICK v \in todo :
               /\ data' = [data EXCEPT ![new] =
                    [a \in Apps |-> IF a \in Holds(data[v]) THEN data[v][a]
                                    ELSE IF data[new] = NoDir THEN 0 ELSE data[new][a]]]
               /\ todo' = todo \ {v}
               /\ GoTo("downloads")
               /\ clean' = (clean /\ ~Overwrites(v))
      BY <2>2
    <3>2. ~Overwrites(v)
      BY <1>5, <3>1, Zenon
    <3> QED
      BY <1>3, <2>1, <3>1, <3>2
  <2> QED
    BY <1>4, <1>5, <2>1, <2>2 DEF CopyDownloads, Holds
<1>6. CASE clean' # TRUE
  BY <1>1, <1>6 DEF CopyDownloads, HandedOver, CarriedOver
<1> QED
  BY <1>5, <1>6

LEMMA RewriteDownloadDirsHands ==
  ASSUME HandOverInv, RewriteDownloadDirs
  PROVE  HandedOver' /\ CarriedOver'
<1>1. /\ stage = "update" /\ pc = "rewrite" /\ windows /\ new \in Versions
      /\ clean \in BOOLEAN
      /\ UNCHANGED <<data, windows, current, new, truth>>
  BY DEF RewriteDownloadDirs, HandOverInv, Inv, TypeOK, Places
<1>2. stage' \in {"update", "uninstall"} /\ pc' \in {"none", "failed"}
  BY <1>1 DEF RewriteDownloadDirs, ReturnSuccess, ReturnError
<1>3. clean => /\ sound /\ reg[new] # Absent /\ Lists(reg[new])
               /\ \A a \in Installed : Has(data[new], a)
  BY <1>1 DEF HandOverInv, HandedOver, LatePlaces
<1>4. ASSUME clean, UNCHANGED <<reg, sound, clean>>, Read(reg[new]) = NoPackages
      PROVE  HandedOver' /\ CarriedOver'
  <2>1. Installed = {}
    BY <1>3, <1>4 DEF Lists, Installed, NoPackages, NotInstalled
  <2> QED
    BY <1>1, <1>2, <1>3, <1>4, <2>1 DEF HandedOver, CarriedOver, Lists, Installed
<1>5. ASSUME clean, WriteRegistry(new, Rewritten), UNCHANGED <<sound, clean>>
      PROVE  HandedOver' /\ CarriedOver'
  <2>1. /\ Rewritten \in Registries /\ Rewritten # Absent
        /\ \A a \in Apps : Read(Rewritten)[a].content = Read(reg[new])[a].content
    BY Rewriting, Constants DEF HandOverInv, Inv
  <2>2. reg'[new] = Rewritten
    BY <1>1, <1>5, <2>1, WriteTypes DEF HandOverInv, Inv
  <2>3. ASSUME NEW a \in Installed PROVE Rewritten[a].home = new
    <3>1. reg[new] \in Registries /\ Read(reg[new]) = reg[new] /\ reg[new][a].home # 0
      BY <1>1, <1>3, <1>5, ListedHome DEF HandOverInv
    <3> QED
      BY <3>1 DEF Rewritten, Registries, Entries, Installed
  <2>4. Lists(reg[new])'
    BY <1>1, <1>3, <1>5, <2>1, <2>2 DEF Lists
  <2> QED
    BY <1>1, <1>2, <1>3, <1>5, <2>1, <2>2, <2>3, <2>4
    DEF HandedOver, CarriedOver, Installed, Has
<1>6. CASE clean' = TRUE
  <2>1. /\ clean' = clean
        /\ \/ UNCHANGED <<reg, sound, clean>> /\ Read(reg[new]) = NoPackages
           \/ WriteRegistry(new, Rewritten) /\ UNCHANGED <<sound, clean>>
    BY <1>6 DEF RewriteDownloadDirs, LeaveRegistry
  <2> QED
    BY <1>4, <1>5, <1>6, <2>1
<1>7. CASE clean' # TRUE
  <2>1. clean' \in BOOLEAN
    BY <1>1 DEF RewriteDownloadDirs, LeaveRegistry
  <2> QED
    BY <1>2, <1>7, <2>1 DEF HandedOver, CarriedOver
<1> QED
  BY <1>6, <1>7

LEMMA NextHandedOver == HandOverInv /\ [Next]_vars => HandedOver' /\ CarriedOver'
<1> SUFFICES ASSUME HandOverInv, [Next]_vars PROVE HandedOver' /\ CarriedOver'
  OBVIOUS
<1>1. CASE UNCHANGED vars
  BY <1>1 DEF HandOverInv, vars, files, agent, callback, history, HandedOver, CarriedOver, Lists,
     Installed, Kept, Has, Home
<1>2. CASE Next
  BY <1>2, InstallAppHands, RemoveAppHands, StartUpdateHands, RetryUpdateHands,
     UninstallOldHands, StatRegistryHands, PickRegistryHands, CopyRegistryHands,
     ClearRegistryHands, MoveHands, RestoreHands, MergeBackupHands, CopyDownloadsHands,
     RewriteDownloadDirsHands, KillHands
  DEF Next, Progress, UpdateCallback
<1> QED
  BY <1>1, <1>2

(* The inductive invariant that CarriedOver needs: which registries and     *)
(* files the new version has at each step (update_linux.go:22-99,          *)
(* update_windows.go:130-251).                                             *)
THEOREM HandOverInvariance == Spec => []HandOverInv
<1>1. Init => HandOverInv
  BY InitInv, InitGrounds, InitHandedOver DEF HandOverInv
<1>2. HandOverInv /\ [Next]_vars => HandOverInv'
  BY NextInv, NextGrounds, NextHandedOver DEF HandOverInv
<1> QED
  BY <1>1, <1>2, PTL DEF Spec

(* An update that met none of its weak points hands everything over: the   *)
(* version in service has a registry that lists what is installed, and the *)
(* files where the registry and its own DataFolder say                     *)
(* (update_linux.go:22-99, install_linux.go:22-57, update_windows.go:130-251). *)
THEOREM EverythingIsHandedOver == Spec => []CarriedOver
BY HandOverInvariance, PTL DEF HandOverInv
=============================================================================
