----------------------------- MODULE HostProofs -----------------------------
(***************************************************************************)
(* Proofs about Host, for any settings, number of versions, blocks, tries  *)
(* and attempts.                                                           *)
(***************************************************************************)
EXTENDS Host, SequenceTheorems, TLAPS

(* Where the enable is, and what it then has.                              *)
Control ==
  /\ pc \in {"idle", "resolve", "versioned", "unversioned", "failed"} => pkg = 0
  /\ pc \in {"remove", "open", "copy"} => pkg # 0 /\ result = "none"
  /\ result = "done" => pkg # 0
  /\ pc \in {"versioned", "unversioned"} =>
       Len(incoming) < Len(settings) /\ asked # Nameless
  /\ pc = "versioned" => asked # NoVersion
  /\ pc \notin {"versioned", "unversioned", "copy"} => phase = "none"
  /\ phase = "token" => arc

(* What is in a file that is being written, or was: blocks of published    *)
(* versions, and of one version if that is pinned.                         *)
OwnBlocks ==
  pc \in {"open", "copy"} \/ result = "done" =>
    \A k \in DOMAIN file :
      /\ file[k].version \in Versions
      /\ Pinned(pkg) => file[k].version = incoming[pkg].version

Inv == TypeOK /\ Control /\ ResolvedAsAsked /\ OwnBlocks

-----------------------------------------------------------------------------
(* The constants: at least one try, block, version and attempt, and the    *)
(* settings name versions.                                                 *)
LEMMA Constants ==
  /\ RetryN \in Nat \ {0}
  /\ MaxVersion \in Nat \ {0} /\ Size \in Nat \ {0} /\ MaxAttempts \in Nat \ {0}
  /\ \A s \in Settings : s \in Seq(Versions \cup {NoVersion, Nameless})
  /\ Nameless \notin Versions \cup {NoVersion}
BY RetryAssumption, HostAssumption

LEMMA SettingsAreSequences ==
  ASSUME TypeOK
  PROVE  settings \in Seq(Versions \cup {NoVersion, Nameless})
<1>1. CASE settings \in Settings
  BY <1>1, Constants
<1>2. CASE settings = <<>>
  BY <1>2, EmptySeq
<1> QED
  BY <1>1, <1>2 DEF TypeOK

(* The application of a download is one of the settings.                   *)
LEMMA PackageIsApp ==
  ASSUME TypeOK, ResolvedAsAsked, pkg # 0
  PROVE  /\ pkg \in DOMAIN incoming
         /\ pkg \in DOMAIN settings
         /\ pkg \in Apps
         /\ published[pkg] \in Versions
         /\ incoming[pkg].version \in Versions
<1>1. pkg \in DOMAIN incoming
  BY DEF TypeOK
<1>2. Len(incoming) \in Nat /\ Len(settings) \in Nat
  BY SettingsAreSequences DEF TypeOK
<1>3. pkg \in DOMAIN settings
  BY <1>1, <1>2, SettingsAreSequences DEF TypeOK, ResolvedAsAsked
<1>4. settings \in Settings
  BY <1>3 DEF TypeOK
<1>5. pkg \in Apps
  BY <1>3, <1>4 DEF Apps
<1>6. published[pkg] \in Versions
  BY <1>5 DEF TypeOK
<1> DEFINE Items == [version : Versions, strict : BOOLEAN]
<1>7. incoming \in Seq(Items)
  BY DEF TypeOK
<1>8. incoming[pkg] \in Items
  <2> HIDE DEF Items
  <2>1. pkg \in 1..Len(incoming)
    BY <1>1, <1>7
  <2> QED
    BY <1>7, <2>1, ElementOfSeq
<1> QED
  BY <1>1, <1>3, <1>5, <1>6, <1>8

(* What an attempt appends.                                                *)
LEMMA CopyAppends ==
  ASSUME TypeOK, ResolvedAsAsked, pkg # 0, NEW n \in 0..Rest, Copy(n)
  PROVE  \E v \in Versions :
           /\ Pinned(pkg) => v = incoming[pkg].version
           /\ file' = file \o [k \in 1..n |-> [version |-> v, nr |-> k]]
           /\ [k \in 1..n |-> [version |-> v, nr |-> k]] \in Seq(Blocks)
<1>1. PICK v \in Versions :
        /\ Pinned(pkg) => v = incoming[pkg].version
        /\ file' = file \o Body(v, n)
  BY PackageIsApp DEF Copy
<1>2. n \in Nat /\ n <= Size
  BY Constants DEF Rest, RangeStart
<1>3. Body(v, n) = [k \in 1..n |-> [version |-> v, nr |-> k]]
  BY DEF Body, RangeStart
<1>4. \A k \in 1..n : [version |-> v, nr |-> k] \in Blocks
  BY <1>2, Constants DEF Blocks
<1>5. [k \in 1..n |-> [version |-> v, nr |-> k]] \in Seq(Blocks)
  BY <1>2, <1>4
<1> QED
  BY <1>1, <1>3, <1>5

-----------------------------------------------------------------------------
(* Requests.                                                               *)
LEMMA RequestStep ==
  ASSUME RequestTypeOK, MakeRequest \/ RefuseChallenge
  PROVE  /\ RequestTypeOK'
         /\ phase \in {"sent", "token"}
         /\ phase' = "token" => arc'
         /\ UNCHANGED arc
<1>1. CASE MakeRequest
  BY <1>1, Constants DEF MakeRequest, RequestTypeOK, Answers, Delivered, Phases, Challenged,
     TryAgain, GiveUp
<1>2. CASE RefuseChallenge
  BY <1>2 DEF RefuseChallenge, RequestTypeOK, Answers, Phases, GiveUp
<1> QED
  BY <1>1, <1>2

LEMMA AskTypes ==
  ASSUME RequestTypeOK, Ask, UNCHANGED arc
  PROVE  RequestTypeOK' /\ phase' = "sent"
BY Constants DEF RequestTypeOK, Ask, Phases, Answers

LEMMA ForgetTypes ==
  ASSUME RequestTypeOK, Forget, arc' \in BOOLEAN
  PROVE  RequestTypeOK' /\ phase' = "none"
BY Constants DEF RequestTypeOK, Forget, Phases, Answers

-----------------------------------------------------------------------------
(* Resolution.                                                             *)
LEMMA AppendIncoming ==
  ASSUME TypeOK, ResolvedAsAsked, NEW v \in Versions, NEW strict \in BOOLEAN,
         Len(incoming) < Len(settings), asked # Nameless,
         strict => v = asked,
         incoming' = Append(incoming, [version |-> v, strict |-> strict])
  PROVE  /\ incoming' \in Seq([version : Versions, strict : BOOLEAN])
         /\ Len(incoming') = Len(incoming) + 1
         /\ \A i \in DOMAIN incoming' :
              /\ settings[i] # Nameless
              /\ incoming'[i].strict => incoming'[i].version = settings[i]
<1> DEFINE item == [version |-> v, strict |-> strict]
           Items == [version : Versions, strict : BOOLEAN]
<1>1. incoming \in Seq(Items) /\ item \in Items
  BY DEF TypeOK
<1> HIDE DEF item, Items
<1>2. incoming' = Append(incoming, item)
  BY DEF item
<1>3. /\ incoming' \in Seq(Items)
      /\ Len(incoming') = Len(incoming) + 1
      /\ \A i \in 1..Len(incoming) : incoming'[i] = incoming[i]
      /\ incoming'[Len(incoming) + 1] = item
      /\ Len(incoming) \in Nat
  BY <1>1, <1>2, AppendProperties
<1>4. DOMAIN incoming' = 1..Len(incoming) + 1 /\ DOMAIN incoming = 1..Len(incoming)
  BY <1>1, <1>3
<1>5. item.strict = strict /\ item.version = v
  BY DEF item
<1>6. asked = settings[Len(incoming) + 1]
  BY DEF asked, app
<1>7. ASSUME NEW i \in DOMAIN incoming'
      PROVE  /\ settings[i] # Nameless
             /\ incoming'[i].strict => incoming'[i].version = settings[i]
  <2>1. CASE i \in DOMAIN incoming
    BY <1>3, <1>4, <2>1 DEF ResolvedAsAsked
  <2>2. CASE i = Len(incoming) + 1
    BY <1>3, <1>5, <1>6, <2>2
  <2> QED
    BY <1>3, <1>4, <1>7, <2>1, <2>2
<1> QED
  BY <1>3, <1>7 DEF Items

LEMMA ResolveStep ==
  ASSUME Inv, ResolveNext \/ ResolveVersioned \/ ResolveUnversioned
  PROVE  Inv'
<1> USE DEF Inv
<1>0. /\ Len(incoming) \in Nat /\ Len(settings) \in Nat
      /\ RequestTypeOK /\ arc \in BOOLEAN /\ mismatches \in 0..RetryN - 1
  BY SettingsAreSequences DEF TypeOK, RequestTypeOK
<1>1. ASSUME ResolveNext PROVE Inv'
  <2>1. CASE app > Len(settings)
    <3>1. UNCHANGED <<request, resolution, published, download>> /\ pc' = "resolved"
      BY <1>0, <1>1, <2>1 DEF ResolveNext, app
    <3>2. Len(incoming) = Len(settings) /\ pc = "resolve"
      BY <1>0, <1>1, <2>1 DEF ResolveNext, app, ResolvedAsAsked
    <3> QED
      BY <3>1, <3>2 DEF request, resolution, download, TypeOK, RequestTypeOK, Control,
         ResolvedAsAsked, OwnBlocks, Pinned, asked, app
  <2>2. CASE app <= Len(settings) /\ asked = Nameless
    <3>1. /\ UNCHANGED <<request, settings, mismatches, published, download>>
          /\ pc' = "failed" /\ incoming' = <<>> /\ pc = "resolve"
      BY <1>0, <1>1, <2>2 DEF ResolveNext, app
    <3>2. incoming' \in Seq([version : Versions, strict : BOOLEAN]) /\ Len(incoming') = 0
          /\ DOMAIN incoming' = {}
      BY <3>1, EmptySeq
    <3>3. pkg = 0 /\ result # "done"
      BY <3>1 DEF Control
    <3>4. TypeOK'
      BY <1>0, <3>1, <3>2, <3>3 DEF request, download, TypeOK, RequestTypeOK
    <3> QED
      BY <1>0, <3>1, <3>2, <3>3, <3>4 DEF request, download, Control, ResolvedAsAsked, OwnBlocks
  <2>3. CASE app <= Len(settings) /\ asked # Nameless
    <3>1. /\ UNCHANGED <<arc, settings, incoming, published, download>>
          /\ pc' = IF asked = NoVersion THEN "unversioned" ELSE "versioned"
          /\ Ask /\ mismatches' = 0 /\ pc = "resolve"
      BY <1>0, <1>1, <2>3 DEF ResolveNext, app
    <3>2. RequestTypeOK' /\ phase' = "sent"
      BY <1>0, <3>1, AskTypes
    <3>3. Len(incoming) < Len(settings)
      BY <1>0, <2>3 DEF app
    <3>4. TypeOK'
      BY <1>0, <3>1, <3>2, Constants DEF TypeOK, download
    <3> QED
      BY <1>0, <2>3, <3>1, <3>2, <3>3, <3>4 DEF download, Control, ResolvedAsAsked, OwnBlocks,
         Pinned, asked, app
  <2> QED
    BY <1>1, <2>1, <2>2, <2>3 DEF ResolveNext
<1>2. ASSUME pc = "versioned" \/ pc = "unversioned", NEW v \in Versions, NEW strict \in BOOLEAN,
             strict => v = asked, Resolve(v, strict),
             UNCHANGED <<arc, settings, published, download>>
      PROVE  Inv'
  <2>1. Len(incoming) < Len(settings) /\ asked # Nameless /\ pkg = 0 /\ result # "done"
    BY <1>2 DEF Control
  <2>2. /\ incoming' \in Seq([version : Versions, strict : BOOLEAN])
        /\ Len(incoming') = Len(incoming) + 1
        /\ \A i \in DOMAIN incoming' :
             /\ settings[i] # Nameless
             /\ incoming'[i].strict => incoming'[i].version = settings[i]
    BY <1>2, <2>1, AppendIncoming DEF Resolve
  <2>3. RequestTypeOK' /\ phase' = "none" /\ pc' = "resolve" /\ UNCHANGED mismatches
    BY <1>0, <1>2, ForgetTypes DEF Resolve
  <2>4. TypeOK'
    BY <1>0, <1>2, <2>1, <2>2, <2>3 DEF TypeOK, download
  <2> QED
    BY <1>0, <1>2, <2>1, <2>2, <2>3, <2>4 DEF download, Control, ResolvedAsAsked, OwnBlocks
<1>3. ASSUME pc = "versioned", pc' \in {"versioned", "unversioned"}, Ask,
             mismatches' \in 0..RetryN - 1,
             UNCHANGED <<arc, settings, incoming, published, download>>
      PROVE  Inv'
  <2>1. RequestTypeOK' /\ phase' = "sent"
    BY <1>0, <1>3, AskTypes
  <2>2. TypeOK'
    BY <1>3, <2>1 DEF TypeOK, download
  <2> QED
    BY <1>3, <2>1, <2>2 DEF download, Control, ResolvedAsAsked, OwnBlocks, Pinned, asked, app
<1>4. ASSUME ResolveVersioned PROVE Inv'
  <2>1. pc = "versioned" /\ UNCHANGED <<arc, settings, published, download>>
    BY <1>4 DEF ResolveVersioned
  <2>2. CASE FallBack
    BY <1>0, <1>3, <2>1, <2>2 DEF FallBack
  <2>3. CASE InfoHas(asked) /\ Resolve(asked, TRUE)
    <3>1. asked \in Versions
      <4>1. Len(incoming) + 1 \in 1..Len(settings) /\ asked # Nameless /\ asked # NoVersion
        BY <1>0, <2>1 DEF Control
      <4>2. asked \in Versions \cup {NoVersion, Nameless}
        BY <4>1, SettingsAreSequences, ElementOfSeq DEF asked, app
      <4> QED
        BY <4>1, <4>2
    <3> QED
      BY <1>2, <2>1, <2>3, <3>1
  <2>4. CASE /\ mismatches + 1 < RetryN /\ mismatches' = mismatches + 1
             /\ Ask /\ UNCHANGED <<pc, incoming>>
    BY <1>0, <1>3, <2>1, <2>4, Constants
  <2> QED
    BY <1>4, <2>2, <2>3, <2>4 DEF ResolveVersioned
<1>5. ASSUME ResolveUnversioned PROVE Inv'
  <2>1. pc = "unversioned" /\ UNCHANGED <<arc, settings, published, download>>
    BY <1>5 DEF ResolveUnversioned
  <2>2. CASE \E v \in Versions : Resolve(v, FALSE)
    BY <1>2, <2>1, <2>2
  <2>3. CASE pc' = "failed" /\ Forget /\ UNCHANGED <<mismatches, incoming>>
    <3>1. RequestTypeOK' /\ phase' = "none"
      BY <1>0, <2>1, <2>3, ForgetTypes
    <3>2. TypeOK'
      BY <2>1, <2>3, <3>1 DEF TypeOK, download
    <3> QED
      BY <2>1, <2>3, <3>1, <3>2 DEF download, Control, ResolvedAsAsked, OwnBlocks
  <2> QED
    BY <1>5, <2>2, <2>3 DEF ResolveUnversioned
<1> QED
  BY <1>1, <1>4, <1>5

-----------------------------------------------------------------------------
(* Enables, versions and requests.                                         *)
LEMMA AroundStep ==
  ASSUME Inv, Publish \/ BeginEnable \/ EndEnable \/ Requests
  PROVE  Inv'
<1> USE DEF Inv
<1>0. RequestTypeOK
  BY DEF TypeOK
<1>e. /\ <<>> \in Seq([version : Versions, strict : BOOLEAN])
      /\ Len(<<>>) = 0 /\ DOMAIN <<>> = {}
  BY EmptySeq
<1>1. ASSUME Publish PROVE Inv'
  <2>1. published' \in [Apps -> Versions]
    BY <1>1, Constants DEF Publish, TypeOK, Versions
  <2> QED
    BY <1>1, <2>1 DEF Publish, request, resolution, download, TypeOK, RequestTypeOK, Control,
       ResolvedAsAsked, OwnBlocks, Pinned, asked, app
<1>2. ASSUME BeginEnable PROVE Inv'
  <2>1. RequestTypeOK' /\ phase' = "none"
    BY <1>0, <1>2 DEF BeginEnable, RequestTypeOK, Control
  <2>2. settings' \in Seq(Versions \cup {NoVersion, Nameless})
    BY <1>2, Constants DEF BeginEnable
  <2>3. TypeOK'
    BY <1>2, <1>e, <2>1 DEF BeginEnable, TypeOK
  <2> QED
    BY <1>2, <1>e, <2>1, <2>2, <2>3 DEF BeginEnable, Control, ResolvedAsAsked, OwnBlocks
<1>3. ASSUME EndEnable PROVE Inv'
  <2>1. RequestTypeOK' /\ phase' = "none"
    BY <1>0, <1>3, ForgetTypes DEF EndEnable, RequestTypeOK
  <2>2. TypeOK'
    BY <1>3, <1>e, <2>1, Constants DEF EndEnable, TypeOK
  <2> QED
    BY <1>3, <1>e, <2>1, <2>2 DEF EndEnable, Control, ResolvedAsAsked, OwnBlocks
<1>4. ASSUME Requests PROVE Inv'
  <2>1. /\ RequestTypeOK' /\ phase \in {"sent", "token"}
        /\ phase' = "token" => arc'
        /\ UNCHANGED <<arc, published, pc, resolution, download>>
    BY <1>0, <1>4, RequestStep DEF Requests
  <2>2. TypeOK'
    BY <2>1 DEF TypeOK, resolution, download
  <2> QED
    BY <2>1, <2>2 DEF resolution, download, Control, ResolvedAsAsked, OwnBlocks, Pinned, asked, app
<1> QED
  BY <1>1, <1>2, <1>3, <1>4

-----------------------------------------------------------------------------
(* Downloads.                                                              *)
LEMMA LeftoverIsBlock == <<Leftover>> \in Seq(Blocks) /\ <<>> \in Seq(Blocks)
<1>1. Leftover \in Blocks
  BY Constants DEF Leftover, Blocks
<1> HIDE DEF Leftover, Blocks
<1> QED
  BY <1>1, EmptySeq

LEMMA CopyKeeps ==
  ASSUME Inv, pc = "copy", NEW n \in 0..Rest, Copy(n),
         UNCHANGED <<arc, published, resolution, pkg>>
  PROVE  /\ file' \in Seq(Blocks)
         /\ \A k \in DOMAIN file' :
              /\ file'[k].version \in Versions
              /\ Pinned(pkg) => file'[k].version = incoming[pkg].version
<1>1. pkg # 0
  BY DEF Inv, Control
<1>2. PICK v \in Versions :
        /\ Pinned(pkg) => v = incoming[pkg].version
        /\ file' = file \o [k \in 1..n |-> [version |-> v, nr |-> k]]
        /\ [k \in 1..n |-> [version |-> v, nr |-> k]] \in Seq(Blocks)
  BY <1>1, CopyAppends DEF Inv
<1> DEFINE body == [k \in 1..n |-> [version |-> v, nr |-> k]]
<1>3. file \in Seq(Blocks) /\ body \in Seq(Blocks)
  BY <1>2 DEF Inv, TypeOK
<1>4. n \in Nat /\ Len(body) = n /\ \A k \in 1..n : body[k].version = v
  BY <1>3, Constants DEF Rest, RangeStart
<1> HIDE DEF body
<1>5. /\ file' \in Seq(Blocks)
      /\ Len(file') = Len(file) + n
      /\ \A k \in 1..Len(file) : file'[k] = file[k]
      /\ \A k \in Len(file) + 1 .. Len(file) + n : file'[k] = body[k - Len(file)]
      /\ Len(file) \in Nat
  BY <1>2, <1>3, <1>4, ConcatProperties DEF body
<1>6. \A k \in DOMAIN file :
        /\ file[k].version \in Versions
        /\ Pinned(pkg) => file[k].version = incoming[pkg].version
  BY DEF Inv, OwnBlocks
<1>7. DOMAIN file' = 1..Len(file) + n /\ DOMAIN file = 1..Len(file)
  BY <1>3, <1>5
<1>8. ASSUME NEW k \in DOMAIN file'
      PROVE  /\ file'[k].version \in Versions
             /\ Pinned(pkg) => file'[k].version = incoming[pkg].version
  <2>1. CASE k \in 1..Len(file)
    BY <1>5, <1>6, <1>7, <2>1
  <2>2. CASE k \in Len(file) + 1 .. Len(file) + n
    <3>1. k - Len(file) \in 1..n
      BY <1>4, <1>5, <2>2
    <3>2. file'[k].version = v
      BY <1>4, <1>5, <2>2, <3>1
    <3> QED
      BY <1>2, <3>2
  <2> QED
    BY <1>4, <1>5, <1>7, <2>1, <2>2
<1> QED
  BY <1>5, <1>8

LEMMA DownloadStep ==
  ASSUME Inv, StartDownload \/ RemoveFile \/ StartAttempt \/ EndAttempt
  PROVE  Inv'
<1> USE DEF Inv
<1>0. RequestTypeOK /\ arc \in BOOLEAN
  BY DEF TypeOK, RequestTypeOK
<1>p. incoming \in Seq([version : Versions, strict : BOOLEAN])
  BY DEF TypeOK
<1>1. ASSUME StartDownload PROVE Inv'
  <2>1. file' \in Seq(Blocks)
    BY <1>1, LeftoverIsBlock DEF StartDownload
  <2>2. pkg' \in DOMAIN incoming /\ pkg' \in 1..Len(incoming) /\ pkg' # 0
    BY <1>1, <1>p DEF StartDownload
  <2>3. TypeOK'
    BY <1>1, <2>1, <2>2 DEF StartDownload, request, resolution, TypeOK, RequestTypeOK
  <2> QED
    BY <1>1, <2>1, <2>2, <2>3 DEF StartDownload, request, resolution, Control,
       ResolvedAsAsked, OwnBlocks
<1>2. ASSUME DownloadEnds("failed"), UNCHANGED <<arc, published, resolution, pkg>>,
             pc \in {"remove", "open", "copy"}, file' \in Seq(Blocks)
      PROVE  Inv'
  <2>1. RequestTypeOK' /\ phase' = "none"
    BY <1>0, <1>2, ForgetTypes DEF DownloadEnds
  <2>2. TypeOK'
    BY <1>2, <2>1, Constants DEF DownloadEnds, resolution, TypeOK
  <2> QED
    BY <1>2, <2>1, <2>2 DEF DownloadEnds, resolution, Control, ResolvedAsAsked, OwnBlocks
<1>3. ASSUME RemoveFile PROVE Inv'
  <2>1. CASE file' = <<>> /\ pc' = "open" /\ UNCHANGED <<request, result, attempts>>
    <3>1. file' \in Seq(Blocks) /\ DOMAIN file' = {}
      BY <2>1, LeftoverIsBlock
    <3>2. TypeOK'
      BY <1>3, <2>1, <3>1 DEF RemoveFile, request, resolution, TypeOK, RequestTypeOK
    <3> QED
      BY <1>3, <2>1, <3>1, <3>2 DEF RemoveFile, request, resolution, Control,
         ResolvedAsAsked, OwnBlocks
  <2>2. CASE DownloadEnds("failed") /\ UNCHANGED <<arc, file>>
    BY <1>2, <1>3, <2>2 DEF RemoveFile, TypeOK
  <2> QED
    BY <1>3, <2>1, <2>2 DEF RemoveFile
<1>4. ASSUME StartAttempt PROVE Inv'
  <2>1. CASE /\ attempts < MaxAttempts /\ attempts' = attempts + 1
             /\ Ask /\ pc' = "copy" /\ UNCHANGED <<arc, result>>
    <3>1. RequestTypeOK' /\ phase' = "sent"
      BY <1>0, <2>1, AskTypes
    <3>2. attempts' \in 0..MaxAttempts
      BY <2>1, Constants DEF TypeOK
    <3>3. TypeOK'
      BY <1>4, <2>1, <3>1, <3>2 DEF StartAttempt, resolution, TypeOK
    <3> QED
      BY <1>4, <2>1, <3>1, <3>3 DEF StartAttempt, resolution, Control, ResolvedAsAsked,
         OwnBlocks, Pinned
  <2>2. CASE DownloadEnds("failed") /\ UNCHANGED arc
    BY <1>2, <1>4, <2>2 DEF StartAttempt, TypeOK
  <2> QED
    BY <1>4, <2>1, <2>2 DEF StartAttempt
<1>5. ASSUME EndAttempt PROVE Inv'
  <2>0. pc = "copy" /\ UNCHANGED <<arc, published, resolution, pkg>> /\ pkg # 0
    BY <1>5 DEF EndAttempt, Control
  <2>r. Rest = Size /\ Size \in Nat
    BY Constants DEF Rest, RangeStart
  <2>1. CASE CopyWhole
    <3>1. /\ file' \in Seq(Blocks)
          /\ \A k \in DOMAIN file' :
               /\ file'[k].version \in Versions
               /\ Pinned(pkg) => file'[k].version = incoming[pkg].version
      BY <2>0, <2>1, <2>r, CopyKeeps DEF CopyWhole
    <3>2. RequestTypeOK' /\ phase' = "none"
      BY <1>0, <2>0, <2>1, ForgetTypes DEF CopyWhole, DownloadEnds
    <3>3. TypeOK'
      BY <2>0, <2>1, <3>1, <3>2, Constants DEF CopyWhole, DownloadEnds, resolution, TypeOK
    <3> QED
      BY <2>0, <2>1, <3>1, <3>2, <3>3 DEF CopyWhole, DownloadEnds, resolution, Control,
         ResolvedAsAsked, OwnBlocks, Pinned
  <2>2. CASE CopyPart
    <3>1. /\ file' \in Seq(Blocks)
          /\ \A k \in DOMAIN file' :
               /\ file'[k].version \in Versions
               /\ Pinned(pkg) => file'[k].version = incoming[pkg].version
      BY <2>0, <2>2, CopyKeeps DEF CopyPart
    <3>2. RequestTypeOK' /\ phase' = "none"
      BY <1>0, <2>0, <2>2, ForgetTypes DEF CopyPart
    <3>3. TypeOK'
      BY <2>0, <2>2, <3>1, <3>2, Constants DEF CopyPart, resolution, TypeOK
    <3> QED
      BY <2>0, <2>2, <3>1, <3>2, <3>3 DEF CopyPart, resolution, Control,
         ResolvedAsAsked, OwnBlocks, Pinned
  <2>3. CASE CopyFails
    <3>1. file' \in Seq(Blocks)
      <4>1. CASE UNCHANGED file
        BY <4>1 DEF TypeOK
      <4>2. CASE \E n \in 0..Rest : Copy(n)
        BY <2>0, <4>2, CopyKeeps
      <4> QED
        BY <2>3, <4>1, <4>2 DEF CopyFails
    <3> QED
      BY <1>2, <2>0, <2>3, <3>1 DEF CopyFails
  <2> QED
    BY <1>5, <2>1, <2>2, <2>3 DEF EndAttempt
<1> QED
  BY <1>1, <1>3, <1>4, <1>5

-----------------------------------------------------------------------------
LEMMA InvInit == ASSUME Init PROVE Inv
<1>1. RequestTypeOK
  BY Constants DEF Init, NoRequest, RequestTypeOK, Phases, Answers
<1>2. /\ <<>> \in Seq([version : Versions, strict : BOOLEAN])
      /\ <<>> \in Seq(Blocks) /\ Len(<<>>) = 0 /\ DOMAIN <<>> = {}
  BY EmptySeq
<1>3. published \in [Apps -> Versions]
  BY Constants DEF Init, Versions
<1>4. TypeOK
  BY <1>1, <1>2, <1>3, Constants DEF Init, TypeOK
<1> QED
  BY <1>2, <1>4 DEF Init, NoRequest, Inv, Control, ResolvedAsAsked, OwnBlocks

LEMMA InvNext == ASSUME Inv, [Next]_vars PROVE Inv'
<1>1. CASE UNCHANGED vars
  BY <1>1 DEF vars, request, resolution, download, Inv, TypeOK, RequestTypeOK, Control,
     ResolvedAsAsked, OwnBlocks, Pinned, asked, app
<1> QED
  BY <1>1, AroundStep, ResolveStep, DownloadStep DEF Next, Manager

(* The inductive invariant: types, what each place of the enable has, what *)
(* was resolved, and whose blocks are in the file.                         *)
THEOREM Invariance == Spec => []Inv
<1> QED
  BY InvInit, InvNext, PTL DEF Spec

(* Every variable keeps its type: tries, mismatches and attempts stay      *)
(* within their limits, and what is written are blocks of published        *)
(* versions.                                                               *)
THEOREM TypeCorrectness == Spec => []TypeOK
<1>1. Inv => TypeOK
  BY DEF Inv
<1> QED
  BY <1>1, Invariance, PTL

(* The incoming collection follows the settings, and strict versions are   *)
(* those of the settings, whatever the host answers.                       *)
THEOREM ResolutionAsAsked == Spec => []ResolvedAsAsked
<1>1. Inv => ResolvedAsAsked
  BY DEF Inv
<1> QED
  BY <1>1, Invariance, PTL

(* With strict versioning on Azure a downloaded file is of the version of  *)
(* the settings, in any number of attempts and whatever is published.      *)
THEOREM StrictIsDelivered == Spec => []StrictDelivers
<1>1. ASSUME Inv PROVE StrictDelivers
  <2>1. SUFFICES ASSUME result = "done", ~arc, incoming[pkg].strict, NEW k \in DOMAIN file
                 PROVE  file[k].version = settings[pkg]
    BY DEF StrictDelivers
  <2>2. pkg \in DOMAIN incoming
    BY <1>1, <2>1, PackageIsApp DEF Inv, Control
  <2>3. file[k].version = incoming[pkg].version
    BY <1>1, <2>1 DEF Inv, OwnBlocks, Pinned
  <2> QED
    BY <1>1, <2>1, <2>2, <2>3 DEF Inv, ResolvedAsAsked
<1> QED
  BY <1>1, Invariance, PTL

(* Nothing of an earlier download is left in a downloaded file.            *)
THEOREM NothingOldIsLeft == Spec => []NothingOld
<1>1. ASSUME Inv PROVE NothingOld
  <2>1. ASSUME result = "done", NEW k \in DOMAIN file PROVE file[k] # Leftover
    <3>1. file[k].version \in Versions
      BY <1>1, <2>1 DEF Inv, OwnBlocks
    <3>2. NoVersion \notin Versions
      BY Constants DEF Versions, NoVersion
    <3> QED
      BY <3>1, <3>2 DEF Leftover
  <2> QED
    BY <2>1 DEF NothingOld
<1> QED
  BY <1>1, Invariance, PTL

-----------------------------------------------------------------------------
(* A whole package that is appended is the end of the file.                *)
LEMMA AppendedIsEnd ==
  ASSUME NEW S, NEW s \in Seq(S), NEW t \in Seq(S)
  PROVE  LET u == s \o t IN
         /\ Len(u) >= Len(t)
         /\ SubSeq(u, Len(u) - Len(t) + 1, Len(u)) = t
<1> DEFINE u == s \o t
<1>1. /\ u \in Seq(S) /\ Len(u) = Len(s) + Len(t)
      /\ Len(s) \in Nat /\ Len(t) \in Nat
      /\ \A k \in 1..Len(t) : u[Len(s) + k] = t[k]
  BY ConcatProperties
<1> HIDE DEF u
<1> DEFINE e == SubSeq(u, Len(s) + 1, Len(u))
<1>2. /\ e \in Seq(S) /\ Len(e) = Len(t)
      /\ \A k \in 1..Len(t) : e[k] = u[Len(s) + k]
  BY <1>1
<1> HIDE DEF e
<1>3. e = t
  BY <1>1, <1>2, SeqEqual
<1>4. Len(u) - Len(t) + 1 = Len(s) + 1 /\ Len(u) >= Len(t)
  BY <1>1
<1> QED
  BY <1>3, <1>4 DEF u, e

LEMMA WholeStep == ASSUME Inv, EndsWhole, [Next]_vars PROVE EndsWhole'
<1> USE DEF Inv
<1>1. CASE EndAttempt /\ CopyWhole
  <2>0. pc = "copy" /\ UNCHANGED <<arc, published, resolution, pkg>> /\ pkg # 0
    BY <1>1 DEF EndAttempt, Control
  <2>1. Rest = Size /\ Size \in Nat /\ Copy(Size)
    BY <1>1, Constants DEF CopyWhole, Rest, RangeStart
  <2>2. PICK v \in Versions : file' = file \o Whole(v) /\ Whole(v) \in Seq(Blocks)
    BY <2>0, <2>1, CopyAppends DEF Whole
  <2>3. Len(Whole(v)) = Size
    BY <2>1, <2>2 DEF Whole
  <2>4. file \in Seq(Blocks)
    BY DEF TypeOK
  <2>5. /\ Len(file') >= Size
        /\ SubSeq(file', Len(file') - Size + 1, Len(file')) = Whole(v)
    BY <2>2, <2>3, <2>4, AppendedIsEnd
  <2> QED
    BY <2>5 DEF EndsWhole, Whole
<1>2. ASSUME result' = "done" => result = "done" /\ UNCHANGED file PROVE EndsWhole'
  BY <1>2 DEF EndsWhole, Whole
<1>3. CASE EndAttempt /\ ~CopyWhole
  BY <1>2, <1>3 DEF EndAttempt, CopyPart, CopyFails, DownloadEnds, Control
<1>4. CASE UNCHANGED vars
  BY <1>2, <1>4 DEF vars, download
<1>5. CASE Publish \/ BeginEnable \/ EndEnable \/ Requests
  BY <1>2, <1>5 DEF Publish, BeginEnable, EndEnable, Requests, download
<1>6. CASE StartDownload
  BY <1>2, <1>6 DEF StartDownload
<1>7. CASE ResolveNext \/ ResolveVersioned \/ ResolveUnversioned
  BY <1>2, <1>7 DEF ResolveNext, ResolveVersioned, ResolveUnversioned, download
<1>8. CASE RemoveFile \/ StartAttempt
  BY <1>2, <1>8 DEF RemoveFile, StartAttempt, DownloadEnds, Control
<1> QED
  BY <1>1, <1>3, <1>4, <1>5, <1>6, <1>7, <1>8 DEF Next, Manager

(* A file that is reported as downloaded ends with a whole package of one  *)
(* version, for any size, number of attempts and cuts.                     *)
THEOREM DownloadedEndsWhole == Spec => []EndsWhole
<1>1. Init => EndsWhole
  BY DEF Init, EndsWhole
<1>2. Inv /\ EndsWhole /\ [Next]_vars => EndsWhole'
  BY WholeStep
<1> QED
  BY <1>1, <1>2, Invariance, PTL DEF Spec

-----------------------------------------------------------------------------
LEMMA RetriedStep == ASSUME Inv, TransientRetried, [Next]_vars PROVE TransientRetried'
<1> USE DEF Inv
<1>1. ASSUME phase' # "failed" PROVE TransientRetried'
  BY <1>1 DEF TransientRetried
<1>2. CASE Requests
  <2>1. CASE MakeRequest
    <3>1. PICK a \in Answers :
            /\ answer' = a
            /\ phase \in {"sent", "token"} /\ UNCHANGED arc
            /\ \/ a \in Delivered /\ phase' = a /\ UNCHANGED tries
               \/ Challenged(a) /\ phase' = "token" /\ UNCHANGED tries
               \/ Transient(a) /\ TryAgain
               \/ a \notin Delivered /\ ~Challenged(a) /\ ~Transient(a) /\ GiveUp
      BY <2>1 DEF MakeRequest
    <3>2. phase = "token" => arc
      BY DEF Control
    <3>3. ~arc => (a \in {"busy", "timeout"} => Transient(a))
      BY <3>1, <3>2 DEF Transient
    <3>4. a = "busy" => Transient(a)
      BY DEF Transient
    <3> QED
      BY <3>1, <3>3, <3>4 DEF TransientRetried, TryAgain, GiveUp, Delivered
  <2>2. CASE RefuseChallenge
    BY <2>2 DEF RefuseChallenge, TransientRetried
  <2> QED
    BY <1>2, <2>1, <2>2 DEF Requests
<1>3. CASE UNCHANGED request
  BY <1>3 DEF request, TransientRetried
<1>4. CASE BeginEnable
  BY <1>1, <1>4 DEF BeginEnable, Control
<1>5. CASE EndEnable \/ RemoveFile \/ StartAttempt \/ EndAttempt
  BY <1>1, <1>3, <1>5 DEF EndEnable, RemoveFile, StartAttempt, EndAttempt, CopyWhole, CopyPart,
     CopyFails, DownloadEnds, Forget, Ask
<1>6. CASE ResolveNext \/ ResolveVersioned \/ ResolveUnversioned
  BY <1>1, <1>3, <1>6 DEF ResolveNext, ResolveVersioned, ResolveUnversioned, Resolve, FallBack,
     Forget, Ask
<1>7. CASE Publish \/ StartDownload
  BY <1>3, <1>7 DEF Publish, StartDownload
<1>8. CASE UNCHANGED vars
  BY <1>3, <1>8 DEF vars
<1> QED
  BY <1>2, <1>4, <1>5, <1>6, <1>7, <1>8 DEF Next, Manager

(* A transient error fails a call only after all its tries, except for a   *)
(* timeout on Arc.                                                         *)
THEOREM TransientIsRetried == Spec => []TransientRetried
<1>1. Init => TransientRetried
  BY DEF Init, NoRequest, TransientRetried
<1>2. Inv /\ TransientRetried /\ [Next]_vars => TransientRetried'
  BY RetriedStep
<1> QED
  BY <1>1, <1>2, Invariance, PTL DEF Spec
=============================================================================
