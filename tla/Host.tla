-------------------------------- MODULE Host --------------------------------
(***************************************************************************)
(* What an enable does with the host: main/resolvevmapp.go asks it for the *)
(* metadata of every application of the settings, and later the action     *)
(* plan has packages and configurations downloaded (internal/hostga-       *)
(* communicator). All requests of a manager are made one after the other.  *)
(*                                                                         *)
(* A package is Size blocks of one version. The host is not part of this   *)
(* repository: it may publish new versions at any moment, answers a request *)
(* without a version with the newest, and sends a file from the byte that  *)
(* the range header names. Metadata that were asked for with a version may *)
(* nevertheless be those of the newest (resolvevmapp.go:37); a package that *)
(* was asked for with a version is that one.                               *)
(***************************************************************************)
EXTENDS HostRequest, Sequences

CONSTANTS
  Settings,      \* the settings: sequences of applications
  Nameless,      \* in them, an application without a name
  MaxVersion,    \* bound: versions that are published of an application
  Size,          \* blocks of a package
  MaxAttempts    \* maxDownloadAttempts

Versions == 1..MaxVersion
NoVersion == 0   \* in the settings; in metadata, the empty version
Apps == UNION {DOMAIN s : s \in Settings}

ASSUME HostAssumption ==
  /\ {MaxVersion, Size, MaxAttempts} \subseteq Nat \ {0}
  /\ Settings \subseteq Seq(Versions \cup {NoVersion, Nameless})
  /\ Nameless \notin Versions \cup {NoVersion}

VARIABLES
  published,   \* the newest version of each application
  settings,    \* what this enable was asked for
  pc,          \* where it is; "idle" between enables
  mismatches,  \* n of WithRetriesOnError
  incoming,    \* the incoming collection
  pkg,         \* the package that is downloaded, 0 if there was none
  attempts,    \* attempts of downloadFile
  file,        \* the destination: a sequence of blocks
  result       \* of downloadFile

resolution == <<settings, mismatches, incoming>>
download == <<pkg, attempts, file, result>>
vars == <<request, published, pc, resolution, download>>

Blocks == [version : Versions \cup {NoVersion}, nr : 1..Size]

(* A block that an earlier download left at the destination.               *)
Leftover == [version |-> NoVersion, nr |-> 1]

Init ==
  /\ arc \in BOOLEAN
  /\ NoRequest
  /\ published = [a \in Apps |-> 1]
  /\ settings = <<>>
  /\ pc = "idle"
  /\ mismatches = 0
  /\ incoming = <<>>
  /\ pkg = 0
  /\ attempts = 0
  /\ file = <<>>
  /\ result = "none"

-----------------------------------------------------------------------------
Publish ==
  /\ \E a \in Apps :
       /\ published[a] < MaxVersion
       /\ published' = [published EXCEPT ![a] = @ + 1]
  /\ UNCHANGED <<request, pc, resolution, download>>

(* The manager of an enable; it finds out about the Arc agent.             *)
BeginEnable ==
  /\ pc = "idle"
  /\ pc' = "resolve"
  /\ settings' \in Settings
  /\ arc' \in BOOLEAN
  /\ incoming' = <<>>
  /\ pkg' = 0
  /\ result' = "none"
  /\ UNCHANGED <<phase, tries, answer, published, mismatches, attempts, file>>

(* The enable returns, or its process is ended.                            *)
EndEnable ==
  /\ pc # "idle"
  /\ pc' = "idle"
  /\ Forget
  /\ settings' = <<>>
  /\ mismatches' = 0
  /\ incoming' = <<>>
  /\ pkg' = 0
  /\ attempts' = 0
  /\ result' = "none"
  /\ UNCHANGED <<arc, published, file>>

-----------------------------------------------------------------------------
(* getVMAppIncomingCollection: the application it has come to.             *)
app == Len(incoming) + 1
asked == settings[app]

(* The URL of getMetadataRequestManager has the version, except on Arc.    *)
MetadataPinned == pc = "versioned" /\ ~arc

(* The versions that metadata may have.                                    *)
MetadataVersions ==
  {NoVersion, published[app]} \cup (IF MetadataPinned THEN {asked} ELSE {})

(* GetVMAppInfo returns: the request failed, or the body is no metadata, or *)
(* the metadata have a version.                                            *)
InfoFails == phase \in Delivered \cup {"failed"}
InfoHas(v) == phase \in Delivered /\ v \in MetadataVersions

ResolveNext ==
  /\ pc = "resolve"
  /\ \/ /\ app > Len(settings)
        /\ pc' = "resolved"
        /\ UNCHANGED <<request, resolution>>
     \/ /\ app <= Len(settings)
        /\ asked = Nameless
        /\ pc' = "failed"
        /\ incoming' = <<>>
        /\ UNCHANGED <<request, settings, mismatches>>
     \/ /\ app <= Len(settings)
        /\ asked # Nameless
        /\ pc' = IF asked = NoVersion THEN "unversioned" ELSE "versioned"
        /\ Ask
        /\ mismatches' = 0
        /\ UNCHANGED <<arc, settings, incoming>>
  /\ UNCHANGED <<published, download>>

Resolve(v, strict) ==
  /\ incoming' = Append(incoming, [version |-> v, strict |-> strict])
  /\ pc' = "resolve"
  /\ Forget
  /\ UNCHANGED <<mismatches>>

FallBack ==
  /\ pc' = "unversioned"
  /\ Ask
  /\ UNCHANGED <<mismatches, incoming>>

ResolveAnyVersioned ==
  /\ pc = "versioned"
  /\ \/ (InfoFails \/ InfoHas(NoVersion)) /\ FallBack
     \/ \E v \in Versions : InfoHas(v) /\ Resolve(v, TRUE)
  /\ UNCHANGED <<arc, settings, published, download>>

(* The versioned request. Only another version is worth asking again.      *)
ResolveVersioned ==
  /\ pc = "versioned"
  /\ \/ (InfoFails \/ InfoHas(NoVersion)) /\ FallBack
     \/ InfoHas(asked) /\ Resolve(asked, TRUE)
     \/ \E v \in Versions \ {asked} :
          /\ InfoHas(v)
          /\ mismatches + 1 < RetryN
          /\ mismatches' = mismatches + 1
          /\ Ask
          /\ UNCHANGED <<pc, incoming>>
     \/ \E v \in Versions \ {asked} :
          InfoHas(v) /\ mismatches + 1 = RetryN /\ FallBack
  /\ UNCHANGED <<arc, settings, published, download>>

(* The unversioned request: first for an application without version, and  *)
(* the last resort for one with. An error ends the enable.                 *)
ResolveUnversioned ==
  /\ pc = "unversioned"
  /\ \/ \E v \in Versions : InfoHas(v) /\ Resolve(v, FALSE)
     \/ /\ InfoFails \/ InfoHas(NoVersion)
        /\ pc' = "failed"
        /\ Forget
        /\ UNCHANGED <<mismatches, incoming>>
  /\ UNCHANGED <<arc, settings, published, download>>

-----------------------------------------------------------------------------
PinnedIfFirst(p) == incoming[p].strict /\ ~arc /\ attempts = 1

(* The version is in the URL of the request factory, for all attempts.     *)
Pinned(p) == incoming[p].strict /\ ~arc

DownloadEnds(r) ==
  /\ pc' = "resolved"
  /\ attempts' = 0
  /\ result' = r
  /\ Forget

(* DownloadPackage, DownloadConfig: the action plan wants a file of some   *)
(* application. An earlier download may have left something there.         *)
StartDownload ==
  /\ pc = "resolved"
  /\ \E p \in DOMAIN incoming : pkg' = p
  /\ file' \in {<<>>, <<Leftover>>}
  /\ \/ pc' = "remove" /\ result' = "none"
     \/ UNCHANGED pc /\ result' = "failed"    \* no URL could be built
  /\ UNCHANGED <<request, published, resolution, attempts>>

RemoveNothing ==
  /\ pc = "remove"
  /\ \/ pc' = "open" /\ UNCHANGED <<request, file, result, attempts>>
     \/ DownloadEnds("failed") /\ UNCHANGED <<arc, file>>
  /\ UNCHANGED <<published, resolution, pkg>>

RemoveFile ==
  /\ pc = "remove"
  /\ \/ /\ file' = <<>>
        /\ pc' = "open"
        /\ UNCHANGED <<request, result, attempts>>
     \/ /\ DownloadEnds("failed")
        /\ UNCHANGED <<arc, file>>
  /\ UNCHANGED <<published, resolution, pkg>>

StartOneMore ==
  /\ pc = "open"
  /\ \/ /\ attempts <= MaxAttempts
        /\ attempts' = attempts + 1
        /\ Ask
        /\ pc' = "copy"
        /\ UNCHANGED <<arc, result>>
     \/ DownloadEnds("failed") /\ UNCHANGED arc
  /\ UNCHANGED <<published, resolution, pkg, file>>

(* The loop of downloadFile, and downloadAttempt up to its request. Opening *)
(* the file may fail.                                                      *)
StartAttempt ==
  /\ pc = "open"
  /\ \/ /\ attempts < MaxAttempts
        /\ attempts' = attempts + 1
        /\ Ask
        /\ pc' = "copy"
        /\ UNCHANGED <<arc, result>>
     \/ DownloadEnds("failed") /\ UNCHANGED arc
  /\ UNCHANGED <<published, resolution, pkg, file>>

(* The block after which GetRequest asks the host to begin, when the file  *)
(* has size blocks. downloadAttempt gives a copy of the factory to the     *)
(* request manager before it notes the size in its own, so the range is    *)
(* always that of an empty file.                                           *)
RangeStart(size) == 0

(* n blocks of a version, from the one asked for.                          *)
Body(v, n) ==
  [k \in 1..n |-> [version |-> v, nr |-> RangeStart(Len(file)) + k]]

Rest == Size - RangeStart(Len(file))

(* io.Copy to the end of the file, of what the host sends. The copy is over *)
(* when the host sent everything; it goes on in the next attempt when the  *)
(* host says it is a part, or the connection broke, if only at the end.    *)
Copy(n) ==
  \E v \in {IF Pinned(pkg) THEN incoming[pkg].version ELSE published[pkg]} :
    file' = file \o Body(v, n)

CopyDone ==
  /\ phase \in Delivered
  /\ \E n \in 0..Rest : Copy(n)
  /\ DownloadEnds("done")

CopyWhole ==
  /\ phase = "whole"
  /\ Copy(Rest)
  /\ DownloadEnds("done")

CopyPart ==
  /\ phase \in Delivered
  /\ \E n \in 0..Rest : Copy(n)
  /\ pc' = "open"
  /\ Forget
  /\ UNCHANGED <<attempts, result>>

(* The request failed, or the body ended with another error.               *)
CopyFails ==
  /\ \/ phase = "failed" /\ UNCHANGED file
     \/ phase \in Delivered /\ \E n \in 0..Rest : Copy(n)
  /\ DownloadEnds("failed")

(* downloadAttempt, from the answer to its request.                        *)
EndAttempt ==
  /\ pc = "copy"
  /\ CopyWhole \/ CopyPart \/ CopyFails
  /\ UNCHANGED <<arc, published, resolution, pkg>>

-----------------------------------------------------------------------------
Requests ==
  /\ MakeRequest \/ RefuseChallenge
  /\ UNCHANGED <<published, pc, resolution, download>>

Manager ==
  \/ Requests
  \/ ResolveNext \/ ResolveVersioned \/ ResolveUnversioned
  \/ RemoveFile \/ StartAttempt \/ EndAttempt

Next ==
  \/ Publish
  \/ BeginEnable
  \/ EndEnable
  \/ StartDownload
  \/ Manager

Spec == Init /\ [][Next]_vars

(* The manager runs, and every request has a timeout (request.go:48).      *)
FairSpec == Spec /\ WF_vars(Manager)

-----------------------------------------------------------------------------
TypeOK ==
  /\ RequestTypeOK
  /\ published \in [Apps -> Versions]
  /\ settings \in Settings \cup {<<>>}
  /\ pc \in {"idle", "resolve", "versioned", "unversioned", "failed",
             "resolved", "remove", "open", "copy"}
  /\ mismatches \in 0..RetryN - 1
  /\ incoming \in Seq([version : Versions, strict : BOOLEAN])
  /\ pkg \in 0..Len(incoming)
  /\ attempts \in 0..MaxAttempts
  /\ file \in Seq(Blocks)
  /\ result \in {"none", "done", "failed"}

(* The incoming collection follows the settings, application by            *)
(* application, and is complete when the plan gets it. An application that *)
(* is marked for strict versioning has the version that was asked for, also *)
(* when the host answered some requests with other versions                *)
(* (resolvevmapp.go:27-55).                                                *)
ResolvedAsAsked ==
  /\ Len(incoming) <= Len(settings)
  /\ pc \in {"resolved", "remove", "open", "copy"} => Len(incoming) = Len(settings)
  /\ \A i \in DOMAIN incoming :
       /\ settings[i] # Nameless
       /\ incoming[i].strict => incoming[i].version = settings[i]

(* With strict versioning on Azure, everything in a file that was          *)
(* downloaded is of the version in the settings, whatever was published    *)
(* between metadata and package, or between two attempts                   *)
(* (hostgacommunicator.go:146-147, 178-179).                               *)
StrictDelivers ==
  result = "done" /\ ~arc /\ incoming[pkg].strict =>
    \A k \in DOMAIN file : file[k].version = settings[pkg]

(* The file at the destination holds nothing of an earlier download, once  *)
(* this one is over and successful (downloadFile removes it,               *)
(* download.go:90-94; attempts append to what they find).                  *)
NothingOld ==
  result = "done" => \A k \in DOMAIN file : file[k] # Leftover

Whole(v) == [k \in 1..Size |-> [version |-> v, nr |-> k]]

(* A file that is reported as downloaded ends with a whole package, of one *)
(* version, however often the download was interrupted: what a cut attempt *)
(* or a partial answer (download.go:161-179) wrote is never taken for it.  *)
EndsWhole ==
  result = "done" =>
    /\ Len(file) >= Size
    /\ \E v \in Versions :
         SubSeq(file, Len(file) - Size + 1, Len(file)) = Whole(v)

(* An answer that is known to pass fails a call only after all its tries   *)
(* (retry.go:104-135). On Arc this does not hold of timeouts: that of the  *)
(* request with the token is wrapped (arcauth.go:127), and not recognized. *)
TransientRetried ==
  phase = "failed" /\ (answer = "busy" \/ (answer = "timeout" /\ ~arc)) =>
    tries = RetryN

(* Resolution, and every download, ends: with a file, an error, or the end *)
(* of the process, also if the host never gives a useful answer            *)
(* (retry.go:52-74, 77-145, download.go:99).                               *)
CallsEnd ==
  pc \notin {"idle", "resolved", "failed"} ~> pc \in {"idle", "resolved", "failed"}

(* The claim of hostgacommunicator.go:137-139: after a failure a download  *)
(* goes on at the last received byte, and the file is rebuilt from the     *)
(* parts. It then holds each block once.                                   *)
RebuiltFromParts ==
  result = "done" => \E v \in Versions : file = Whole(v)
=============================================================================
