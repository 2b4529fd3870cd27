# Verification of the VM Applications extension

TLA+ models of the Azure VM Applications extension, checked with TLC and, for
the core, proved with TLAPS. Source lines below are those of this repository.

## The system

The extension runs on a virtual machine. The guest agent calls the *launcher*
(`src/launcher`), which writes a first status file and starts the *manager*
(`src/main`) as a process of its own. The manager takes a lock, reads the goal
(the applications the machine should have), resolves it with the host, plans
what has to be done, runs the commands of the applications, records every
operation in the *package registry*, runs *custom actions*, and writes a status
file for the guest agent. It may be killed at any moment, and the commands it
runs may reboot the machine.

| part | state | operations | interacts with |
|---|---|---|---|
| package registry (`internal/packageregistry`) | `applicationRegistry.active`, its backup, the lock file | `New`, `GetExistingPackages`, `WriteToDisk`, `Close` | action plan, enable |
| action plan (`internal/actionplan`) | the planned groups, the registry in memory, failed order, results | `New`, `Execute`, `executeHelper` | registry, downloads, commands |
| enable (`main/main.go`, `launcher`, `pkg/utils/status.go`) | lock, status file and its backup, sequence numbers | launcher `main`, `customEnable`, `computeStatus`, `ReportStatus`, `BackupStatusFile` | all others, the guest agent |
| custom actions (`internal/customactionplan`) | tick count file, planned actions | `New`, `Execute`, `executeHelper` | enable, commands |
| metadata and downloads (`main/resolvevmapp.go`, `internal/hostgacommunicator`, `internal/requesthelper`) | files being downloaded, attempt counters | `getVMAppIncomingCollection`, `GetVMAppInfo`, `DownloadPackage`, `WithRetries`, Arc challenge | host, Arc agent |
| extension update and install (`main/update*.go`, `main/install*.go`, `main/mvdirs_linux.go`) | registries and package directories of two extension versions | update and install callbacks, `moveDirsAll` | registry |
| versions (`pkg/utils/versionstringutils.go`) | none | `AreVersionsEqual`, `CompareVersion` | action plan, update |

What is hard in this code: the process dies between two file operations, or in
the middle of a command; a command reboots the machine, and the next boot must
go on where the last one stopped, but not for ever; goals change while earlier
ones are half executed; a failure must stop the operations of a higher order
and no others; file operations fail; a second manager is started while the
first one runs; answers of the host are lost, late or cut.


## What makes each part correct

- *Package registry*: at every moment of a save a complete copy exists; a
  reader never gets a registry older than the last one saved.
- *Action plan*: the registry never claims more than happened; lower orders
  come first and stop higher ones when they fail; after an enable nothing is
  left to do for an application that did not fail; a command is not run twice;
  reboots are bounded; an interrupted operation is taken up again.
- *Enable*: one manager at a time executes a plan and answers for it; a failed
  deployment is shown; a plan that was not run is not answered; a goal is recorded
  as executed only after a status was written for it; every goal is answered.
- *Custom actions*: one whose tick count was recorded is not run again; one that
  was planned is not passed over by others, and gets its turn.
- *Metadata and downloads*: an application is resolved to the version that was
  asked for, or known not to be; a file that is reported as downloaded is a whole
  package of one version, and of the right one; errors that pass are retried, and
  everything ends.
- *Extension update*: registry and package directories are kept while they move to
  a new extension version, and arrive together.
- *Versions*: equality of version strings is an equivalence, that of their numbers.

## Modules

| module | what it is |
|---|---|
| `RegistryOutcomes` | what a call of `WriteToDisk` may leave, as operators |
| `RegistryStore` | abstract specification of the registry file: a cell with a save that is not atomic under errors and kills |
| `RegistryFile` | `WriteToDisk` file operation by file operation; implements `RegistryStore` |
| `RegistryFileProofs` | invariants and the refinement, proved |
| `ActionPlan`, `MCActionPlan` | `actionplan.New`, `Execute`, `executeHelper` over successive enables; the desired collections of its runs |
| `OperationLog` | abstract specification of what `executeHelper` makes of the registry: a log of operations, written ahead; `ActionPlan` implements it |
| `ActionPlanProofs` | types and `RegistryTruthful`, proved |
| `ActionPlanGoalProofs` | its other safety and action properties, proved: order, settling, reboots, one run per command, removal, files; and the refinement of `OperationLog` |
| `EnableProtocol`, `MCEnableProtocol` | agent, launcher, managers, lock, status files; the goals of its run |
| `EnableProtocolProofs` | its safety invariants, proved |
| `CustomActions`, `MCCustomActions` | `customactionplan.New`, `Execute`, `executeHelper` and the tick count file; the actions of its runs |
| `CustomActionsProofs` | types, `RunOnce` and `NonePassedOver`, proved |
| `HostRequest` | one request with its retries, on Azure and on Arc, as operators and actions |
| `Host`, `MCHost` | resolution of the metadata and downloads over `HostRequest`; the settings of its runs |
| `HostProofs` | its safety invariants, proved |
| `ExtensionUpdate` | update and install callbacks on Linux and Windows, with the agent that calls them |
| `ExtensionUpdateProofs` | types, `NothingLostByUpdate` and `CarriedOver`, proved |
| `VersionStrings`, `VersionStringsProofs` | equality of version strings as operators; proved to be what it should be |

`ActionPlan` uses `RegistryOutcomes`: its `WriteToDisk` leaves on the disk what
`RegistryFile` is shown to leave there, so the file operations do not multiply
the states of the plan. `EnableProtocol` reduces plan and registry to one
application and adds what `ActionPlan` leaves out: several processes, the lock
and the answer. `CustomActions` stands beside them: custom actions run under the
same lock, after the plan, and of the registry they only ask whether it has the
application. `Host` is what an enable does with the host, before and inside the
plan: `ActionPlan` and `EnableProtocol` see of it only that a resolution or a
download fails or not. `ExtensionUpdate` is what happens between two versions of
the whole, and uses `RegistryOutcomes` for its one call of `WriteToDisk`.
`MCActionPlan` instantiates `VersionStrings`: `ActionPlan` takes versions up to
`AreVersionsEqual`, which is sound because that is an equivalence.

### RegistryFile

`active` and `backup` are the two files: absent, empty, cut, or holding a
registry. The actions are the calls in `WriteToDisk` (packageregistry.go:196-224),
with `os.WriteFile` in two halves (truncate, write), each able to fail, and
`KillAndRestart` between any two. `Read` is `GetExistingPackages` (165-194).
`view` is what the reader got, `outcome` whether the last save returned an
error or was cut.

The model makes visible: a kill after the truncation leaves an empty active
file, which reads as the empty registry; the backup is never read, and the next
save renames the empty file over it. An error of `os.WriteFile` is replaced by
the result of removing the backup (216-221), so a caller may believe in a save
that lost the file. These are outcomes of `RegistryOutcomes`, and the rest of
the models lives with them.

### ActionPlan

| state | code |
|---|---|
| `want` | the incoming collection of the enable, with order, update command, failure and reboot settings |
| `disk`, `registry` | the registry file; the map `registry` of `Execute` |
| `plan` | the planned groups of dependent actions, what is left of them |
| `pc`, `cur`, `err`, `failedOrder`, `results`, `deployFailed` | where `Execute` and `executeHelper` are, and their local variables |
| `files` | the package working directories that have been downloaded |
| `last`, `cuts` | history: the last command of each application, and how often it was cut by a reboot |

`BeginEnable` is `New`; `RecordOperation` saves the operation before it starts
(executehelper.go:47-51); `RefuseCommand`, `StartCommand`, `CommandEnds` and
`Reboot` are the middle of `executeHelper`; `FinishOperation` its end; `Skip`
and `CleanUp` the other ways through `Execute`. Go maps have no order, so the
order among equals is a choice. `Reboot` is the SIGTERM branch
(executehelper.go:194-222). `Kill` ends the process anywhere. An operation lost
in a plain kill is *not* planned again: `New` retries an entry of the same
version only if it counts reboots (actionplan.go:204).

`ImplementsLog` says that all of this amounts to `OperationLog`: one operation
at a time, in the file before its command runs; an outcome in the file that the
command had; a reboot counted, or taken for the end; a kill that leaves the
operation where it was; an entry dropped only by the end of a remove or after a
skip. The log is the registry file, the operation under way is `cur`, its phase
`OperationPhase`. What the log does not say is which operation comes next: that is
`New` and `Execute`, and the other properties. Where a save fails or is cut, the
log promises nothing (`lost`), because the code goes on in memory with what the
file may not have.

Visible in the model, and not prevented by the code:

- the reboot count of an interrupted install is carried over to the remove that
  `New` plans from its entry (actionplan.go:178, 195); at `MaxReboots` that
  remove is refused although it never ran, and the message
  (executehelper.go:73-75) blames it for the reboots;
- a remove deletes the working directory also when its command failed
  (executehelper.go:231), so its retry runs without the package files
  (executehelper.go:135 speaks of the existing ones). `InstalledHasFiles` says
  what does hold: the files of what is installed stay;
- what `New` retries after a reboot is the operation that the entry recorded,
  whatever the goal says by then (actionplan.go:204-209): a remove that was cut
  is retried although the application is desired again, and nothing installs it
  in that enable, which reports success. `EnableSettles` excuses it by
  `LeftUndone`;
- between the two commands of an update by removal the entry says `NoAction` of
  the version that was just removed (executehelper.go:241); if the process dies
  there and the goal goes back to that version, nothing is planned, and the
  application is reported as installed.

### EnableProtocol

| state | code |
|---|---|
| `newest`, `currentSeq` | the agent's settings; the sequence number file |
| `status`, `lastStable` | `<n>.status`, `<n>.lastStableStatus` |
| `lock` | the lock that `packageregistry.New` takes |
| `launcher`, `mgr` | the processes: program counter, requested sequence number, the settings read, `vmAppResults`, whether a deployment failed, the status to write; as a history, what became of the last save of the plan |
| `entry` | the registry, reduced to one application whose failure fails the deployment |
| `answered`, `kept`, `failure` | history |

`Launch` reads (launcher/main.go:81-96), `WriteTransitioning` writes in a step
of its own, `StartManager` is the independent process. `AcquireLock`,
`LockTimeout`, `LockError` are the three results of main.go:186; `ResolveGoal`
and `ResolveFails` the settings and the host. `StartWork` and `FinishWork` are
the two saves of `executeHelper` with the command between them, `NothingToDo` an
empty plan, and `ExecuteUnread` the read of the registry in `Execute` that fails
(actionplan.go:241-244). `RunCustomActions` appends to the same `vmAppResults`
when an action succeeds (customactionplan.go:145, main.go:245). `EnableFails` is
the error of one of the three reads in `customEnable` itself (main.go:217, 236,
254) or an unreadable registry; its status (`WriteError`) is written after the
deferred `Close`. `ComputeStatus`, `Report`, `SetSequenceNumber` are the end
(main.go:259-274). A save leaves what `RegistryOutcomes` says: done, an error that
is returned, or lost without one (packageregistry.go:216-220).

`results` is `nil` after `ExecuteUnread`, `empty`, or holds results of custom
actions only (`custom`) or of operations too (`operations`): `computeStatus`
(main.go:296) asks only whether it has any.

The extension platform is not part of this repository. It is taken as the code
uses it: a status file is replaced as a whole, the lock dies with its process
and is granted in any order, and a process finds the sequence number and later
the settings as it was started for or as the newest there are, whichever.

`AnswerIsBacked` says that an answer belongs to what the manager's own plan left in
the registry. A save that returned an error is answered as a failure; one that
was lost without an error is excused, since the code cannot know. The number that
is answered may be older than the settings that were executed (main.go:107, 203),
never newer. `FailureShown` excuses a killed manager, a status replaced without the
lock, and the success of a custom action.

Not a property but worth knowing, and visible in the model's behaviours:

- the error of the read in `Execute` is swallowed: no error for `customEnable`, no
  failed deployment, and `vmAppResults` nil (actionplan.go:243, main.go:227-235).
  No status claims success for the plan that was not run, but only because the
  process panics: `customactionplan.Execute` hands the nil pointer on in an
  interface, the assertion in statusmessage.go:47 succeeds, and line 57 reads
  through it; a custom action that succeeds gets there first
  (customactionplan.go:63). Nothing recovers from the panic; the deferred `Close`
  runs, and a later enable does the work. Over an error of the application, or a
  success, no message is made and the manager just ends. A nil check in
  `getStatusMessage` alone would turn this into a success of a plan that was never
  run, and violate `AnswerIsBacked`;
- an enable with no operation to run, but a custom action that succeeds, writes
  a success over the error of a failed deployment (main.go:296-301):
  `executeError` speaks of this enable's operations only, and the comment there
  does not think of custom actions. `FailureShown` excuses it and says so;
- a registry that cannot be parsed (`Unreadable`) ends every later enable with an
  error;
- an error of the lock other than the timeout writes an error status
  (main.go:129-151) although main.go:104-105 says that no status is written
  then; error statuses in general are written without the lock and may replace
  the answer of another manager; an enable with nothing to do leaves them;
- the waiters of the lock are served in any order, so a manager of an older
  sequence number may run after a newer one, answer, and set the current
  sequence number back (nothing compares the two, main.go:107-116);
- a failed deployment whose manager dies before its answer, or that was
  executed under an older number, becomes a success in the next enable (the
  branch main.go:315-320);
- when no status is to be written, `*ext.CurrentSequenceNumber` (main.go:276) is
  nil if no number was recorded when the manager started; the process then ends
  in a panic, after all its work and with the lock released.

### CustomActions

| state | code |
|---|---|
| `goal` | the custom actions in the protected settings |
| `exists`, `tick` | the file `tickCount`, and the number that `New` gets from it: 0 if it is missing, empty or malformed (customactionplan.go:89-106) |
| `plan`, `pc`, `cur`, `ok` | `sortedOrder`, where `Execute` and `executeHelper` are, and how the command ended |
| `owed`, `done`, `cut` | history: planned but not recorded, recorded, cut by a reboot |

`New` and `PlanActions` are `New`; `StartAction`, `CommandEnds`, `Reboot`,
`OpenTickCount`, `WriteTickCount` and `SaveFails` the parts of `executeHelper`
in their order, with the loop of `Execute`, which goes on after a success and
ends after a failure, in `WriteTickCount` and `Stop`. `ioutil.WriteFile` empties
the file first and then writes the few digits in one call, so a cut file is an
empty one. `sort.Sort` is not stable: among equal tick counts any is first.
`UpdateExtension` is the update callback seen from here: it takes the registry
along (update_linux.go:55-65) and leaves the tick count file behind.

Visible in the model, and excused by its properties:

- after a kill inside the write, an unreadable file or an update of the
  extension, every action that the goal still holds runs again;
- actions with equal tick counts share their fate: if one fails, or the process
  ends between them, the others are never run;
- an action whose application is missing from the registry, or whose tick count
  is below the file's when it first appears, is never run; an application whose
  installation failed is in the registry and has its actions run;
- an action that reboots the machine is not recorded, although the message of
  executehelper.go:95 calls it a success; it is run at every boot and, if it
  always reboots, holds up the later ones: unlike for application commands,
  nothing counts reboots.

### HostRequest and Host

| state | code |
|---|---|
| `arc` | the cached answer of `isArcAgentPresent` |
| `phase`, `tries`, `answer` | `retryRequest`: the request or the request with the token is under way, `n`, the last answer |
| `published` | the newest version of each application at the host |
| `settings`, `incoming`, `mismatches` | the loop of `getVMAppIncomingCollection`, and that of `WithRetriesOnError` in it |
| `pkg`, `attempts`, `file`, `result` | `downloadFile`: its package, its loop, the destination, what it returned |

`HostRequest` abstracts answers to what the code tells apart (retry.go:104-135,
arcauth.go:39-59). `MakeRequest` is one answer; `TryAgain` and `GiveUp` are the
loop around it; `RefuseChallenge` all the ways in which the challenge of the Arc
agent is not taken. `ResolveNext`, `ResolveVersioned` and `ResolveUnversioned`
are the loop of resolvevmapp.go; `StartDownload`, `RemoveFile`, `StartAttempt`
and `EndAttempt` those of download.go. A file is a sequence of blocks, each of
a version and with a number, so that a block that is there twice or from
another version shows.

The host is taken as the code expects it: with a version in the URL it sends
that version of a package, but perhaps other metadata (resolvevmapp.go:37);
without, the newest; and it begins at the byte that the range header names.

Worth knowing:

- the range header always names byte 0 (`claim_resume`), so a resumed download
  repeats what it had. `EndsWhole` says what is left of the intention: the end
  of the file is a whole package. For an archive that is read from its end this
  may go unnoticed;
- without strict versioning the package may be newer than the metadata, and its
  commands those of the older version; on Arc the version is never in the URL,
  although resolution marks the application as strict (hostgacommunicator.go:143);
- a timeout of the second request of an Arc try is wrapped (arcauth.go:128), so
  `retryRequest` does not recognize it (retry.go:114) and gives up.

### VersionStrings

`AreVersionsEqual` compares number by number, takes missing numbers for 0, and
falls back to the texts when something is not a number before the versions
differ. `Deciding` are the positions at which its loop ends.

### ExtensionUpdate

| state | code |
|---|---|
| `reg`, `later` | the registry file of each version; which was modified later |
| `data`, `backup` | the DataFolder (one on Linux, one per version on Windows), DataFolder.backup |
| `current`, `new`, `stage` | the version in service, the one that replaces it, what the agent is doing |
| `pc`, `prev`, `content`, `todo` | where the callback is, the registry it chose, the entries or directories still to do |
| `truth`, `sound`, `clean` | history: what is installed; whether the update began with everything in place, and met no weak point |

`StatRegistry`, `PickRegistry`, `CopyRegistry`, `ClearRegistry` are the first
half of both update callbacks; `MoveData`, `MergeData`, `MakeDataFolder` the
rest on Linux, with `moveDirsAll` entry by entry; `CopyDownloads` and
`RewriteDownloadDirs` on Windows. `Restore` and `MergeBackup` are the install
callback. `InstallApp` and `RemoveApp` are the whole action plan, seen from
here. The guest agent and the platform are external: they retry a failed update,
then uninstall the old version, which may delete its directory and on Linux the
DataFolder (main_linux_test.go:53, 189), then install the new one.

`NothingLostByUpdate` holds through any kills and errors of the update itself.
`CarriedOver`, that registry and files arrive, the files being those of the version
that is installed on both platforms, needs that the update met none of the weak
points, at which `clean` becomes false:

- the existence of the new registry ends a retry at once (update_linux.go:24): a
  kill after it was written, on Windows, leaves downloads or DownloadDirs undone;
  on Linux the DataFolder is not moved, which hurts only if the uninstallation
  deletes it (`claim_update`); a registry that was cut or left empty by a
  failing write stays; and a `Stat` that fails for another reason counts as
  existing;
- the most recently modified registry is taken (update.go:79): with an older
  version still there whose cleared registry was written later than the one in
  service, it is the wrong one; and a registry that cannot be looked at is
  skipped (update.go:90-93), so that an error of `os.Stat` on the one in service
  makes an older one, perhaps a cleared one, the registry of the new version;
- on Windows errors of robocopy are only logged;
- on Windows the DataFolders of all versions are copied, one after the other, and
  an older version may hold other files of an application than those installed,
  which come over them (`Overwrites`, exactly that case);
- on Linux a failed restore is only logged, and leaves the files in the backup.

An update fails for ever if no version has a registry file (update.go:96), for
instance when nothing was ever enabled: `UpdateEnds` excludes that. The tick
count file stays behind (`CustomActions`). No manager runs during an update in
this model, which reads and clears a registry without its lock
(update_linux.go:58, 73).

## Runs

| run | size | what it shows |
|---|---|---|
| `registry_file` | 471 248 states | `BackupCoversSave`, `NothingRevived`, and that `RegistryFile` implements `RegistryStore` |
| `plan_order` | 2.5 million states | `OrderHonoured`, `RegistryTruthful`, `EnableSettles`, `CommandRunsOnce`, `DroppedOnlyWhenRemoved`, `InstalledHasFiles` under kills and faulty saves, and that `ActionPlan` implements `OperationLog` |
| `plan_reboots` | 1.1 million states | `RebootsBounded`, `EnableSettles`, `EnableTerminates`, `InterruptedIsResumed` with commands that reboot, and `OperationLog` again, with its reboots and refusals |
| `enable` | 1 050 573 states | `AnswerIsBacked`, `FailureShown`, `CurrentWasAnswered`, `GoalAnswered` |
| `custom_actions` | 149 246 states | `RunOnce`, `NonePassedOver`, `OwedIsPaid` |
| `host` | 185 165 states | `ResolvedAsAsked`, `StrictDelivers`, `NothingOld`, `EndsWhole`, `TransientRetried`, `CallsEnd` |
| `update` | 266 225 states | `NothingLostByUpdate`, `CarriedOver`, `UpdateEnds` |
| `claim_*` | | a comment or message of the code that the code does not keep; see below |

Bounds, and why they are enough:

- `registry_file`: five saves and three kills of four registries. A save meets
  the leftovers of a cut one, which meets those of another; three kills in a row
  and two undisturbed saves after them fit. Registries are not inspected, so four
  are enough to tell the old, the new, the one before and the empty one apart.
- `plan_order`: two applications, orders 1, 2 and none, two versions, with and
  without update command and deployment failure; two changes of the goal
  (install, change, leave), one kill, one faulty save. Order is a relation
  between two applications; the second change is what it takes to leave an
  application in a state its next operation does not expect.
- `plan_reboots`: four reboots, one more than `MaxReboots`, so that the refusal
  and the restart of the count happen; one kill and two changes of the goal, so
  that an application can leave the goal and come back while its remove waits to
  be retried.
- `enable`: two sequence numbers with different versions, two managers, one kill
  or reboot, one error, of any file operation, the lock or the host. Two
  processes are enough for a conflict over lock, status
  or registry. The number of enables is not bounded.
- `custom_actions`: four actions with tick counts 1, 2, 2 and 3 (one before and one
  after a pair of equals) of two applications; any three goals one after the
  other, so that an action can leave and come back; a kill or reboot, an error
  and an extension update. The number of enables is not bounded.
- `host`: two published versions, so that the newest is not the one asked for;
  one application with and one without a version, an unpublished version and a
  nameless application; packages of two blocks (a first and a last one), three
  tries for seven and three attempts for ten: a first, a middle and a last one.
  `claim_resume` needs one application and two attempts. The number of enables
  is not bounded.
- `update`: three versions, so that the second update meets what the first left;
  two applications, of which one can be moved and the other not yet; two
  contents, an older and a newer one; one kill, one error, on both platforms.
  `claim_update` needs one application, two versions and one kill.

Deadlock is not checked for `RegistryFile`, `ActionPlan` and `ExtensionUpdate`:
there the system stops when the bounds are used up (saves; the goals; versions
and contents), and an unreadable registry ends every enable. `enable`,
`custom_actions` and `host` check it.

### Fairness

`FairSpec` of `ActionPlan`: weak fairness of `Step`, straight-line code and a
command handler that returns when the command ends; and of `BeginEnable`, because
the agent runs enable after every boot and goal. Kills, reboots and faults are
not fair, only bounded. `FairSpec` of `EnableProtocol`: weak fairness of the
launcher's steps and of each manager's steps taken together (waiting for the
lock ends in the lock or in the timeout, main.go:38), and of `Launch`: the agent
runs enable again with unchanged settings, for which the extension is built
(main.go:56; main_test.go:394). Without a later enable a timeout of the lock
would leave its goal without an answer. `FairSpec` of `CustomActions` is that of
`ActionPlan`. `FairSpec` of `Host`: weak fairness of the manager's steps, answers
included, since every request has a timeout (request.go:36-49); enables and
downloads need not begin. `FairSpec` of `ExtensionUpdate`: weak fairness of the
callbacks' steps and of the agent's, which goes on with an update it began.

### What the code says and does not do

- `claim_forgotten`: a skipped *update* marks the entry `Skipped`, so leaving the
  goal drops an installed application without its remove command.
- `claim_rerun`: a remove cut by a reboot without the Rerun behaviour is run again.
- `claim_stable`: the last stable status is never saved, because the error of the
  host is wrapped before its type is tested (main.go:214, 130); a failed
  deployment becomes a success after an error of the host.
- `claim_resume`: a resumed download is not rebuilt from its parts, it repeats the
  first ones: the range header is made from a copy of the request factory.
- `claim_update`: an update that is killed and retried can lose the files of the
  installed applications.

The lines and quotations are in `PROJECT.json` under "findings".

## Proofs

TLAPS checks these for every value of the constants that satisfies
`ContentsAssumption` (`RegistryFile`: the states of a file are told apart from
its contents) or `ConstantsAssumption` (the other modules: bounds and tick counts
are natural numbers, `None` is none of the values it stands beside) or
`HostAssumption` and `RetryAssumption` (`Host`: at least one version, block, try
and attempt). `VersionStringsProofs` assumes nothing of `Atoi`, and of
`NotANumber` that it is not 0.

- `RegistryFileProofs`: type correctness, `BackupCovers`, `NothingIsRevived`, and
  `StoreRefinement`: `Spec => ImplementsStore`. The invariant ties the program
  counter to the two files: between the rename and the end of the write the
  backup holds what the active file held, and an empty or cut active file exists
  only inside a save or after a kill or an error there.
- `ActionPlanProofs`: `TypeCorrectness` and `RegistryIsTruthful`. Types alone are
  not inductive: inside an operation the current application must have an entry
  that records the action at the head of its group. `RegistryTruthful` needs that
  the operation is on the disk before its command starts, so that the entry of a
  killed command never reads `NoAction`; that an entry without operation counts
  no reboots; and that `New` only takes the operation of an entry that counts
  some, so that `NoAction` is never executed.
- `ActionPlanGoalProofs`: every other safety and action property of `ActionPlan`,
  from invariants that build on each other.
  - `OrderIsHonoured` rests on `OrderInv`: what is being executed is at the front
    of the plan, and once an ordered operation failed nothing of a lower order is
    left. So `failedOrder`, which every failure overwrites (actionplan.go:287), is
    only overwritten with itself.
  - `EnablesSettle` rests on `PlanInv`: while no save failed, memory and disk agree
    between operations (`Saved`), and of every application that is not being worked
    on the plan is what `New` would plan now, or it is through with something left
    undone (`Pending`). The proof
    attempt showed that `EnableSettles`, as it had been stated and checked with
    one change of the goal, was not true: it needs two to leave a remove for a
    retry under a goal that has the application again. The property now names
    the case, and the run has the second change.
  - `RebootsAreBounded` rests on `Attempts`, which relates the history to the entry:
    as long as the entry counts reboots, it counts at least those under the
    present goal, and once it counts none, nothing is planned for an application
    whose install or update was started under it. `CommandsRunOnce` follows from
    the same invariant.
  - `DroppedWhenRemoved` needs that a remove which ends without its command was
    refused at the limit or comes from a skipped entry (`Answered`);
    `InstalledPackagesHaveFiles` that the files of a running install or update are
    there until it ends (`HasPackage`).
  - `LogRefinement`: `Spec => ImplementsLog`. Every action maps to a step of the
    log or to none. Beyond the invariants above it needs what is known when an
    operation ends (`Logged`): the command had the outcome that `err` stands for,
    or there was none to run, and memory is ahead of the file by the reboot count
    only; and of an operation about to be recorded, that its entry is new or the
    one in the file (`PlannedEntry`).
- `EnableProtocolProofs`: `Safety` proves four things together, from which
  `AnswersAreBacked` follows: types with well-formed managers (`TypeInv`), "who is
  past the lock holds it" (`Locking`), the settings of a manager are those it was
  started for or newer (`Ordered`), and the registry entry is what its save and
  its results say (`Backing`). The lock makes the registry the manager's own.
  That a nil result is never answered needs that the last stable status is never
  there to bring its own message, so `BackupNeverHappens`, the general form of
  `claim_stable`, is part of `TypeInv`. `FailuresAreShown` adds (`Showing`) that a
  failure not yet answered belongs to the manager that holds the lock (`Owing`),
  and that a manager about to report without operations only writes over a status
  that shows none, unless a custom action gave it a result (`Knowing`).
  `RecordedIsAnswered` needs only that a number is recorded after its report.
- `CustomActionsProofs`: `RecordedRunsOnce` and `NoneIsPassedOver`. One number
  stands for a set of actions, which is right only as long as they are executed
  in the order of their tick counts: the invariant `Turns` says that whatever was
  recorded comes before what is being executed, and that before what is left of
  the plan; `Debts` that every owed action is in the plan of the process that
  runs, or strictly ahead of the file when none does.

- `HostProofs`: the safety properties of the run. The invariant says, of every
  step, which request it waits for and whether that is over, what the file may
  hold after so many attempts (nothing old once it was removed, blocks of the
  pinned version only), and that only the last copy, which is whole, ends a
  download with success.
- `VersionStringsProofs`: `EqualIsSameVersion` and, from it, `EqualIsEquivalence`:
  the code compares positions until one decides, the reference compares numbers.
- `ExtensionUpdateProofs`: `NothingIsLostByUpdate`. Until the new registry exists
  the old one is untouched (`RegistryKept`); from then on the two agree until
  the old one is cleared (`Places`), so clearing or cutting it loses nothing. For
  the files on Linux, an entry in the DataFolder is never older than the one in
  the backup (`NewerInData`), so the source wins rightly when the DataFolder is
  merged into the backup. On Windows the new version's folder is the only one
  written to, and no version has files before it was in service (`NoneAhead`).
  `EverythingIsHandedOver` proves `CarriedOver`, with two more invariants.
  `Grounds` holds always: no version has a registry before its update, Linux uses
  one DataFolder, an entry with content says where the files are. `HandedOver`
  holds while an update has met no weak point: the registry taken is that of the
  version in service; as soon as the new version has one it lists what is
  installed; on Linux the files reach the installation in the DataFolder or its
  backup; on Windows each is copied or its folder still to be copied, and an
  update that has returned has rewritten the entries.

Every safety and action property that a run checks is proved, for any number of
applications, versions, managers, kills and faults. Only model-checked are the
liveness properties (`GoalAnswered`, `EnableTerminates`, `InterruptedIsResumed`,
`OwedIsPaid`, `CallsEnd`, `UpdateEnds`), which depend on fairness and are outside
the prover. The properties of the `claim_*` runs are false and have no theorem.

## Plan

The modules are done, in the order of the list above. Left: the package files in
`ActionPlan` and the DataFolder in `ExtensionUpdate` are the same directories; a
composition of the two would show whether what an update loses is noticed by the
next plan.

Some hazards the properties name rather than exclude, because the code does not
prevent them: a save lost without an error (`RegistryOutcomes` has it as an
outcome); the retry of an interrupted remove under a goal that has the
application again (`LeftUndone`), and the reboot count that a remove takes over,
which no property bounds; the execution of newer settings than the number that is
answered; a custom action's success over a shown failure; copies that come over
the installed files on Windows. Each is described above with its module.

## Not modelled

JSON decoding and encoding and the texts of statuses and events (no state); MD5
checksums, which only log; the `IsDeleted` branch of the plan, which nothing
reaches; process creation, packaging and the Windows service calls (the
operating system); how URLs and paths are put together (`getOperationURI`,
`splitPathAroundVersionedDir`); the sign of `CompareVersion`, which nobody uses;
files inside an application's directory, one by one, when directories are
merged; the uninstall callback, which is not wired (main.go:168); the scripts in
`misc`. On arm64, `update.sh` and `install.sh` run under `set -e` and `mv` the
same two binaries into place: the second of the two to run in one version
directory (a retried update, or the install after the update) finds nothing to
move and fails before the manager starts. `ExtensionUpdate` assumes that the
scripts reach the manager, so `UpdateEnds` says nothing of that case. The fallback of
`readStatusFileHelper` on malformed files is the same as on a missing one.
