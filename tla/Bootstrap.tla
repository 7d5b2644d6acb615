------------------------------ MODULE Bootstrap ------------------------------
(***************************************************************************)
(* internal/bootstrap: the workspace-bootstrap init container, which       *)
(* prepares the repository of a durable volume before the runner starts.   *)
(* It may be killed between any two steps, any of its steps may fail, and  *)
(* Kubernetes starts it again; two Pods of one volume may run it at once.  *)
(*                                                                         *)
(* The volume is the state that survives: the repository directory, the    *)
(* private staging directory, the completion marker bootstrap.json, the    *)
(* intent bootstrap-intent.json and the flock on bootstrap.lock, which the *)
(* kernel drops with its process.                                          *)
(***************************************************************************)
EXTENDS Integers

CONSTANTS
    Runs,           \* init containers that mount the volume
    URLs,           \* repository URLs
    Revisions,      \* requested revisions
    Commits,        \* commits a revision may resolve to
    None,           \* no URL, no revision, no commit, nobody
    Requests,       \* the options the containers are started with
    InitialRepositories,  \* what the volume may hold before the first run
    MaxFaults,      \* bound: file and git operations that fail
    MaxCrashes,     \* bound: containers that are killed
    MaxEdits        \* bound: changes the agent makes to its repository

Optional(S) == S \cup {None}

\* The options of a run: the URL is None for an Agent without spec.repository;
\* `valid' says whether they pass validateOptions.
Options == [url : Optional(URLs), revision : Revisions, valid : BOOLEAN]

\* What is at the repository path; a "dir" has entries.  `origin' and `head' are
\* what git reports of it, `fetched' the revision a bootstrap fetched it for,
\* `clean' that nothing of an earlier attempt is mixed into it.
Repository ==
    [kind : {"absent", "empty", "dir", "unsafe"}, origin : Optional(URLs),
     head : Optional(Commits), fetched : Optional(Revisions), clean : BOOLEAN,
     edits : 0..MaxEdits]

ASSUME BootstrapAssumption ==
    /\ None \notin Runs \cup URLs \cup Revisions \cup Commits
    /\ {MaxFaults, MaxCrashes, MaxEdits} \subseteq Nat
    /\ Requests \subseteq Options
    /\ InitialRepositories \subseteq {i \in Repository : i.fetched = None /\ i.clean}

VARIABLES
    stateDirs,      \* .sandherd, its home and its adapters directories exist
    repository,     \* /workspace/repository
    staging,        \* .sandherd/bootstrap-staging
    metadata,       \* .sandherd/bootstrap.json, the completion marker
    intent,         \* .sandherd/bootstrap-intent.json
    lock,           \* the run that holds the flock
    runs,           \* what each run was asked for and the call it is about to make
    faults, crashes \* how much of two bounds is used up

vars == <<stateDirs, repository, staging, metadata, intent, lock, runs, faults, crashes>>
bounds == <<faults, crashes>>

Bare(kind) == [kind |-> kind, origin |-> None, head |-> None, fetched |-> None,
               clean |-> TRUE, edits |-> 0]

\* The staging directory after `stage' of the four git commands: init, config,
\* fetch, checkout.
Staging == [stage : 0..4, origin : Optional(URLs), head : Optional(Commits), clean : BOOLEAN]
NoStaging == [stage |-> 0, origin |-> None, head |-> None, clean |-> TRUE]

\* The marker and the intent share a shape; the intent has no commit.
Metadata == [url : Optional(URLs), revision : Optional(Revisions), commit : Optional(Commits)]
NoMetadata == [url |-> None, revision |-> None, commit |-> None]
found(record) == record.revision # None

\* The calls Execute makes while it holds the lock.
Locked == {"readMetadata", "ensureEmpty", "writeEmpty", "gitEnvironment", "readIntent",
           "recover", "destination", "resetStaging", "git", "rename", "writeMetadata",
           "removeIntent"}
Run == [at : Locked \cup {"start", "mkdir", "flock", "ready", "failed"},
        asked : Requests, commit : Optional(Commits)]

\* The lock has one holder, inside Execute, and every file of the volume has a
\* content the code can write.
TypeOK ==
    /\ stateDirs \in BOOLEAN
    /\ repository \in Repository
    /\ staging \in Staging
    /\ metadata \in Metadata
    /\ intent \in Metadata
    /\ lock \in Optional(Runs)
    /\ runs \in [Runs -> Run]
    /\ \A r \in Runs : runs[r].at \in Locked <=> lock = r
    /\ faults \in 0..MaxFaults
    /\ crashes \in 0..MaxCrashes

Init ==
    /\ stateDirs = FALSE
    /\ repository \in InitialRepositories
    /\ staging = NoStaging
    /\ metadata = NoMetadata
    /\ intent = NoMetadata
    /\ lock = None
    /\ runs \in [Runs -> {[at |-> "start", asked |-> q, commit |-> None] : q \in Requests}]
    /\ faults = 0
    /\ crashes = 0

-----------------------------------------------------------------------------
(* Helpers *)

asked(r) == runs[r].asked
At(r, call) == runs[r].at = call
Goes(r, call) == runs' = [runs EXCEPT ![r].at = call]

\* Execute goes on to its next call.
Continues(r, call) == Goes(r, call) /\ UNCHANGED lock

\* Execute returns: the deferred unlock runs, and the exit code decides whether
\* the runner starts ("ready") or Kubernetes starts the container again.
Returns(r, outcome) == Goes(r, outcome) /\ lock' = None

\* A file of this volume was written for what this run is asked for.
Names(r, record) == record.url = asked(r).url /\ record.revision = asked(r).revision
RecordOf(r, commit) == [url |-> asked(r).url, revision |-> asked(r).revision, commit |-> commit]

-----------------------------------------------------------------------------
(* Before the lock *)

\* validateOptions refuses; nothing on the volume is touched.
Rejects(r) ==
    /\ At(r, "start") /\ ~asked(r).valid
    /\ Goes(r, "failed")
    /\ UNCHANGED <<stateDirs, repository, staging, metadata, intent, lock, bounds>>

\* ensureDirectory looks for the state directories, without the lock.
preparePaths(r) ==
    /\ At(r, "start") /\ asked(r).valid
    /\ Goes(r, IF stateDirs THEN "flock" ELSE "mkdir")
    /\ UNCHANGED <<stateDirs, repository, staging, metadata, intent, lock, bounds>>

\* ... and makes them; Mkdir fails if another run has made one meanwhile.
ensureDirectory(r) ==
    /\ At(r, "mkdir")
    /\ stateDirs' = TRUE
    /\ Goes(r, IF stateDirs THEN "failed" ELSE "flock")
    /\ UNCHANGED <<repository, staging, metadata, intent, lock, bounds>>

Flock(r) ==
    /\ At(r, "flock") /\ lock = None
    /\ lock' = r
    /\ Goes(r, "readMetadata")
    /\ UNCHANGED <<stateDirs, repository, staging, metadata, intent, bounds>>

-----------------------------------------------------------------------------
(* Under the lock *)

\* Fault: the marker is not looked at.
IgnoresMarker(r) ==
    /\ At(r, "readMetadata")
    /\ Continues(r, IF asked(r).url = None THEN "ensureEmpty" ELSE "gitEnvironment")
    /\ UNCHANGED <<stateDirs, repository, staging, metadata, intent, bounds>>

\* A marker ends the run at once: it is for this repository and revision and the
\* directory is there, or the run fails.
readMetadata(r) ==
    /\ At(r, "readMetadata")
    /\ \/ /\ found(metadata)
          /\ Returns(r, IF Names(r, metadata) /\ repository.kind \in {"empty", "dir"}
                        THEN "ready" ELSE "failed")
       \/ /\ ~found(metadata)
          /\ Continues(r, IF asked(r).url = None THEN "ensureEmpty" ELSE "gitEnvironment")
    /\ UNCHANGED <<stateDirs, repository, staging, metadata, intent, bounds>>

ensureEmptyRepositoryDirectory(r) ==
    /\ At(r, "ensureEmpty")
    /\ \/ /\ repository.kind \in {"absent", "empty"}
          /\ repository' = Bare("empty")
          /\ Continues(r, "writeEmpty")
       \/ /\ repository.kind \in {"dir", "unsafe"}
          /\ Returns(r, "failed")
          /\ UNCHANGED repository
    /\ UNCHANGED <<stateDirs, staging, metadata, intent, bounds>>

WritesEmptyMetadata(r) ==
    /\ At(r, "writeEmpty")
    /\ metadata' = RecordOf(r, None)
    /\ Returns(r, "ready")
    /\ UNCHANGED <<stateDirs, repository, staging, intent, bounds>>

gitEnvironment(r) ==
    /\ At(r, "gitEnvironment")
    /\ Continues(r, "readIntent")
    /\ UNCHANGED <<stateDirs, repository, staging, metadata, intent, bounds>>

\* An intent of the same request is an interrupted bootstrap; one of another
\* request fails the run; without one, this run leaves its own.
readIntent(r) ==
    /\ At(r, "readIntent")
    /\ \/ found(intent) /\ Names(r, intent) /\ Continues(r, "recover") /\ UNCHANGED intent
       \/ found(intent) /\ ~Names(r, intent) /\ Returns(r, "failed") /\ UNCHANGED intent
       \/ ~found(intent) /\ intent' = RecordOf(r, None) /\ Continues(r, "destination")
    /\ UNCHANGED <<stateDirs, repository, staging, metadata, bounds>>

\* Fault: an interrupted bootstrap is always started over.
StartsOver(r) ==
    /\ At(r, "recover")
    /\ Continues(r, "destination")
    /\ UNCHANGED <<stateDirs, repository, staging, metadata, intent, bounds>>

\* git finds no repository in an empty directory, and so no origin.
recoverCommittedRepository(r) ==
    /\ At(r, "recover")
    /\ \/ /\ repository.kind = "absent"
          /\ Continues(r, "destination")
       \/ /\ repository.kind = "dir" /\ repository.origin = asked(r).url /\ repository.head # None
          /\ runs' = [runs EXCEPT ![r].at = "writeMetadata", ![r].commit = repository.head]
          /\ UNCHANGED lock
       \/ /\ \/ repository.kind \in {"empty", "unsafe"}
             \/ repository.kind = "dir"
                /\ (repository.origin # asked(r).url \/ repository.head = None)
          /\ Returns(r, "failed")
    /\ UNCHANGED <<stateDirs, repository, staging, metadata, intent, bounds>>

\* Fault: whatever is at the destination is removed.
RemovesDestination(r) ==
    /\ At(r, "destination")
    /\ repository' = Bare("absent")
    /\ Continues(r, "resetStaging")
    /\ UNCHANGED <<stateDirs, staging, metadata, intent, bounds>>

\* An empty directory is removed to make room; anything else is refused.
requireRepositoryDestinationAvailable(r) ==
    /\ At(r, "destination")
    /\ \/ /\ repository.kind \in {"absent", "empty"}
          /\ repository' = Bare("absent")
          /\ Continues(r, "resetStaging")
       \/ /\ repository.kind \in {"dir", "unsafe"}
          /\ Returns(r, "failed")
          /\ UNCHANGED repository
    /\ UNCHANGED <<stateDirs, staging, metadata, intent, bounds>>

resetStaging(r) ==
    /\ At(r, "resetStaging")
    /\ staging' = NoStaging
    /\ Continues(r, "git")
    /\ UNCHANGED <<stateDirs, repository, metadata, intent, bounds>>

\* git init, git config remote.origin.url, git fetch.
GitFetches(r) ==
    /\ At(r, "git") /\ staging.stage < 3
    /\ staging' = [staging EXCEPT !.stage = @ + 1,
                                  !.origin = IF staging.stage = 0 THEN None ELSE asked(r).url]
    /\ UNCHANGED <<stateDirs, repository, metadata, intent, lock, runs, bounds>>

\* git checkout of FETCH_HEAD, whatever the revision resolved to.
GitChecksOut(r) ==
    /\ At(r, "git") /\ staging.stage = 3
    /\ \E c \in Commits : staging' = [staging EXCEPT !.stage = 4, !.head = c]
    /\ Continues(r, "rename")
    /\ UNCHANGED <<stateDirs, repository, metadata, intent, bounds>>

\* Fault: the marker is written before the rename.
RenameAfterMarker(r) ==
    /\ At(r, "rename")
    /\ metadata' = RecordOf(r, staging.head)
    /\ runs' = [runs EXCEPT ![r].at = "writeMetadata", ![r].commit = staging.head]
    /\ UNCHANGED <<stateDirs, repository, staging, intent, lock, bounds>>

\* git rev-parse, then the rename that commits the staging directory; rename(2)
\* replaces nothing but an empty directory.
Rename(r) ==
    /\ At(r, "rename") /\ repository.kind \in {"absent", "empty"}
    /\ staging' = NoStaging
    /\ repository' = [Bare("dir") EXCEPT !.origin = staging.origin, !.head = staging.head,
                         !.fetched = asked(r).revision, !.clean = staging.clean]
    /\ runs' = [runs EXCEPT ![r].at = "writeMetadata", ![r].commit = staging.head]
    /\ UNCHANGED <<stateDirs, metadata, intent, lock, bounds>>

writeMetadata(r) ==
    /\ At(r, "writeMetadata")
    /\ metadata' = RecordOf(r, runs[r].commit)
    /\ Continues(r, "removeIntent")
    /\ UNCHANGED <<stateDirs, repository, staging, intent, bounds>>

RemovesIntent(r) ==
    /\ At(r, "removeIntent")
    /\ intent' = NoMetadata
    /\ Returns(r, "ready")
    /\ UNCHANGED <<stateDirs, repository, staging, metadata, bounds>>

\* Any call may return an error: a full disk, a credential that is refused or
\* missing, git out of time.  From the git commands on the deferred RemoveAll
\* clears the staging directory.
Fails(r) ==
    /\ runs[r].at \in Locked /\ faults < MaxFaults
    /\ faults' = faults + 1
    /\ staging' = IF runs[r].at \in {"git", "rename"} THEN NoStaging ELSE staging
    /\ Returns(r, "failed")
    /\ UNCHANGED <<stateDirs, repository, metadata, intent, crashes>>

-----------------------------------------------------------------------------
(* Outside the program *)

\* The container is killed; the kernel drops its lock.
Crash(r) ==
    /\ runs[r].at \in Locked \cup {"mkdir", "flock"} /\ crashes < MaxCrashes
    /\ crashes' = crashes + 1
    /\ staging' = [staging EXCEPT !.clean = @ /\ ~(lock = r /\ staging.stage > 0)]
    /\ lock' = IF lock = r THEN None ELSE lock
    /\ Goes(r, "failed")
    /\ UNCHANGED <<stateDirs, repository, metadata, intent, faults>>

\* Kubernetes runs a failed init container again, and a replaced Pod's.
Restarts(r) ==
    /\ runs[r].at \in {"failed", "ready"}
    /\ runs' = [runs EXCEPT ![r].at = "start", ![r].commit = None]
    /\ UNCHANGED <<stateDirs, repository, staging, metadata, intent, lock, bounds>>

\* The agent of a Pod that is up changes its repository, to the point of emptying it.
AgentWorks(r) ==
    /\ At(r, "ready") /\ repository.edits < MaxEdits
    /\ \/ \E c \in Optional(Commits) :
             repository' = [repository EXCEPT !.kind = "dir", !.head = c, !.edits = @ + 1]
       \/ repository' = [Bare("empty") EXCEPT !.edits = repository.edits + 1]
    /\ UNCHANGED <<stateDirs, staging, metadata, intent, lock, runs, bounds>>

\* What a run does without being made to fail.
Execute(r) ==
    \/ Rejects(r) \/ preparePaths(r) \/ ensureDirectory(r) \/ Flock(r) \/ readMetadata(r)
    \/ ensureEmptyRepositoryDirectory(r) \/ WritesEmptyMetadata(r)
    \/ gitEnvironment(r) \/ readIntent(r) \/ recoverCommittedRepository(r)
    \/ requireRepositoryDestinationAvailable(r) \/ resetStaging(r)
    \/ GitFetches(r) \/ GitChecksOut(r) \/ Rename(r) \/ writeMetadata(r) \/ RemovesIntent(r)

Next == \E r \in Runs : Execute(r) \/ Fails(r) \/ Crash(r) \/ Restarts(r) \/ AgentWorks(r)

Spec == Init /\ [][Next]_vars

\* A run that can go on does; flock serves its waiters; and Kubernetes restarts a
\* failed init container (it need not ever replace a healthy Pod).
FairSpec ==
    /\ Spec
    /\ \A r \in Runs : /\ WF_vars(Execute(r))
                       /\ SF_vars(Flock(r))
                       /\ WF_vars(At(r, "failed") /\ Restarts(r))

-----------------------------------------------------------------------------
(* Properties *)

\* The marker tells the truth: while the agent has changed nothing, the directory
\* is the clone of the recorded URL at the recorded commit, and if a bootstrap
\* fetched it, it fetched the recorded revision (writeMetadata comes after the
\* rename, and recovery records what it finds).  And an interrupted attempt leaves
\* nothing in it: resetStaging clears the staging directory before it is filled again.
MarkerTrue ==
    /\ TypeOK /\ repository.clean
    /\ (found(metadata) /\ metadata.url # None /\ repository.edits = 0)
          => /\ repository.kind = "dir"
             /\ repository.origin = metadata.url
             /\ repository.head = metadata.commit
             /\ repository.fetched \in {metadata.revision, None}

\* Two runs, a run after a crash and a run after a completed one never write the
\* marker a second time: later Pod starts do not rerun a completed bootstrap.
MarkerOnce == [][found(metadata) => metadata' = metadata]_vars

\* Whatever is in the repository directory, the agent's work or content bootstrap
\* knows nothing of, no run removes or replaces; only the agent changes it.
ContentKept ==
    [][repository.kind \in {"dir", "unsafe"} /\ repository' # repository
        => \E r \in Runs : AgentWorks(r)]_vars

\* All containers of the volume are those of one Agent, with valid options.
OneAgent == \A r, q \in Runs : asked(r) = asked(q) /\ asked(r).valid

Completes == \A r \in Runs : ~At(r, "ready") ~> At(r, "ready")

\* On a fresh volume, however an Agent's runs are interrupted, whatever fails and
\* in whichever order they get the lock, restarting them completes the bootstrap.
RetrySucceeds == (OneAgent /\ repository.kind = "absent") => Completes
=============================================================================
