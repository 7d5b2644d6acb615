-------------------------- MODULE BootstrapProofs ---------------------------
(***************************************************************************)
(* Theorems about module Bootstrap, for any containers, requests, volumes, *)
(* failures and crashes: the marker is true and written once, and nothing  *)
(* but the agent changes what is in the repository directory.              *)
(***************************************************************************)
EXTENDS Bootstrap, TLAPS

-----------------------------------------------------------------------------
(* The inductive invariant.                                                *)

\* The repository is the clone that run r is asked for, at the commit it will record.
Cloned(r) ==
    /\ repository.kind = "dir" /\ repository.origin = asked(r).url
    /\ repository.head = runs[r].commit
    /\ repository.fetched \in {asked(r).revision, None}

\* What a run knows from the calls it has made, as long as it holds the lock: that there
\* is no marker, whether it is to clone, that the intent is its own, what it has staged, and what it has renamed.
Progress(r) ==
    /\ runs[r].at \in {"ready", "removeIntent"} => found(metadata)
    /\ runs[r].at \in Locked \ {"readMetadata", "removeIntent"} => ~found(metadata)
    /\ runs[r].at \in {"ensureEmpty", "writeEmpty"} => asked(r).url = None
    /\ runs[r].at \in {"recover", "destination", "resetStaging", "git", "rename", "writeMetadata"}
          => Names(r, intent)
    /\ runs[r].at \in {"git", "rename"}
          => staging.clean /\ (staging.stage >= 2 => staging.origin = asked(r).url)
    /\ runs[r].at = "rename" => staging.stage = 4
    /\ runs[r].at = "writeMetadata" => Cloned(r)

\* Until there is a marker, the intent remembers for which revision a clone was fetched.
IntentKept ==
    ~found(metadata) /\ repository.fetched # None => intent.revision = repository.fetched

IInv == MarkerTrue /\ IntentKept /\ \A r \in Runs : Progress(r)

-----------------------------------------------------------------------------
(* Types.                                                                  *)

\* What a run is asked for names a revision, so that a record of it is one that is found.
LEMMA AskedType ==
    ASSUME TypeOK, NEW r \in Runs
    PROVE  /\ runs[r] \in Run /\ asked(r) \in Options /\ asked(r).revision # None
           /\ \A c \in Optional(Commits) : RecordOf(r, c) \in Metadata /\ found(RecordOf(r, c))
  <1>1. runs[r] \in Run
    BY DEF TypeOK
  <1>2. asked(r) \in Options
    BY <1>1, BootstrapAssumption DEF Run, asked
  <1>3. asked(r).revision \in Revisions /\ asked(r).url \in Optional(URLs)
    BY <1>2 DEF Options
  <1>4. asked(r).revision # None
    BY <1>3, BootstrapAssumption
  <1>5. ASSUME NEW c \in Optional(Commits)
        PROVE  RecordOf(r, c) \in Metadata /\ found(RecordOf(r, c))
    BY <1>3, <1>4 DEF RecordOf, Metadata, found, Optional
  <1> QED
    BY <1>1, <1>2, <1>4, <1>5

\* The files as they are before anything is written to them.
LEMMA BlankTypes ==
    /\ NoStaging \in Staging /\ NoMetadata \in Metadata /\ ~found(NoMetadata)
    /\ \A k \in {"absent", "empty", "dir", "unsafe"} : Bare(k) \in Repository
  BY BootstrapAssumption
  DEF NoStaging, Staging, NoMetadata, Metadata, found, Bare, Repository, Optional

\* Run r, and no other, is at another call afterwards.
Moved(r, at) ==
    /\ runs' \in [Runs -> Run]
    /\ runs'[r].at = at /\ asked(r)' = asked(r)
    /\ \A q \in Runs : q # r => runs'[q] = runs[q]

\* A run moves to another call with the commit it has, or with one it has just learnt.
LEMMA Moves ==
    ASSUME TypeOK, NEW r \in Runs, NEW at \in Locked \cup {"start", "mkdir", "flock", "ready", "failed"},
           NEW c \in Optional(Commits)
    PROVE  /\ Goes(r, at) => Moved(r, at) /\ runs'[r].commit = runs[r].commit
           /\ runs' = [runs EXCEPT ![r].at = at, ![r].commit = c]
                 => Moved(r, at) /\ runs'[r].commit = c
  <1>1. runs \in [Runs -> Run] /\ runs[r] \in Run
    BY DEF TypeOK
  <1>2. CASE Goes(r, at)
    <2>1. [runs[r] EXCEPT !.at = at] \in Run
      BY <1>1 DEF Run
    <2>2. runs' = [runs EXCEPT ![r] = [runs[r] EXCEPT !.at = at]]
      BY <1>2 DEF Goes
    <2>3. runs' \in [Runs -> Run] /\ runs'[r] = [runs[r] EXCEPT !.at = at]
          /\ \A q \in Runs : q # r => runs'[q] = runs[q]
      BY <1>1, <2>1, <2>2
    <2>4. runs'[r].at = at /\ asked(r)' = asked(r) /\ runs'[r].commit = runs[r].commit
      BY <1>1, <2>3 DEF Run, asked
    <2> QED
      BY <2>3, <2>4, <1>1 DEF Moved, Run
  <1>3. CASE runs' = [runs EXCEPT ![r].at = at, ![r].commit = c]
    <2>1. [runs[r] EXCEPT !.at = at, !.commit = c] \in Run
      BY <1>1 DEF Run
    <2>2. runs' = [runs EXCEPT ![r] = [runs[r] EXCEPT !.at = at, !.commit = c]]
      BY <1>3, <1>1
    <2>3. runs' \in [Runs -> Run] /\ runs'[r] = [runs[r] EXCEPT !.at = at, !.commit = c]
          /\ \A q \in Runs : q # r => runs'[q] = runs[q]
      BY <1>1, <2>1, <2>2
    <2>4. runs'[r].at = at /\ asked(r)' = asked(r) /\ runs'[r].commit = c
      BY <1>1, <2>3 DEF Run, asked
    <2> QED
      BY <2>3, <2>4, <1>1, <1>3 DEF Moved, Goes, Run
  <1> QED
    BY <1>2, <1>3

\* The volume starts without files of a bootstrap, and no run has begun.
LEMMA InitIInv == Init => IInv
  <1> SUFFICES ASSUME Init PROVE IInv
    OBVIOUS
  <1> USE BootstrapAssumption
  <1>1. runs \in [Runs -> Run] /\ \A r \in Runs : runs[r].at = "start"
    <2>1. \A q \in Requests : [at |-> "start", asked |-> q, commit |-> None] \in Run
      BY DEF Run, Optional
    <2> QED
      BY <2>1 DEF Init
  <1>2. repository \in Repository /\ repository.fetched = None /\ repository.clean
    BY DEF Init
  <1>3. TypeOK
    <2>1. \A r \in Runs : runs[r].at \notin Locked /\ lock # r
      BY <1>1 DEF Init, Locked
    <2>2. faults \in 0..MaxFaults /\ crashes \in 0..MaxCrashes /\ lock \in Optional(Runs)
      BY DEF Init, Optional
    <2> QED
      BY <1>1, <1>2, <2>1, <2>2, BlankTypes DEF Init, TypeOK
  <1>4. MarkerTrue /\ IntentKept
    BY <1>2, <1>3, BlankTypes DEF Init, MarkerTrue, IntentKept
  <1>5. \A r \in Runs : Progress(r)
    BY <1>1 DEF Progress, Locked
  <1> QED
    BY <1>4, <1>5 DEF IInv

-----------------------------------------------------------------------------
(* What a step of one run does to the others.                              *)

\* A run is known by the files it depends on.
LEMMA Quiet ==
    ASSUME NEW r \in Runs, Progress(r), runs'[r] = runs[r],
           UNCHANGED <<repository, staging, metadata, intent>>
    PROVE  Progress(r)'
  BY DEF Progress, Cloned, asked, Names, found

\* What the holder of the lock writes concerns no other run, as long as it does not
\* remove the marker.
LEMMA Held ==
    ASSUME IInv, NEW r \in Runs, lock = r, NEW q \in Runs, q # r, runs'[q] = runs[q],
           found(metadata) => found(metadata')
    PROVE  Progress(q)'
  <1>1. runs[q].at \notin Locked /\ Progress(q)
    BY DEF IInv, MarkerTrue, TypeOK
  <1>2. runs'[q].at \notin Locked /\ (runs'[q].at = "ready" => found(metadata'))
    BY <1>1 DEF Progress
  <1> QED
    BY <1>2 DEF Progress, found, Locked

-----------------------------------------------------------------------------
(* The steps of a run.                                                     *)

\* Before the lock, and when a container is started again, no file of the volume is
\* touched: only the state directories and where the run is.
LEMMA BeforeLock ==
    ASSUME IInv, NEW r \in Runs,
           Rejects(r) \/ preparePaths(r) \/ ensureDirectory(r) \/ Flock(r) \/ Restarts(r)
    PROVE  IInv'
  <1>0. TypeOK /\ Progress(r) /\ runs[r] \in Run /\ (lock = r => runs[r].at \in Locked)
    BY DEF IInv, MarkerTrue, TypeOK
  <1>1. UNCHANGED <<repository, staging, metadata, intent, bounds>> /\ stateDirs' \in BOOLEAN
    BY <1>0 DEF Rejects, preparePaths, ensureDirectory, Flock, Restarts, Goes, TypeOK
  <1>2. PICK at \in {"start", "mkdir", "flock", "failed", "readMetadata"} :
           /\ Goes(r, at) \/ runs' = [runs EXCEPT ![r].at = at, ![r].commit = None]
           /\ \/ at # "readMetadata" /\ lock' = lock
              \/ at = "readMetadata" /\ lock = None /\ lock' = r
    <2>1. CASE Rejects(r)
      BY <2>1 DEF Rejects
    <2>2. CASE preparePaths(r)
      BY <2>2 DEF preparePaths
    <2>3. CASE ensureDirectory(r)
      BY <2>3 DEF ensureDirectory
    <2>4. CASE Flock(r)
      BY <2>4 DEF Flock
    <2>5. CASE Restarts(r)
      BY <2>5 DEF Restarts
    <2> QED
      BY <2>1, <2>2, <2>3, <2>4, <2>5
  <1>3. at \in Locked \cup {"start", "mkdir", "flock", "ready", "failed"}
        /\ (at \in Locked <=> at = "readMetadata")
    BY DEF Locked
  <1>4. Moved(r, at)
    BY <1>0, <1>2, <1>3, Moves DEF Optional
  <1>5. runs[r].at \notin Locked /\ lock # r
    BY <1>0 DEF Rejects, preparePaths, ensureDirectory, Flock, Restarts, At, Locked
  <1>6. lock' \in Optional(Runs) /\ \A q \in Runs : runs'[q].at \in Locked <=> lock' = q
    <2>1. \A q \in Runs : runs[q].at \in Locked <=> lock = q
      BY <1>0 DEF TypeOK
    <2>2. None \notin Runs /\ lock \in Optional(Runs)
      BY <1>0, BootstrapAssumption DEF TypeOK
    <2> QED
      BY <1>2, <1>3, <1>4, <1>5, <2>1, <2>2 DEF Optional, Moved
  <1>7. TypeOK'
    BY <1>0, <1>1, <1>4, <1>6 DEF TypeOK, bounds, Moved
  <1>8. MarkerTrue' /\ IntentKept'
    BY <1>1, <1>7 DEF IInv, MarkerTrue, IntentKept, found
  <1>9. ASSUME NEW q \in Runs PROVE Progress(q)'
    <2>1. CASE q = r
      BY <1>2, <1>4, <2>1 DEF Progress, Locked, Moved
    <2>2. CASE q # r
      BY <1>1, <1>4, <2>2, Quiet DEF IInv, Moved
    <2> QED
      BY <2>1, <2>2
  <1> QED
    BY <1>8, <1>9 DEF IInv

\* Under the lock a run moves on or returns.  It is enough to look at the files and at
\* the run itself.
LEMMA UnderLock ==
    ASSUME IInv, NEW r \in Runs, runs[r].at \in Locked, UNCHANGED stateDirs,
           NEW at \in Locked \cup {"ready", "failed"}, Moved(r, at),
           lock' = IF at \in Locked THEN lock ELSE None,
           faults' \in 0..MaxFaults, crashes' \in 0..MaxCrashes,
           repository' \in Repository, staging' \in Staging,
           metadata' \in Metadata, intent' \in Metadata,
           found(metadata) => found(metadata')
    PROVE  TypeOK' /\ \A q \in Runs : q # r => Progress(q)'
  <1>0. TypeOK /\ runs[r] \in Run
    BY DEF IInv, MarkerTrue, TypeOK
  <1>1. lock = r /\ None \notin Runs
    BY <1>0, BootstrapAssumption DEF TypeOK
  <1>4. lock' \in Optional(Runs) /\ \A q \in Runs : runs'[q].at \in Locked <=> lock' = q
    <2>1. \A q \in Runs : runs[q].at \in Locked <=> lock = q
      BY <1>0 DEF TypeOK
    <2> QED
      BY <1>1, <2>1 DEF Optional, Moved
  <1>5. TypeOK'
    BY <1>0, <1>4 DEF TypeOK, Moved
  <1>6. \A q \in Runs : q # r => Progress(q)'
    BY <1>1, Held DEF Moved
  <1> QED
    BY <1>5, <1>6

\* The same for a run that changes none of the files and goes on to, or returns with, at.
LEMMA Looks ==
    ASSUME IInv, NEW r \in Runs, runs[r].at \in Locked, NEW at \in Locked \cup {"ready", "failed"},
           Goes(r, at), lock' = IF at \in Locked THEN lock ELSE None,
           UNCHANGED <<stateDirs, repository, staging, metadata, intent, bounds>>,
           Progress(r)'
    PROVE  IInv'
  <1>1. TypeOK /\ None \in Optional(Commits)
    BY DEF IInv, MarkerTrue, Optional
  <1>2. Moved(r, at)
    BY <1>1, Moves
  <1>3. TypeOK' /\ \A q \in Runs : q # r => Progress(q)'
    BY <1>1, <1>2, UnderLock DEF TypeOK, bounds
  <1>4. MarkerTrue' /\ IntentKept'
    BY <1>3 DEF IInv, MarkerTrue, IntentKept, found
  <1> QED
    BY <1>3, <1>4 DEF IInv

\* What each call of Execute under the lock finds and writes.
LEMMA Calls ==
    ASSUME IInv, NEW r \in Runs,
           \/ readMetadata(r) \/ ensureEmptyRepositoryDirectory(r) \/ WritesEmptyMetadata(r)
           \/ gitEnvironment(r) \/ readIntent(r) \/ recoverCommittedRepository(r)
           \/ requireRepositoryDestinationAvailable(r) \/ resetStaging(r)
           \/ GitFetches(r) \/ GitChecksOut(r) \/ Rename(r) \/ writeMetadata(r)
           \/ RemovesIntent(r)
    PROVE  IInv'
  <1>0. TypeOK /\ MarkerTrue /\ IntentKept /\ Progress(r) /\ runs[r] \in Run
    BY DEF IInv, MarkerTrue, TypeOK
  <1>1. /\ repository \in Repository /\ staging \in Staging /\ metadata \in Metadata
        /\ intent \in Metadata /\ faults \in 0..MaxFaults /\ crashes \in 0..MaxCrashes
    BY <1>0 DEF TypeOK
  <1>2. asked(r) \in Options /\ asked(r).revision # None /\ None \in Optional(Commits)
        /\ runs[r].commit \in Optional(Commits)
    BY <1>0, AskedType DEF Optional, Run
  <1>3. ASSUME NEW call \in Locked \cup {"ready", "failed"}
        PROVE  /\ Goes(r, call) => Moved(r, call) /\ runs'[r].commit = runs[r].commit
               /\ \A c \in Optional(Commits) :
                     runs' = [runs EXCEPT ![r].at = call, ![r].commit = c]
                        => Moved(r, call) /\ runs'[r].commit = c
    BY <1>0, <1>2, Moves
  <1>4. /\ "ready" \notin Locked /\ "failed" \notin Locked
        /\ {"readMetadata", "ensureEmpty", "writeEmpty", "gitEnvironment", "readIntent",
            "recover", "destination", "resetStaging", "git", "rename", "writeMetadata",
            "removeIntent"} \subseteq Locked
    BY DEF Locked
  <1>5. CASE readMetadata(r)
    <2>1. runs[r].at \in Locked
      BY <1>4, <1>5 DEF readMetadata, At
    <2>2. PICK call \in {"ready", "failed", "ensureEmpty", "gitEnvironment"} :
             /\ Goes(r, call) /\ lock' = IF call \in Locked THEN lock ELSE None
             /\ call = "ready" => found(metadata)
             /\ call \in Locked => ~found(metadata)
             /\ call = "ensureEmpty" => asked(r).url = None
      BY <1>4, <1>5 DEF readMetadata, Continues, Returns
    <2>3. UNCHANGED <<stateDirs, repository, staging, metadata, intent, bounds>>
      BY <1>5 DEF readMetadata
    <2>4. Progress(r)'
      BY <1>3, <1>4, <2>2, <2>3 DEF Progress, Moved, found
    <2> QED
      BY <1>4, <2>1, <2>2, <2>3, <2>4, Looks
  <1>6. CASE ensureEmptyRepositoryDirectory(r)
    <2>1. runs[r].at = "ensureEmpty" /\ ~found(metadata) /\ asked(r).url = None
      BY <1>0, <1>4, <1>6 DEF ensureEmptyRepositoryDirectory, At, Progress
    <2>2. UNCHANGED <<stateDirs, staging, metadata, intent, bounds>>
      BY <1>6 DEF ensureEmptyRepositoryDirectory
    <2>3. CASE repository.kind \in {"absent", "empty"}
      <3>1. repository' = Bare("empty") /\ Goes(r, "writeEmpty") /\ lock' = lock
        BY <1>6, <2>3 DEF ensureEmptyRepositoryDirectory, Continues
      <3>2. repository' \in Repository /\ repository'.clean /\ repository'.fetched = None
        BY <3>1, BlankTypes DEF Bare
      <3>3. TypeOK' /\ \A q \in Runs : q # r => Progress(q)'
        BY <1>1, <1>3, <1>4, <2>1, <2>2, <3>1, <3>2, UnderLock DEF bounds
      <3>4. Progress(r)'
        <4>1. Moved(r, "writeEmpty")
          BY <1>3, <1>4, <3>1
        <4> QED
          BY <1>4, <4>1, <2>1, <2>2, <3>1 DEF Progress, Moved, found
      <3>5. MarkerTrue' /\ IntentKept'
        BY <2>1, <2>2, <3>2, <3>3 DEF MarkerTrue, IntentKept, found
      <3> QED
        BY <3>3, <3>4, <3>5 DEF IInv
    <2>4. CASE repository.kind \notin {"absent", "empty"}
      <3>1. Goes(r, "failed") /\ lock' = None /\ UNCHANGED repository
        BY <1>6, <2>4 DEF ensureEmptyRepositoryDirectory, Returns
      <3>2. Progress(r)'
        <4>1. Moved(r, "failed")
          BY <1>3, <1>4, <3>1
        <4> QED
          BY <1>4, <4>1, <3>1 DEF Progress, Moved
      <3> QED
        BY <1>4, <2>1, <2>2, <3>1, <3>2, Looks
    <2> QED
      BY <2>3, <2>4
  <1>7. CASE WritesEmptyMetadata(r)
    <2>1. /\ runs[r].at = "writeEmpty" /\ metadata' = RecordOf(r, None)
          /\ Goes(r, "ready") /\ lock' = None
          /\ UNCHANGED <<stateDirs, repository, staging, intent, bounds>>
          /\ asked(r).url = None
      BY <1>0, <1>7 DEF WritesEmptyMetadata, At, Returns, Progress
    <2>2. metadata' \in Metadata /\ found(metadata')
      BY <1>0, <1>2, <2>1, AskedType
    <2>3. TypeOK' /\ \A q \in Runs : q # r => Progress(q)'
      BY <1>1, <1>3, <1>4, <2>1, <2>2, UnderLock DEF bounds
    <2>4. Progress(r)'
      <3>1. Moved(r, "ready")
        BY <1>3, <1>4, <2>1
      <3> QED
        BY <1>4, <3>1, <2>1, <2>2 DEF Progress, Moved, found
    <2>5. MarkerTrue' /\ IntentKept'
      BY <1>0, <2>1, <2>2, <2>3 DEF MarkerTrue, IntentKept, found, RecordOf
    <2> QED
      BY <2>3, <2>4, <2>5 DEF IInv
  <1>8. CASE gitEnvironment(r)
    <2>1. /\ runs[r].at = "gitEnvironment" /\ Goes(r, "readIntent") /\ lock' = lock
          /\ UNCHANGED <<stateDirs, repository, staging, metadata, intent, bounds>>
      BY <1>8 DEF gitEnvironment, At, Continues
    <2>2. ~found(metadata)
      BY <1>0, <1>4, <2>1 DEF Progress
    <2>3. Progress(r)'
      <3>1. Moved(r, "readIntent")
        BY <1>3, <1>4, <2>1
      <3> QED
        BY <1>4, <3>1, <2>1, <2>2 DEF Progress, Moved, found
    <2> QED
      BY <1>4, <2>1, <2>3, Looks
  <1>9. CASE readIntent(r)
    <2>1. /\ runs[r].at = "readIntent"
          /\ UNCHANGED <<stateDirs, repository, staging, metadata, bounds>>
      BY <1>9 DEF readIntent, At
    <2>2. ~found(metadata)
      BY <1>0, <1>4, <2>1 DEF Progress
    <2>3. CASE found(intent)
      <3>1. PICK call \in {"recover", "failed"} :
               /\ Goes(r, call) /\ lock' = (IF call \in Locked THEN lock ELSE None)
               /\ UNCHANGED intent
               /\ call = "recover" => Names(r, intent)
        BY <1>4, <1>9, <2>3 DEF readIntent, Continues, Returns
      <3>2. Progress(r)'
        BY <1>3, <1>4, <2>1, <2>2, <3>1 DEF Progress, Moved, found, Names
      <3> QED
        BY <1>4, <2>1, <3>1, <3>2, Looks
    <2>4. CASE ~found(intent)
      <3>1. intent' = RecordOf(r, None) /\ Goes(r, "destination") /\ lock' = lock
        BY <1>9, <2>4 DEF readIntent, Continues
      <3>2. intent' \in Metadata
        BY <1>0, <1>2, <3>1, AskedType
      <3>3. TypeOK' /\ \A q \in Runs : q # r => Progress(q)'
        BY <1>1, <1>3, <1>4, <2>1, <3>1, <3>2, UnderLock DEF bounds
      <3>4. Progress(r)'
        <4>1. Moved(r, "destination")
          BY <1>3, <1>4, <3>1
        <4> QED
          BY <1>4, <4>1, <2>1, <2>2, <3>1 DEF Progress, Moved, found, Names, RecordOf
      <3>5. MarkerTrue' /\ IntentKept'
        BY <1>0, <2>1, <2>2, <2>4, <3>3 DEF MarkerTrue, IntentKept, found
      <3> QED
        BY <3>3, <3>4, <3>5 DEF IInv
    <2> QED
      BY <2>3, <2>4
  <1>10. CASE recoverCommittedRepository(r)
    <2>1. /\ runs[r].at = "recover"
          /\ UNCHANGED <<stateDirs, repository, staging, metadata, intent, bounds>>
      BY <1>10 DEF recoverCommittedRepository, At
    <2>2. ~found(metadata) /\ Names(r, intent)
      BY <1>0, <1>4, <2>1 DEF Progress
    <2>3. CASE /\ repository.kind = "dir" /\ repository.origin = asked(r).url /\ repository.head # None
               /\ runs' = [runs EXCEPT ![r].at = "writeMetadata", ![r].commit = repository.head]
               /\ UNCHANGED lock
      <3>1. repository.head \in Optional(Commits)
        BY <1>1 DEF Repository
      <3>2. Moved(r, "writeMetadata") /\ runs'[r].commit = repository.head
        BY <1>3, <1>4, <2>3, <3>1
      <3>3. TypeOK' /\ \A q \in Runs : q # r => Progress(q)'
        BY <1>1, <1>4, <2>1, <2>3, <3>2, UnderLock DEF bounds
      <3>4. Cloned(r)'
        BY <1>0, <2>1, <2>2, <2>3, <3>2 DEF Cloned, Moved, IntentKept, Names
      <3>5. Progress(r)'
        BY <1>4, <2>1, <2>2, <3>2, <3>4 DEF Progress, Moved, found, Names
      <3>6. MarkerTrue' /\ IntentKept'
        BY <1>0, <2>1, <3>3 DEF MarkerTrue, IntentKept, found
      <3> QED
        BY <3>3, <3>5, <3>6 DEF IInv
    <2>4. CASE \E call \in {"destination", "failed"} :
                  Goes(r, call) /\ lock' = (IF call \in Locked THEN lock ELSE None)
      <3>1. PICK call \in {"destination", "failed"} :
               Goes(r, call) /\ lock' = (IF call \in Locked THEN lock ELSE None)
        BY <2>4
      <3>2. Progress(r)'
        BY <1>3, <1>4, <2>1, <2>2, <3>1 DEF Progress, Moved, found, Names
      <3> QED
        BY <1>4, <2>1, <3>1, <3>2, Looks
    <2> QED
      BY <1>4, <1>10, <2>3, <2>4 DEF recoverCommittedRepository, Continues, Returns
  <1>11. CASE requireRepositoryDestinationAvailable(r)
    <2>1. /\ runs[r].at = "destination"
          /\ UNCHANGED <<stateDirs, staging, metadata, intent, bounds>>
      BY <1>11 DEF requireRepositoryDestinationAvailable, At
    <2>2. ~found(metadata) /\ Names(r, intent)
      BY <1>0, <1>4, <2>1 DEF Progress
    <2>3. CASE repository.kind \in {"absent", "empty"}
      <3>1. repository' = Bare("absent") /\ Goes(r, "resetStaging") /\ lock' = lock
        BY <1>11, <2>3 DEF requireRepositoryDestinationAvailable, Continues
      <3>2. repository' \in Repository /\ repository'.clean /\ repository'.fetched = None
        BY <3>1, BlankTypes DEF Bare
      <3>3. TypeOK' /\ \A q \in Runs : q # r => Progress(q)'
        BY <1>1, <1>3, <1>4, <2>1, <3>1, <3>2, UnderLock DEF bounds
      <3>4. Progress(r)'
        <4>1. Moved(r, "resetStaging")
          BY <1>3, <1>4, <3>1
        <4> QED
          BY <1>4, <4>1, <2>1, <2>2, <3>1 DEF Progress, Moved, found, Names
      <3>5. MarkerTrue' /\ IntentKept'
        BY <2>1, <2>2, <3>2, <3>3 DEF MarkerTrue, IntentKept, found
      <3> QED
        BY <3>3, <3>4, <3>5 DEF IInv
    <2>4. CASE repository.kind \notin {"absent", "empty"}
      <3>1. Goes(r, "failed") /\ lock' = None /\ UNCHANGED repository
        BY <1>11, <2>4 DEF requireRepositoryDestinationAvailable, Returns
      <3>2. Progress(r)'
        <4>1. Moved(r, "failed")
          BY <1>3, <1>4, <3>1
        <4> QED
          BY <1>4, <4>1, <3>1 DEF Progress, Moved
      <3> QED
        BY <1>4, <2>1, <3>1, <3>2, Looks
    <2> QED
      BY <2>3, <2>4
  <1>12. CASE resetStaging(r)
    <2>1. /\ runs[r].at = "resetStaging" /\ staging' = NoStaging
          /\ Goes(r, "git") /\ lock' = lock
          /\ UNCHANGED <<stateDirs, repository, metadata, intent, bounds>>
      BY <1>12 DEF resetStaging, At, Continues
    <2>2. ~found(metadata) /\ Names(r, intent)
      BY <1>0, <1>4, <2>1 DEF Progress
    <2>3. TypeOK' /\ \A q \in Runs : q # r => Progress(q)'
      BY <1>1, <1>3, <1>4, <2>1, BlankTypes, UnderLock DEF bounds
    <2>4. Progress(r)'
      <3>1. staging'.clean /\ staging'.stage = 0
        BY <2>1 DEF NoStaging
      <3>2. Moved(r, "git")
        BY <1>3, <1>4, <2>1
      <3> QED
        BY <1>4, <2>1, <2>2, <3>1, <3>2 DEF Progress, Moved, found, Names
    <2>5. MarkerTrue' /\ IntentKept'
      BY <1>0, <2>1, <2>3 DEF MarkerTrue, IntentKept, found
    <2> QED
      BY <2>3, <2>4, <2>5 DEF IInv
  <1>13. CASE GitFetches(r)
    <2>1. /\ runs[r].at = "git" /\ staging.stage < 3
          /\ staging' = [staging EXCEPT !.stage = @ + 1,
                            !.origin = IF staging.stage = 0 THEN None ELSE asked(r).url]
          /\ UNCHANGED <<stateDirs, repository, metadata, intent, lock, runs, bounds>>
      BY <1>13 DEF GitFetches, At
    <2>2. ~found(metadata) /\ Names(r, intent) /\ staging.clean
      BY <1>0, <1>4, <2>1 DEF Progress
    <2>3. /\ staging' \in Staging /\ staging'.clean
          /\ staging'.stage >= 2 => staging'.origin = asked(r).url
      <3>1. asked(r).url \in Optional(URLs) /\ staging.stage \in 0..4
        BY <1>1, <1>2 DEF Options, Staging
      <3>2. staging.stage + 1 \in 0..4 /\ (staging.stage + 1 >= 2 => staging.stage # 0)
        BY <2>1, <3>1
      <3> QED
        BY <1>1, <2>1, <2>2, <3>1, <3>2 DEF Staging, Optional
    <2>4. Moved(r, "git")
      BY <1>0, <2>1 DEF Moved, TypeOK, asked
    <2>5. TypeOK' /\ \A q \in Runs : q # r => Progress(q)'
      BY <1>1, <1>4, <2>1, <2>3, <2>4, UnderLock DEF bounds
    <2>6. Progress(r)'
      BY <1>4, <2>1, <2>2, <2>3, <2>4 DEF Progress, Moved, found, Names
    <2>7. MarkerTrue' /\ IntentKept'
      BY <1>0, <2>1, <2>5 DEF MarkerTrue, IntentKept, found
    <2> QED
      BY <2>5, <2>6, <2>7 DEF IInv
  <1>14. CASE GitChecksOut(r)
    <2>1. /\ runs[r].at = "git" /\ staging.stage = 3
          /\ Goes(r, "rename") /\ lock' = lock
          /\ UNCHANGED <<stateDirs, repository, metadata, intent, bounds>>
      BY <1>14 DEF GitChecksOut, At, Continues
    <2>2. PICK c \in Commits : staging' = [staging EXCEPT !.stage = 4, !.head = c]
      BY <1>14 DEF GitChecksOut
    <2>3. /\ ~found(metadata) /\ Names(r, intent) /\ staging.clean
          /\ staging.origin = asked(r).url
      BY <1>0, <1>4, <2>1 DEF Progress
    <2>4. /\ staging' \in Staging /\ staging'.clean /\ staging'.stage = 4
          /\ staging'.origin = asked(r).url
      <3>1. c \in Optional(Commits) /\ 4 \in 0..4
        BY DEF Optional
      <3>2. staging' \in Staging
        BY <1>1, <2>2, <3>1 DEF Staging
      <3> QED
        BY <1>1, <2>2, <2>3, <3>2 DEF Staging
    <2>5. TypeOK' /\ \A q \in Runs : q # r => Progress(q)'
      BY <1>1, <1>3, <1>4, <2>1, <2>4, UnderLock DEF bounds
    <2>6. Progress(r)'
      <3>1. Moved(r, "rename")
        BY <1>3, <1>4, <2>1
      <3> QED
        BY <1>4, <3>1, <2>1, <2>3, <2>4 DEF Progress, Moved, found, Names
    <2>7. MarkerTrue' /\ IntentKept'
      BY <1>0, <2>1, <2>5 DEF MarkerTrue, IntentKept, found
    <2> QED
      BY <2>5, <2>6, <2>7 DEF IInv
  <1>15. CASE Rename(r)
    <2>1. /\ runs[r].at = "rename" /\ staging' = NoStaging
          /\ repository' = [Bare("dir") EXCEPT !.origin = staging.origin, !.head = staging.head,
                               !.fetched = asked(r).revision, !.clean = staging.clean]
          /\ runs' = [runs EXCEPT ![r].at = "writeMetadata", ![r].commit = staging.head]
          /\ UNCHANGED <<stateDirs, metadata, intent, lock, bounds>>
      BY <1>15 DEF Rename, At
    <2>2. /\ ~found(metadata) /\ Names(r, intent) /\ staging.clean
          /\ staging.origin = asked(r).url
      BY <1>0, <1>4, <2>1 DEF Progress
    <2>3. Moved(r, "writeMetadata") /\ runs'[r].commit = staging.head
      <3>1. staging.head \in Optional(Commits)
        BY <1>1 DEF Staging
      <3> QED
        BY <1>3, <1>4, <2>1, <3>1
    <2>4. /\ repository' \in Repository /\ repository'.clean /\ repository'.kind = "dir"
          /\ repository'.origin = asked(r).url /\ repository'.head = staging.head
          /\ repository'.fetched = asked(r).revision
      <3>1. /\ asked(r).revision \in Optional(Revisions)
            /\ asked(r).url \in Optional(URLs) /\ staging.head \in Optional(Commits)
            /\ 0 \in 0..MaxEdits
        BY <1>1, <1>2, BootstrapAssumption DEF Options, Staging, Optional
      <3>2. repository' = [kind |-> "dir", origin |-> asked(r).url, head |-> staging.head,
                           fetched |-> asked(r).revision, clean |-> TRUE, edits |-> 0]
        <4>1. staging.clean = TRUE
          BY <1>1, <2>2 DEF Staging
        <4> QED
          BY <2>1, <2>2, <4>1 DEF Bare
      <3> QED
        BY <3>1, <3>2 DEF Repository
    <2>5. TypeOK' /\ \A q \in Runs : q # r => Progress(q)'
      BY <1>1, <1>4, <2>1, <2>3, <2>4, BlankTypes, UnderLock DEF bounds
    <2>6. Progress(r)'
      <3>1. Cloned(r)'
        BY <2>3, <2>4 DEF Cloned, Moved
      <3> QED
        BY <1>4, <2>1, <2>2, <2>3, <3>1 DEF Progress, Moved, found, Names
    <2>7. MarkerTrue' /\ IntentKept'
      BY <2>1, <2>2, <2>4, <2>5 DEF MarkerTrue, IntentKept, found, Names
    <2> QED
      BY <2>5, <2>6, <2>7 DEF IInv
  <1>16. CASE writeMetadata(r)
    <2>1. /\ runs[r].at = "writeMetadata" /\ metadata' = RecordOf(r, runs[r].commit)
          /\ Goes(r, "removeIntent") /\ lock' = lock
          /\ UNCHANGED <<stateDirs, repository, staging, intent, bounds>>
      BY <1>16 DEF writeMetadata, At, Continues
    <2>2. metadata' \in Metadata /\ found(metadata')
      BY <1>0, <1>2, <2>1, AskedType
    <2>3. TypeOK' /\ \A q \in Runs : q # r => Progress(q)'
      BY <1>1, <1>3, <1>4, <2>1, <2>2, UnderLock DEF bounds
    <2>4. Progress(r)'
      <3>1. Moved(r, "removeIntent")
        BY <1>3, <1>4, <2>1
      <3> QED
        BY <1>4, <3>1, <2>1, <2>2 DEF Progress, Moved, found
    <2>5. Cloned(r)
      BY <1>0, <2>1 DEF Progress
    <2>6. MarkerTrue' /\ IntentKept'
      BY <1>0, <2>1, <2>2, <2>3, <2>5 DEF MarkerTrue, IntentKept, found, Cloned, RecordOf
    <2> QED
      BY <2>3, <2>4, <2>6 DEF IInv
  <1>17. CASE RemovesIntent(r)
    <2>1. /\ runs[r].at = "removeIntent" /\ intent' = NoMetadata
          /\ Goes(r, "ready") /\ lock' = None
          /\ UNCHANGED <<stateDirs, repository, staging, metadata, bounds>>
      BY <1>17 DEF RemovesIntent, At, Returns
    <2>2. found(metadata)
      BY <1>0, <2>1 DEF Progress
    <2>3. TypeOK' /\ \A q \in Runs : q # r => Progress(q)'
      BY <1>1, <1>3, <1>4, <2>1, BlankTypes, UnderLock DEF bounds
    <2>4. Progress(r)'
      <3>1. Moved(r, "ready")
        BY <1>3, <1>4, <2>1
      <3> QED
        BY <1>4, <3>1, <2>1, <2>2 DEF Progress, Moved, found
    <2>5. MarkerTrue' /\ IntentKept'
      BY <1>0, <2>1, <2>2, <2>3 DEF MarkerTrue, IntentKept, found
    <2> QED
      BY <2>3, <2>4, <2>5 DEF IInv
  <1> QED
    BY <1>5, <1>6, <1>7, <1>8, <1>9, <1>10, <1>11, <1>12, <1>13, <1>14, <1>15, <1>16, <1>17

\* A run that fails or is killed under the lock leaves the marker, the intent and the
\* repository as they are.
LEMMA Interrupted ==
    ASSUME IInv, NEW r \in Runs, Fails(r) \/ (Crash(r) /\ runs[r].at \in Locked)
    PROVE  IInv'
  <1>0. TypeOK /\ MarkerTrue /\ IntentKept /\ lock = r /\ runs[r].at \in Locked
        /\ staging \in Staging /\ faults \in 0..MaxFaults /\ crashes \in 0..MaxCrashes
    BY DEF IInv, MarkerTrue, TypeOK, Fails
  <1>1. /\ Goes(r, "failed") /\ lock' = None
        /\ UNCHANGED <<stateDirs, repository, metadata, intent>>
    BY <1>0 DEF Fails, Crash, Returns
  <1>2. Moved(r, "failed")
    BY <1>0, <1>1, Moves DEF Optional
  <1>3. staging' \in Staging
    <2>1. CASE Fails(r)
      BY <1>0, <2>1, BlankTypes DEF Fails
    <2>2. CASE Crash(r)
      <3>1. (staging.clean /\ ~(lock = r /\ staging.stage > 0)) \in BOOLEAN
        OBVIOUS
      <3>2. staging' = [staging EXCEPT !.clean = staging.clean /\ ~(lock = r /\ staging.stage > 0)]
        BY <2>2 DEF Crash
      <3> QED
        BY <1>0, <3>1, <3>2 DEF Staging
    <2> QED
      BY <2>1, <2>2
  <1>4. faults' \in 0..MaxFaults /\ crashes' \in 0..MaxCrashes
    BY <1>0, BootstrapAssumption DEF Fails, Crash
  <1>5. "failed" \notin Locked
    BY DEF Locked
  <1>6. TypeOK' /\ \A q \in Runs : q # r => Progress(q)'
    BY <1>0, <1>1, <1>2, <1>3, <1>4, <1>5, UnderLock DEF TypeOK
  <1>7. Progress(r)'
    BY <1>2, <1>5 DEF Progress, Moved
  <1>8. MarkerTrue' /\ IntentKept'
    BY <1>0, <1>1, <1>6 DEF MarkerTrue, IntentKept, found
  <1> QED
    BY <1>6, <1>7, <1>8 DEF IInv

\* A run killed while it waits for the lock touches nothing.
LEMMA Killed ==
    ASSUME IInv, NEW r \in Runs, Crash(r), runs[r].at \notin Locked
    PROVE  IInv'
  <1>0. /\ TypeOK /\ MarkerTrue /\ IntentKept /\ lock # r
        /\ staging \in Staging /\ crashes \in 0..MaxCrashes
    BY DEF IInv, MarkerTrue, TypeOK
  <1>1. /\ Goes(r, "failed") /\ lock' = lock
        /\ UNCHANGED <<stateDirs, repository, metadata, intent, faults>>
        /\ crashes' \in 0..MaxCrashes
    BY <1>0, BootstrapAssumption DEF Crash
  <1>2. staging' = staging
    <2>1. (staging.clean /\ ~(lock = r /\ staging.stage > 0)) = staging.clean
          /\ staging.clean \in BOOLEAN
      BY <1>0 DEF Staging
    <2>2. staging' = [staging EXCEPT !.clean = staging.clean /\ ~(lock = r /\ staging.stage > 0)]
      BY DEF Crash
    <2>3. staging' = [staging EXCEPT !.clean = staging.clean]
      BY <2>1, <2>2
    <2> QED
      BY <1>0, <2>3 DEF Staging
  <1>3. Moved(r, "failed") /\ "failed" \notin Locked
    BY <1>0, <1>1, Moves DEF Optional, Locked
  <1>4. \A q \in Runs : runs'[q].at \in Locked <=> lock' = q
    BY <1>0, <1>1, <1>3 DEF TypeOK, Moved
  <1>5. TypeOK'
    BY <1>0, <1>1, <1>2, <1>3, <1>4 DEF TypeOK, Moved
  <1>6. MarkerTrue' /\ IntentKept'
    BY <1>0, <1>1, <1>5 DEF MarkerTrue, IntentKept, found
  <1>7. ASSUME NEW q \in Runs PROVE Progress(q)'
    <2>1. CASE q = r
      BY <1>3, <2>1 DEF Progress, Moved
    <2>2. CASE q # r
      BY <1>1, <1>2, <1>3, <2>2, Quiet DEF IInv, Moved
    <2> QED
      BY <2>1, <2>2
  <1> QED
    BY <1>6, <1>7 DEF IInv

\* The agent works only where there is a marker, and then no run touches the repository.
LEMMA Agent ==
    ASSUME IInv, NEW r \in Runs, AgentWorks(r)
    PROVE  IInv'
  <1>0. TypeOK /\ MarkerTrue /\ repository \in Repository /\ repository.edits \in 0..MaxEdits
    BY DEF IInv, MarkerTrue, TypeOK, Repository
  <1>1. /\ UNCHANGED <<stateDirs, staging, metadata, intent, lock, runs, bounds>>
        /\ runs[r].at = "ready" /\ repository.edits < MaxEdits
    BY DEF AgentWorks, At
  <1>2. found(metadata)
    BY <1>1 DEF IInv, Progress
  <1>3. repository.edits + 1 \in 0..MaxEdits /\ repository.edits + 1 # 0
    BY <1>0, <1>1, BootstrapAssumption
  <1>4. repository' \in Repository /\ repository'.clean /\ repository'.edits # 0
    <2>1. ASSUME NEW c \in Optional(Commits),
                 repository' = [repository EXCEPT !.kind = "dir", !.head = c, !.edits = @ + 1]
          PROVE  repository' \in Repository /\ repository'.clean /\ repository'.edits # 0
      BY <1>0, <1>3, <2>1 DEF Repository, MarkerTrue
    <2>2. CASE repository' = [Bare("empty") EXCEPT !.edits = repository.edits + 1]
      <3>1. repository' = [kind |-> "empty", origin |-> None, head |-> None, fetched |-> None,
                           clean |-> TRUE, edits |-> repository.edits + 1]
        BY <2>2 DEF Bare
      <3> QED
        BY <1>3, <3>1 DEF Repository, Optional
    <2> QED
      BY <2>1, <2>2 DEF AgentWorks
  <1>5. TypeOK'
    BY <1>0, <1>1, <1>4 DEF TypeOK, bounds
  <1>6. MarkerTrue' /\ IntentKept'
    BY <1>1, <1>2, <1>4, <1>5 DEF MarkerTrue, IntentKept, found
  <1>7. ASSUME NEW q \in Runs PROVE Progress(q)'
    <2>1. Progress(q) /\ runs[q].at # "writeMetadata"
      BY <1>2 DEF IInv, Progress, Locked
    <2> QED
      BY <1>1, <2>1 DEF Progress, asked, Names, found
  <1> QED
    BY <1>6, <1>7 DEF IInv

-----------------------------------------------------------------------------
(* The theorems.                                                           *)

\* No step of a container, of Kubernetes or of the agent breaks the invariant.
LEMMA NextIInv == IInv /\ [Next]_vars => IInv'
  <1> SUFFICES ASSUME IInv, [Next]_vars PROVE IInv'
    OBVIOUS
  <1>1. CASE UNCHANGED vars
    <2>1. MarkerTrue' /\ IntentKept'
      BY <1>1 DEF IInv, MarkerTrue, IntentKept, TypeOK, found, vars
    <2>2. ASSUME NEW q \in Runs PROVE Progress(q)'
      BY <1>1, Quiet DEF IInv, vars
    <2> QED
      BY <2>1, <2>2 DEF IInv
  <1>2. ASSUME NEW r \in Runs, Execute(r) \/ Fails(r) \/ Crash(r) \/ Restarts(r) \/ AgentWorks(r)
        PROVE  IInv'
    <2>1. CASE Execute(r)
      BY <2>1, BeforeLock, Calls DEF Execute
    <2>2. CASE Fails(r)
      BY <2>2, Interrupted
    <2>3. CASE Crash(r) /\ runs[r].at \in Locked
      BY <2>3, Interrupted
    <2>4. CASE Crash(r) /\ runs[r].at \notin Locked
      BY <2>4, Killed
    <2>5. CASE Restarts(r)
      BY <2>5, BeforeLock
    <2>6. CASE AgentWorks(r)
      BY <2>6, Agent
    <2> QED
      BY <1>2, <2>1, <2>2, <2>3, <2>4, <2>5, <2>6
  <1> QED
    BY <1>1, <1>2 DEF Next

\* Hence the invariant always holds.
LEMMA IInvHolds == Spec => []IInv
  BY InitIInv, NextIInv, PTL DEF Spec

\* bootstrap.json is true: until the agent has changed something, the repository is the
\* clone of the recorded URL, at the recorded commit, fetched if at all for the recorded
\* revision, and with nothing of an interrupted attempt in it.
THEOREM MarkerIsTrue == Spec => []MarkerTrue
  <1>1. IInv => MarkerTrue
    BY DEF IInv
  <1> QED
    BY <1>1, IInvHolds, PTL

\* The two calls that write bootstrap.json are reached only where there is none.
THEOREM MarkerIsWrittenOnce == Spec => MarkerOnce
  <1>1. IInv /\ [Next]_vars => (found(metadata) => metadata' = metadata)
    <2> SUFFICES ASSUME IInv, [Next]_vars, found(metadata), metadata' # metadata PROVE FALSE
      OBVIOUS
    <2>1. ~UNCHANGED vars
      BY DEF vars
    <2>2. PICK r \in Runs : Execute(r) \/ Fails(r) \/ Crash(r) \/ Restarts(r) \/ AgentWorks(r)
      BY <2>1 DEF Next
    <2>3. WritesEmptyMetadata(r) \/ writeMetadata(r)
      BY <2>2 DEF Execute, Fails, Crash, Restarts, AgentWorks, Rejects, preparePaths,
           ensureDirectory, Flock, readMetadata, ensureEmptyRepositoryDirectory, gitEnvironment,
           readIntent, recoverCommittedRepository, requireRepositoryDestinationAvailable,
           resetStaging, GitFetches, GitChecksOut, Rename, RemovesIntent
    <2>4. runs[r].at \in {"writeEmpty", "writeMetadata"}
      BY <2>3 DEF WritesEmptyMetadata, writeMetadata, At
    <2> QED
      BY <2>4 DEF IInv, Progress, Locked
  <1>2. IInv /\ [Next]_vars => [found(metadata) => metadata' = metadata]_vars
    BY <1>1
  <1> QED
    BY <1>2, IInvHolds, PTL DEF Spec, MarkerOnce

\* No call of a bootstrap removes or replaces what is in the repository directory.
THEOREM ContentIsKept == Spec => ContentKept
  <1>1. [Next]_vars => [repository.kind \in {"dir", "unsafe"} /\ repository' # repository
                          => \E r \in Runs : AgentWorks(r)]_vars
    <2> SUFFICES ASSUME [Next]_vars, repository.kind \in {"dir", "unsafe"},
                        repository' # repository
                 PROVE  \E r \in Runs : AgentWorks(r)
      OBVIOUS
    <2>1. ~UNCHANGED vars
      BY DEF vars
    <2>2. PICK r \in Runs : Execute(r) \/ Fails(r) \/ Crash(r) \/ Restarts(r) \/ AgentWorks(r)
      BY <2>1 DEF Next
    <2> QED
      BY <2>2 DEF Execute, Fails, Crash, Restarts, Rejects, preparePaths,
           ensureDirectory, Flock, readMetadata, ensureEmptyRepositoryDirectory, gitEnvironment,
           WritesEmptyMetadata, writeMetadata, readIntent, recoverCommittedRepository,
           requireRepositoryDestinationAvailable, resetStaging, GitFetches, GitChecksOut,
           Rename, RemovesIntent
  <1> QED
    BY <1>1, PTL DEF Spec, ContentKept
=============================================================================
