------------------------ MODULE BackgroundTaskProofs ------------------------
(***************************************************************************)
(* What the record of a background task says is true, however many clients *)
(* list, cancel and stop it and however old what they write back is.       *)
(***************************************************************************)
EXTENDS BackgroundTask, TLAPS

\* What makes a record that somebody holds as good as the one on disk: an old
\* record is still true when it is written back.
Sound(r) == Truthful(r) /\ (kind = "agent" => ~r.pid)

RecordsSound ==
    /\ rec # NoRecord => Sound(rec)
    /\ \A a \in Actors : held[a] # NoRecord => Sound(held[a])

\* How far launcher and worker are, and what has happened by then.
WorkerControl ==
    /\ launcher = "new" => rec = NoRecord /\ \A a \in Actors : held[a] = NoRecord
    /\ launcher \in {"new", "created", "failing", "registered"} => worker = "none"
    /\ worker \in {"none", "booting", "ready", "turn", "stopping"} => outcome = "none"
    /\ worker = "finishing" => outcome # "none"
    /\ worker = "stopping" \/ flag = "set" \/ term \/ outcome = "cancelled" => asked
    /\ worker = "none" /\ launcher = "done" => kind = "job"
    /\ launcher \in {"marking", "failing"} => kind = "job"
    /\ worker \in {"booting", "ready"} => kind = "job"

\* What a client holds, and why.
ClientControl ==
    \A c \in Clients :
        /\ client[c] \in {"stop", "write"} => held[c].status \in Active
        /\ client[c] = "orphan" => held[c].status = "running"
        /\ client[c] = "orphan" /\ kind = "job" => worker = "gone" \/ misjudged
        /\ client[c] \in {"kill", "mark", "cancel", "stop", "write"} => asked

BInv == BackgroundTypeOK /\ RecordsSound /\ WorkerControl /\ ClientControl

LEMMA BInit == Init => BInv
  BY BackgroundAssumption
  DEF Init, BInv, BackgroundTypeOK, RecordsSound, WorkerControl, ClientControl

\* A step after which what was true of a record is true still.
Onward ==
    /\ kind' = kind
    /\ outcome' = outcome \/ outcome = "none"
    /\ asked => asked'
    /\ misjudged => misjudged'
    /\ worker = "gone" => worker' = "gone"
    /\ worker = "none" /\ launcher = "done" => worker' = "none" /\ launcher' = "done"

LEMMA SoundStays ==
    ASSUME Onward
    PROVE  \A r \in Records : Sound(r) => Sound(r)'
  BY DEF Onward, Sound, Truthful

\* Somebody reads, or lets go of what was read: no record is new.
LEMMA NothingNew ==
    ASSUME BInv, Onward, UNCHANGED rec,
           \/ UNCHANGED held
           \/ \E a \in Actors : Reads(a) \/ Forgets(a)
    PROVE  RecordsSound'
<1>1. \A r \in Records : Sound(r) => Sound(r)'
  BY SoundStays
<1>2. \A a \in Actors : held'[a] # NoRecord
          => held'[a] = held[a] \/ (held'[a] = rec /\ rec # NoRecord)
  BY DEF BInv, BackgroundTypeOK, Reads, Forgets
<1>3. rec # NoRecord => Sound(rec)'
  BY <1>1 DEF BInv, BackgroundTypeOK, RecordsSound, Sound, Truthful
<1>4. \A a \in Actors : held'[a] # NoRecord => Sound(held[a])'
  BY <1>1, <1>2, <1>3 DEF BInv, BackgroundTypeOK, RecordsSound, Sound, Truthful
<1> QED
  BY <1>3, <1>4 DEF RecordsSound

\* What a read, a validated change and an unvalidated one leave behind.
LEMMA ReadsTyped ==
    ASSUME BInv, NEW a \in Actors, Reads(a) \/ Forgets(a)
    PROVE  held' \in [Actors -> Records \cup {NoRecord}]
  BY DEF BInv, BackgroundTypeOK, Reads, Forgets

LEMMA MarksTyped ==
    ASSUME BInv, NEW a \in Actors, NEW next \in Statuses, Marks(a, next),
           kind = "agent" => next # "running"
    PROVE  \/ rec' = rec
           \/ rec' \in Records /\ rec'.status = next /\ (kind = "agent" => ~rec'.pid)
  BY DEF BInv, BackgroundTypeOK, RecordsSound, Sound, Records, Marks

LEMMA OverwritesTyped ==
    ASSUME BInv, NEW a \in Actors, NEW next \in Statuses, Overwrites(a, next)
    PROVE  rec' \in Records /\ rec'.status = next /\ (kind = "agent" => ~rec'.pid)
  BY DEF BInv, BackgroundTypeOK, RecordsSound, Sound, Records, Overwrites

\* A write: what is written is sound.
LEMMA SomethingNew ==
    ASSUME BInv, Onward, NEW a \in Actors, rec' \in Records, Sound(rec)',
           Forgets(a) \/ UNCHANGED held
    PROVE  RecordsSound'
<1>1. \A r \in Records : Sound(r) => Sound(r)'
  BY SoundStays
<1>2. \A b \in Actors : held'[b] # NoRecord => held'[b] = held[b]
  BY DEF BInv, BackgroundTypeOK, Forgets
<1> QED
  BY <1>1, <1>2 DEF BInv, BackgroundTypeOK, RecordsSound

LEMMA LauncherKeeps ==
    ASSUME BInv,
           \/ Spawn \/ RegisterAgent \/ AgentStarts \/ LauncherReads
           \/ LauncherLost \/ CreateJob \/ CreateAgent \/ LauncherMarks
    PROVE  BInv'
<1>1. CASE Spawn
  <2>1. BackgroundTypeOK'
    BY <1>1 DEF BInv, BackgroundTypeOK, Spawn
  <2>2. Onward
    BY <1>1 DEF BInv, WorkerControl, ClientControl, Onward, Spawn
  <2>3. RecordsSound'
    BY <1>1, <2>2, NothingNew DEF Actors, Spawn
  <2>4. WorkerControl'
    BY <1>1 DEF BInv, BackgroundTypeOK, Actors, WorkerControl, ClientControl,
       Spawn
  <2>5. ClientControl'
    BY <1>1, BackgroundAssumption DEF BInv, BackgroundTypeOK, Active, Final,
       Statuses, Records, Actors, WorkerControl, ClientControl, Spawn
  <2> QED
    BY <2>1, <2>3, <2>4, <2>5 DEF BInv
<1>2. CASE RegisterAgent
  <2>1. BackgroundTypeOK'
    BY <1>2 DEF BInv, BackgroundTypeOK, RegisterAgent
  <2>2. Onward
    BY <1>2 DEF BInv, WorkerControl, ClientControl, Onward, RegisterAgent
  <2>3. RecordsSound'
    BY <1>2, <2>2, NothingNew DEF Actors, RegisterAgent
  <2>4. WorkerControl'
    BY <1>2 DEF BInv, BackgroundTypeOK, Actors, WorkerControl, ClientControl,
       RegisterAgent
  <2>5. ClientControl'
    BY <1>2, BackgroundAssumption DEF BInv, BackgroundTypeOK, Active, Final,
       Statuses, Records, Actors, WorkerControl, ClientControl, RegisterAgent
  <2> QED
    BY <2>1, <2>3, <2>4, <2>5 DEF BInv
<1>3. CASE AgentStarts
  <2>1. BackgroundTypeOK'
    BY <1>3 DEF BInv, BackgroundTypeOK, AgentStarts
  <2>2. Onward
    BY <1>3 DEF BInv, WorkerControl, ClientControl, Onward, AgentStarts
  <2>3. RecordsSound'
    BY <1>3, <2>2, NothingNew DEF Actors, AgentStarts
  <2>4. WorkerControl'
    BY <1>3 DEF BInv, BackgroundTypeOK, Actors, WorkerControl, ClientControl,
       AgentStarts
  <2>5. ClientControl'
    BY <1>3, BackgroundAssumption DEF BInv, BackgroundTypeOK, Active, Final,
       Statuses, Records, Actors, WorkerControl, ClientControl, AgentStarts
  <2> QED
    BY <2>1, <2>3, <2>4, <2>5 DEF BInv
<1>4. CASE LauncherReads
  <2>1. held' \in [Actors -> Records \cup {NoRecord}]
    BY <1>4, ReadsTyped DEF Actors, LauncherReads
  <2>2. BackgroundTypeOK'
    BY <1>4, <2>1 DEF BInv, BackgroundTypeOK, LauncherReads
  <2>3. Onward
    BY <1>4 DEF BInv, WorkerControl, ClientControl, Onward, LauncherReads
  <2>4. RecordsSound'
    BY <1>4, <2>3, NothingNew DEF Actors, LauncherReads
  <2>5. WorkerControl'
    BY <1>4 DEF BInv, BackgroundTypeOK, Actors, WorkerControl, ClientControl,
       LauncherReads, Reads
  <2>6. ClientControl'
    BY <1>4, BackgroundAssumption DEF BInv, BackgroundTypeOK, Active, Final,
       Statuses, Records, Actors, WorkerControl, ClientControl, LauncherReads,
       Reads
  <2> QED
    BY <2>2, <2>4, <2>5, <2>6 DEF BInv
<1>5. CASE LauncherLost
  <2>1. held' \in [Actors -> Records \cup {NoRecord}]
    BY <1>5, ReadsTyped DEF Actors, LauncherLost
  <2>2. BackgroundTypeOK'
    BY <1>5, <2>1 DEF BInv, BackgroundTypeOK, LauncherLost
  <2>3. Onward
    BY <1>5 DEF BInv, WorkerControl, ClientControl, Onward, LauncherLost
  <2>4. RecordsSound'
    BY <1>5, <2>3, NothingNew DEF Actors, LauncherLost
  <2>5. WorkerControl'
    BY <1>5 DEF BInv, BackgroundTypeOK, Actors, WorkerControl, ClientControl,
       LauncherLost, Forgets
  <2>6. ClientControl'
    BY <1>5, BackgroundAssumption DEF BInv, BackgroundTypeOK, Active, Final,
       Statuses, Records, Actors, WorkerControl, ClientControl, LauncherLost,
       Forgets
  <2> QED
    BY <2>2, <2>4, <2>5, <2>6 DEF BInv
<1>6. CASE CreateJob
  <2>1. BackgroundTypeOK'
    BY <1>6 DEF BInv, BackgroundTypeOK, CreateJob, Records, Statuses, Active,
       Final
  <2>2. Onward
    BY <1>6 DEF BInv, WorkerControl, ClientControl, Onward, CreateJob
  <2>3. RecordsSound'
    <3>1. rec' \in Records /\ Sound(rec)'
      BY <1>6 DEF Records, Statuses, Active, Final, Sound, Truthful, CreateJob
    <3> QED
      BY <1>6, <2>2, <3>1, SomethingNew DEF Actors, CreateJob
  <2>4. WorkerControl'
    BY <1>6 DEF BInv, BackgroundTypeOK, Actors, WorkerControl, ClientControl,
       CreateJob
  <2>5. ClientControl'
    BY <1>6, BackgroundAssumption DEF BInv, BackgroundTypeOK, Active, Final,
       Statuses, Records, Actors, WorkerControl, ClientControl, CreateJob
  <2> QED
    BY <2>1, <2>3, <2>4, <2>5 DEF BInv
<1>7. CASE CreateAgent
  <2>1. BackgroundTypeOK'
    BY <1>7 DEF BInv, BackgroundTypeOK, CreateAgent, Records, Statuses,
       Active, Final
  <2>2. Onward
    BY <1>7 DEF BInv, WorkerControl, ClientControl, Onward, CreateAgent
  <2>3. RecordsSound'
    <3>1. rec' \in Records /\ Sound(rec)'
      BY <1>7 DEF Records, Statuses, Active, Final, Sound, Truthful, CreateAgent
    <3> QED
      BY <1>7, <2>2, <3>1, SomethingNew DEF Actors, CreateAgent
  <2>4. WorkerControl'
    BY <1>7 DEF BInv, BackgroundTypeOK, Actors, WorkerControl, ClientControl,
       CreateAgent
  <2>5. ClientControl'
    BY <1>7, BackgroundAssumption DEF BInv, BackgroundTypeOK, Active, Final,
       Statuses, Records, Actors, WorkerControl, ClientControl, CreateAgent
  <2> QED
    BY <2>1, <2>3, <2>4, <2>5 DEF BInv
<1>8. CASE LauncherMarks
  <2>1. held' \in [Actors -> Records \cup {NoRecord}]
    BY <1>8, ReadsTyped DEF Actors, LauncherMarks, Marks
  <2>2. \/ rec' = rec
        \/ /\ rec' \in Records
           /\ rec'.status = (IF launcher = "marking" THEN "running" ELSE "failed")
           /\ kind = "agent" => ~rec'.pid
    BY <1>8, MarksTyped DEF BInv, WorkerControl, Actors, Statuses, Active,
       Final, LauncherMarks
  <2>3. BackgroundTypeOK'
    BY <1>8, <2>1, <2>2 DEF BInv, BackgroundTypeOK, LauncherMarks
  <2>4. Onward
    BY <1>8 DEF BInv, WorkerControl, ClientControl, Onward, LauncherMarks
  <2>5. RecordsSound'
    <3>1. CASE rec' = rec
      BY <1>8, <2>4, <3>1, NothingNew DEF Actors, LauncherMarks, Marks
    <3>2. CASE rec' # rec
      <4>1. Sound(rec)'
        BY <1>8, <2>2, <2>4, <3>2 DEF Onward, Sound, Truthful, BInv,
           WorkerControl, ClientControl, LauncherMarks
      <4> QED
        BY <1>8, <2>2, <2>4, <3>2, <4>1, SomethingNew DEF Actors,
           LauncherMarks, Marks
    <3> QED
      BY <3>1, <3>2
  <2>6. WorkerControl'
    BY <1>8, <2>2 DEF BInv, BackgroundTypeOK, Actors, WorkerControl,
       ClientControl, LauncherMarks, Marks, Forgets
  <2>7. ClientControl'
    BY <1>8, BackgroundAssumption DEF BInv, BackgroundTypeOK, Active, Final,
       Statuses, Records, Actors, WorkerControl, ClientControl, LauncherMarks,
       Marks, Forgets
  <2> QED
    BY <2>3, <2>5, <2>6, <2>7 DEF BInv
<1> QED
  BY <1>1, <1>2, <1>3, <1>4, <1>5, <1>6, <1>7, <1>8

LEMMA WorkerKeeps ==
    ASSUME BInv,
           \/ WorkerReady \/ WorkerReads \/ WorkerMarks \/ WorkerSignalled
           \/ TurnEnds \/ WorkerLost
    PROVE  BInv'
<1>1. CASE WorkerReady
  <2>1. BackgroundTypeOK'
    BY <1>1 DEF BInv, BackgroundTypeOK, WorkerReady
  <2>2. Onward
    BY <1>1 DEF BInv, WorkerControl, ClientControl, Onward, WorkerReady
  <2>3. RecordsSound'
    BY <1>1, <2>2, NothingNew DEF Actors, WorkerReady
  <2>4. WorkerControl'
    BY <1>1 DEF BInv, BackgroundTypeOK, Actors, WorkerControl, ClientControl,
       WorkerReady
  <2>5. ClientControl'
    BY <1>1, BackgroundAssumption DEF BInv, BackgroundTypeOK, Active, Final,
       Statuses, Records, Actors, WorkerControl, ClientControl, WorkerReady
  <2> QED
    BY <2>1, <2>3, <2>4, <2>5 DEF BInv
<1>2. CASE WorkerReads
  <2>1. held' \in [Actors -> Records \cup {NoRecord}]
    BY <1>2, ReadsTyped DEF Actors, WorkerReads
  <2>2. BackgroundTypeOK'
    BY <1>2, <2>1 DEF BInv, BackgroundTypeOK, WorkerReads
  <2>3. Onward
    BY <1>2 DEF BInv, WorkerControl, ClientControl, Onward, WorkerReads
  <2>4. RecordsSound'
    BY <1>2, <2>3, NothingNew DEF Actors, WorkerReads
  <2>5. WorkerControl'
    BY <1>2 DEF BInv, BackgroundTypeOK, Actors, WorkerControl, ClientControl,
       WorkerReads, Reads
  <2>6. ClientControl'
    BY <1>2, BackgroundAssumption DEF BInv, BackgroundTypeOK, Active, Final,
       Statuses, Records, Actors, WorkerControl, ClientControl, WorkerReads,
       Reads
  <2> QED
    BY <2>2, <2>4, <2>5, <2>6 DEF BInv
<1>3. CASE WorkerMarks
  <2>1. held' \in [Actors -> Records \cup {NoRecord}]
    BY <1>3, ReadsTyped DEF Actors, WorkerMarks, Marks
  <2>2. \/ rec' = rec
        \/ /\ rec' \in Records
           /\ rec'.status = "running"
           /\ kind = "agent" => ~rec'.pid
    BY <1>3, MarksTyped DEF BInv, WorkerControl, Actors, Statuses, Active,
       Final, WorkerMarks
  <2>3. BackgroundTypeOK'
    BY <1>3, <2>1, <2>2 DEF BInv, BackgroundTypeOK, WorkerMarks
  <2>4. Onward
    BY <1>3 DEF BInv, WorkerControl, ClientControl, Onward, WorkerMarks
  <2>5. RecordsSound'
    <3>1. CASE rec' = rec
      BY <1>3, <2>4, <3>1, NothingNew DEF Actors, WorkerMarks, Marks
    <3>2. CASE rec' # rec
      <4>1. Sound(rec)'
        BY <1>3, <2>2, <2>4, <3>2 DEF Onward, Sound, Truthful, BInv,
           WorkerControl, ClientControl, WorkerMarks
      <4> QED
        BY <1>3, <2>2, <2>4, <3>2, <4>1, SomethingNew DEF Actors, WorkerMarks,
           Marks
    <3> QED
      BY <3>1, <3>2
  <2>6. WorkerControl'
    BY <1>3, <2>2 DEF BInv, BackgroundTypeOK, Actors, WorkerControl,
       ClientControl, WorkerMarks, Marks, Forgets
  <2>7. ClientControl'
    BY <1>3, BackgroundAssumption DEF BInv, BackgroundTypeOK, Active, Final,
       Statuses, Records, Actors, WorkerControl, ClientControl, WorkerMarks,
       Marks, Forgets
  <2> QED
    BY <2>3, <2>5, <2>6, <2>7 DEF BInv
<1>4. CASE WorkerSignalled
  <2>1. BackgroundTypeOK'
    BY <1>4 DEF BInv, BackgroundTypeOK, WorkerSignalled
  <2>2. Onward
    BY <1>4 DEF BInv, WorkerControl, ClientControl, Onward, WorkerSignalled
  <2>3. RecordsSound'
    BY <1>4, <2>2, NothingNew DEF Actors, WorkerSignalled
  <2>4. WorkerControl'
    BY <1>4 DEF BInv, BackgroundTypeOK, Actors, WorkerControl, ClientControl,
       WorkerSignalled
  <2>5. ClientControl'
    BY <1>4, BackgroundAssumption DEF BInv, BackgroundTypeOK, Active, Final,
       Statuses, Records, Actors, WorkerControl, ClientControl,
       WorkerSignalled
  <2> QED
    BY <2>1, <2>3, <2>4, <2>5 DEF BInv
<1>5. CASE TurnEnds
  <2>1. BackgroundTypeOK'
    BY <1>5 DEF BInv, BackgroundTypeOK, TurnEnds
  <2>2. Onward
    BY <1>5 DEF BInv, WorkerControl, ClientControl, Onward, TurnEnds
  <2>3. RecordsSound'
    BY <1>5, <2>2, NothingNew DEF Actors, TurnEnds
  <2>4. WorkerControl'
    BY <1>5 DEF BInv, BackgroundTypeOK, Actors, WorkerControl, ClientControl,
       TurnEnds
  <2>5. ClientControl'
    BY <1>5, BackgroundAssumption DEF BInv, BackgroundTypeOK, Active, Final,
       Statuses, Records, Actors, WorkerControl, ClientControl, TurnEnds
  <2> QED
    BY <2>1, <2>3, <2>4, <2>5 DEF BInv
<1>6. CASE WorkerLost
  <2>1. held' \in [Actors -> Records \cup {NoRecord}]
    BY <1>6, ReadsTyped DEF Actors, WorkerLost
  <2>2. BackgroundTypeOK'
    BY <1>6, <2>1 DEF BInv, BackgroundTypeOK, WorkerLost
  <2>3. Onward
    BY <1>6 DEF BInv, WorkerControl, ClientControl, Onward, WorkerLost
  <2>4. RecordsSound'
    BY <1>6, <2>3, NothingNew DEF Actors, WorkerLost
  <2>5. WorkerControl'
    BY <1>6 DEF BInv, BackgroundTypeOK, Actors, WorkerControl, ClientControl,
       WorkerLost, Forgets
  <2>6. ClientControl'
    BY <1>6, BackgroundAssumption DEF BInv, BackgroundTypeOK, Active, Final,
       Statuses, Records, Actors, WorkerControl, ClientControl, WorkerLost,
       Forgets
  <2> QED
    BY <2>2, <2>4, <2>5, <2>6 DEF BInv
<1> QED
  BY <1>1, <1>2, <1>3, <1>4, <1>5, <1>6

\* The end of the worker: a job's is validated, an agent's is not.
LEMMA FinishKeeps ==
    ASSUME BInv, WorkerFinishes
    PROVE  BInv'
<1> outcome \in Statuses /\ outcome # "running"
  BY DEF BInv, BackgroundTypeOK, WorkerControl, WorkerFinishes, Statuses, Final
<1>1. held' \in [Actors -> Records \cup {NoRecord}]
  BY ReadsTyped DEF Actors, WorkerFinishes, Marks, Overwrites
<1>2. \/ rec' = rec
      \/ rec' \in Records /\ rec'.status = outcome /\ (kind = "agent" => ~rec'.pid)
  BY MarksTyped, OverwritesTyped DEF Actors, WorkerFinishes
<1>3. BackgroundTypeOK'
  BY <1>1, <1>2 DEF BInv, BackgroundTypeOK, WorkerFinishes
<1>4. Onward
  BY DEF BInv, WorkerControl, ClientControl, Onward, WorkerFinishes
<1>5. RecordsSound'
  <2>1. CASE rec' = rec
    BY <1>4, <2>1, NothingNew DEF Actors, WorkerFinishes, Marks, Overwrites
  <2>2. CASE rec' # rec
    <3>1. Sound(rec)'
      BY <1>2, <2>2 DEF Sound, Truthful, BInv, BackgroundTypeOK, WorkerControl,
         WorkerFinishes
    <3> QED
      BY <1>2, <1>4, <2>2, <3>1, SomethingNew
      DEF Actors, WorkerFinishes, Marks, Overwrites
  <2> QED
    BY <2>1, <2>2
<1>6. WorkerControl'
  BY <1>2 DEF BInv, BackgroundTypeOK, WorkerControl, ClientControl, WorkerFinishes
<1>7. ClientControl'
  BY BackgroundAssumption
  DEF BInv, BackgroundTypeOK, Active, Final, Statuses, Records, Actors,
      WorkerControl, ClientControl,
      WorkerFinishes, Marks, Overwrites, Forgets
<1> QED
  BY <1>3, <1>5, <1>6, <1>7 DEF BInv

LEMMA ClientKeeps ==
    ASSUME BInv, NEW c \in Clients,
           \/ BeginLoad(c) \/ Probe(c) \/ SaveOrphan(c) \/ Kill(c)
           \/ CancelReads(c) \/ CancelMarks(c) \/ BeginStop(c)
           \/ StopSignals(c) \/ StopWrites(c) \/ BeginSignal(c)
           \/ SetFlag(c) \/ BeginReconcile(c) \/ ClientLost(c)
    PROVE  BInv'
<1>1. CASE BeginLoad(c)
  <2>1. held' \in [Actors -> Records \cup {NoRecord}]
    BY <1>1, ReadsTyped DEF Actors, BeginLoad
  <2>2. BackgroundTypeOK'
    BY <1>1, <2>1 DEF BInv, BackgroundTypeOK, BeginLoad
  <2>3. Onward
    BY <1>1 DEF BInv, WorkerControl, ClientControl, Onward, BeginLoad
  <2>4. RecordsSound'
    BY <1>1, <2>3, NothingNew DEF Actors, BeginLoad
  <2>5. WorkerControl'
    BY <1>1 DEF BInv, BackgroundTypeOK, Actors, WorkerControl, ClientControl,
       BeginLoad, Reads
  <2>6. ClientControl'
    BY <1>1, BackgroundAssumption DEF BInv, BackgroundTypeOK, Active, Final,
       Statuses, Records, Actors, WorkerControl, ClientControl, BeginLoad,
       Reads
  <2> QED
    BY <2>2, <2>4, <2>5, <2>6 DEF BInv
<1>2. CASE Probe(c)
  <2>1. held' \in [Actors -> Records \cup {NoRecord}]
    <3>1. UNCHANGED held \/ Forgets(c)
      BY <1>2 DEF Probe
    <3> QED
      BY <3>1, ReadsTyped DEF Actors, BInv, BackgroundTypeOK
  <2>2. /\ \E s \in {"orphan", "kill", "idle"} : client' = [client EXCEPT ![c] = s]
        /\ UNCHANGED <<kind, rec, launcher, worker, outcome, term, flag>>
    BY <1>2 DEF Probe
  <2>3. /\ asked' \in BOOLEAN /\ (asked => asked')
        /\ misjudged' \in BOOLEAN /\ (misjudged => misjudged')
    <3>1. asked' = TRUE \/ asked' = asked
      BY <1>2, Zenon DEF Probe
    <3>2. misjudged' = TRUE \/ misjudged' = misjudged
      BY <1>2, Zenon DEF Probe, ProcessIsAlive
    <3>3. asked \in BOOLEAN /\ misjudged \in BOOLEAN
      BY DEF BInv, BackgroundTypeOK
    <3> QED
      BY <3>1, <3>2, <3>3
  <2>4. BackgroundTypeOK'
    BY <2>1, <2>2, <2>3 DEF BInv, BackgroundTypeOK
  <2>5. Onward
    BY <2>2, <2>3 DEF BInv, Onward
  <2>6. RecordsSound'
    BY <1>2, <2>5, NothingNew DEF Actors, Probe
  <2>7. WorkerControl'
    BY <1>2 DEF BInv, BackgroundTypeOK, Actors, WorkerControl, ClientControl,
       Probe, Forgets, ProcessIsAlive
  <2>8. ClientControl'
    BY <1>2, BackgroundAssumption DEF BInv, BackgroundTypeOK, Active, Final,
       Statuses, Records, Actors, WorkerControl, ClientControl, Probe,
       Forgets, ProcessIsAlive
  <2> QED
    BY <2>4, <2>6, <2>7, <2>8 DEF BInv
<1>3. CASE SaveOrphan(c)
  <2>1. held' \in [Actors -> Records \cup {NoRecord}]
    BY <1>3, ReadsTyped DEF Actors, SaveOrphan, Overwrites
  <2>2. /\ rec' \in Records
        /\ rec'.status = "orphaned"
        /\ kind = "agent" => ~rec'.pid
    BY <1>3, OverwritesTyped DEF BInv, WorkerControl, Actors, Statuses,
       Active, Final, SaveOrphan
  <2>3. BackgroundTypeOK'
    BY <1>3, <2>1, <2>2 DEF BInv, BackgroundTypeOK, SaveOrphan
  <2>4. Onward
    BY <1>3 DEF BInv, WorkerControl, ClientControl, Onward, SaveOrphan
  <2>5. RecordsSound'
    <3>1. Sound(rec)'
      BY <1>3, <2>2, <2>4 DEF Onward, Sound, Truthful, BInv, WorkerControl,
         ClientControl, SaveOrphan
    <3> QED
      BY <1>3, <2>2, <2>4, <3>1, SomethingNew DEF Actors, SaveOrphan,
         Overwrites
  <2>6. WorkerControl'
    BY <1>3, <2>2 DEF BInv, BackgroundTypeOK, Actors, WorkerControl,
       ClientControl, SaveOrphan, Overwrites, Forgets
  <2>7. ClientControl'
    BY <1>3, BackgroundAssumption DEF BInv, BackgroundTypeOK, Active, Final,
       Statuses, Records, Actors, WorkerControl, ClientControl, SaveOrphan,
       Overwrites, Forgets
  <2> QED
    BY <2>3, <2>5, <2>6, <2>7 DEF BInv
<1>4. CASE Kill(c)
  <2>1. held' \in [Actors -> Records \cup {NoRecord}]
    BY <1>4, ReadsTyped DEF Actors, Kill
  <2>2. /\ worker' \in {worker, "gone"}
        /\ term' \in BOOLEAN
    BY <1>4, ZenonT(30) DEF Kill, SendTerm, BInv, BackgroundTypeOK
  <2>3. BackgroundTypeOK'
    BY <1>4, <2>1, <2>2 DEF BInv, BackgroundTypeOK, Kill
  <2>4. Onward
    BY <1>4 DEF BInv, WorkerControl, ClientControl, Onward, Kill, SendTerm
  <2>5. RecordsSound'
    BY <1>4, <2>4, NothingNew DEF Actors, Kill
  <2>6. WorkerControl'
    BY <1>4 DEF BInv, BackgroundTypeOK, Actors, WorkerControl, ClientControl,
       Kill, SendTerm, Forgets
  <2>7. ClientControl'
    BY <1>4, BackgroundAssumption DEF BInv, BackgroundTypeOK, Active, Final,
       Statuses, Records, Actors, WorkerControl, ClientControl, Kill,
       SendTerm, Forgets
  <2> QED
    BY <2>3, <2>5, <2>6, <2>7 DEF BInv
<1>5. CASE CancelReads(c)
  <2>1. held' \in [Actors -> Records \cup {NoRecord}]
    BY <1>5, ReadsTyped DEF Actors, CancelReads
  <2>2. BackgroundTypeOK'
    BY <1>5, <2>1 DEF BInv, BackgroundTypeOK, CancelReads
  <2>3. Onward
    BY <1>5 DEF BInv, WorkerControl, ClientControl, Onward, CancelReads
  <2>4. RecordsSound'
    BY <1>5, <2>3, NothingNew DEF Actors, CancelReads
  <2>5. WorkerControl'
    BY <1>5 DEF BInv, BackgroundTypeOK, Actors, WorkerControl, ClientControl,
       CancelReads, Reads
  <2>6. ClientControl'
    BY <1>5, BackgroundAssumption DEF BInv, BackgroundTypeOK, Active, Final,
       Statuses, Records, Actors, WorkerControl, ClientControl, CancelReads,
       Reads
  <2> QED
    BY <2>2, <2>4, <2>5, <2>6 DEF BInv
<1>6. CASE CancelMarks(c)
  <2>1. held' \in [Actors -> Records \cup {NoRecord}]
    BY <1>6, ReadsTyped DEF Actors, CancelMarks, Marks
  <2>2. \/ rec' = rec
        \/ /\ rec' \in Records
           /\ rec'.status = "cancelled"
           /\ kind = "agent" => ~rec'.pid
    BY <1>6, MarksTyped DEF BInv, WorkerControl, Actors, Statuses, Active,
       Final, CancelMarks
  <2>3. BackgroundTypeOK'
    BY <1>6, <2>1, <2>2 DEF BInv, BackgroundTypeOK, CancelMarks
  <2>4. Onward
    BY <1>6 DEF BInv, WorkerControl, ClientControl, Onward, CancelMarks
  <2>5. RecordsSound'
    <3>1. CASE rec' = rec
      BY <1>6, <2>4, <3>1, NothingNew DEF Actors, CancelMarks, Marks
    <3>2. CASE rec' # rec
      <4>1. Sound(rec)'
        BY <1>6, <2>2, <2>4, <3>2 DEF Onward, Sound, Truthful, BInv,
           WorkerControl, ClientControl, CancelMarks
      <4> QED
        BY <1>6, <2>2, <2>4, <3>2, <4>1, SomethingNew DEF Actors, CancelMarks,
           Marks
    <3> QED
      BY <3>1, <3>2
  <2>6. WorkerControl'
    BY <1>6, <2>2 DEF BInv, BackgroundTypeOK, Actors, WorkerControl,
       ClientControl, CancelMarks, Marks, Forgets
  <2>7. ClientControl'
    BY <1>6, BackgroundAssumption DEF BInv, BackgroundTypeOK, Active, Final,
       Statuses, Records, Actors, WorkerControl, ClientControl, CancelMarks,
       Marks, Forgets
  <2> QED
    BY <2>3, <2>5, <2>6, <2>7 DEF BInv
<1>7. CASE BeginStop(c)
  <2>1. held' \in [Actors -> Records \cup {NoRecord}]
    BY <1>7, ReadsTyped DEF Actors, BeginStop
  <2>2. BackgroundTypeOK'
    BY <1>7, <2>1 DEF BInv, BackgroundTypeOK, BeginStop
  <2>3. Onward
    BY <1>7 DEF BInv, WorkerControl, ClientControl, Onward, BeginStop
  <2>4. RecordsSound'
    BY <1>7, <2>3, NothingNew DEF Actors, BeginStop
  <2>5. WorkerControl'
    BY <1>7 DEF BInv, BackgroundTypeOK, Actors, WorkerControl, ClientControl,
       BeginStop, Reads
  <2>6. ClientControl'
    BY <1>7, BackgroundAssumption DEF BInv, BackgroundTypeOK, Active, Final,
       Statuses, Records, Actors, WorkerControl, ClientControl, BeginStop,
       Reads
  <2> QED
    BY <2>2, <2>4, <2>5, <2>6 DEF BInv
<1>8. CASE StopSignals(c)
  <2>1. /\ worker' \in {worker, "gone"}
        /\ term' \in BOOLEAN
    BY <1>8, ZenonT(30) DEF StopSignals, SendTerm, BInv, BackgroundTypeOK
  <2>2. BackgroundTypeOK'
    BY <1>8, <2>1 DEF BInv, BackgroundTypeOK, StopSignals
  <2>3. Onward
    BY <1>8 DEF BInv, WorkerControl, ClientControl, Onward, StopSignals,
       SendTerm
  <2>4. RecordsSound'
    BY <1>8, <2>3, NothingNew DEF Actors, StopSignals
  <2>5. WorkerControl'
    BY <1>8 DEF BInv, BackgroundTypeOK, Actors, WorkerControl, ClientControl,
       StopSignals, SendTerm
  <2>6. ClientControl'
    BY <1>8, BackgroundAssumption DEF BInv, BackgroundTypeOK, Active, Final,
       Statuses, Records, Actors, WorkerControl, ClientControl, StopSignals,
       SendTerm
  <2> QED
    BY <2>2, <2>4, <2>5, <2>6 DEF BInv
<1>9. CASE StopWrites(c)
  <2>1. held' \in [Actors -> Records \cup {NoRecord}]
    BY <1>9, ReadsTyped DEF Actors, StopWrites, Overwrites
  <2>2. /\ rec' \in Records
        /\ rec'.status = "cancelled"
        /\ kind = "agent" => ~rec'.pid
    BY <1>9, OverwritesTyped DEF BInv, WorkerControl, Actors, Statuses,
       Active, Final, StopWrites
  <2>3. BackgroundTypeOK'
    BY <1>9, <2>1, <2>2 DEF BInv, BackgroundTypeOK, StopWrites
  <2>4. Onward
    BY <1>9 DEF BInv, WorkerControl, ClientControl, Onward, StopWrites
  <2>5. RecordsSound'
    <3>1. Sound(rec)'
      BY <1>9, <2>2, <2>4 DEF Onward, Sound, Truthful, BInv, WorkerControl,
         ClientControl, StopWrites
    <3> QED
      BY <1>9, <2>2, <2>4, <3>1, SomethingNew DEF Actors, StopWrites,
         Overwrites
  <2>6. WorkerControl'
    BY <1>9, <2>2 DEF BInv, BackgroundTypeOK, Actors, WorkerControl,
       ClientControl, StopWrites, Overwrites, Forgets
  <2>7. ClientControl'
    BY <1>9, BackgroundAssumption DEF BInv, BackgroundTypeOK, Active, Final,
       Statuses, Records, Actors, WorkerControl, ClientControl, StopWrites,
       Overwrites, Forgets
  <2> QED
    BY <2>3, <2>5, <2>6, <2>7 DEF BInv
<1>10. CASE BeginSignal(c)
  <2>1. held' \in [Actors -> Records \cup {NoRecord}]
    BY <1>10, ReadsTyped DEF Actors, BeginSignal
  <2>2. BackgroundTypeOK'
    BY <1>10, <2>1 DEF BInv, BackgroundTypeOK, BeginSignal
  <2>3. Onward
    BY <1>10 DEF BInv, WorkerControl, ClientControl, Onward, BeginSignal
  <2>4. RecordsSound'
    BY <1>10, <2>3, NothingNew DEF Actors, BeginSignal
  <2>5. WorkerControl'
    BY <1>10 DEF BInv, BackgroundTypeOK, Actors, WorkerControl, ClientControl,
       BeginSignal, Reads
  <2>6. ClientControl'
    BY <1>10, BackgroundAssumption DEF BInv, BackgroundTypeOK, Active, Final,
       Statuses, Records, Actors, WorkerControl, ClientControl, BeginSignal,
       Reads
  <2> QED
    BY <2>2, <2>4, <2>5, <2>6 DEF BInv
<1>11. CASE SetFlag(c)
  <2>1. held' \in [Actors -> Records \cup {NoRecord}]
    BY <1>11, ReadsTyped DEF Actors, SetFlag
  <2>2. BackgroundTypeOK'
    BY <1>11, <2>1 DEF BInv, BackgroundTypeOK, SetFlag
  <2>3. Onward
    BY <1>11 DEF BInv, WorkerControl, ClientControl, Onward, SetFlag
  <2>4. RecordsSound'
    BY <1>11, <2>3, NothingNew DEF Actors, SetFlag
  <2>5. WorkerControl'
    BY <1>11 DEF BInv, BackgroundTypeOK, Actors, WorkerControl, ClientControl,
       SetFlag, Forgets
  <2>6. ClientControl'
    BY <1>11, BackgroundAssumption DEF BInv, BackgroundTypeOK, Active, Final,
       Statuses, Records, Actors, WorkerControl, ClientControl, SetFlag,
       Forgets
  <2> QED
    BY <2>2, <2>4, <2>5, <2>6 DEF BInv
<1>12. CASE BeginReconcile(c)
  <2>1. held' \in [Actors -> Records \cup {NoRecord}]
    BY <1>12, ReadsTyped DEF Actors, BeginReconcile
  <2>2. BackgroundTypeOK'
    BY <1>12, <2>1 DEF BInv, BackgroundTypeOK, BeginReconcile
  <2>3. Onward
    BY <1>12 DEF BInv, WorkerControl, ClientControl, Onward, BeginReconcile
  <2>4. RecordsSound'
    BY <1>12, <2>3, NothingNew DEF Actors, BeginReconcile
  <2>5. WorkerControl'
    BY <1>12 DEF BInv, BackgroundTypeOK, Actors, WorkerControl, ClientControl,
       BeginReconcile, Reads
  <2>6. ClientControl'
    BY <1>12, BackgroundAssumption DEF BInv, BackgroundTypeOK, Active, Final,
       Statuses, Records, Actors, WorkerControl, ClientControl,
       BeginReconcile, Reads
  <2> QED
    BY <2>2, <2>4, <2>5, <2>6 DEF BInv
<1>13. CASE ClientLost(c)
  <2>1. held' \in [Actors -> Records \cup {NoRecord}]
    BY <1>13, ReadsTyped DEF Actors, ClientLost
  <2>2. BackgroundTypeOK'
    BY <1>13, <2>1 DEF BInv, BackgroundTypeOK, ClientLost
  <2>3. Onward
    BY <1>13 DEF BInv, WorkerControl, ClientControl, Onward, ClientLost
  <2>4. RecordsSound'
    BY <1>13, <2>3, NothingNew DEF Actors, ClientLost
  <2>5. WorkerControl'
    BY <1>13 DEF BInv, BackgroundTypeOK, Actors, WorkerControl, ClientControl,
       ClientLost, Forgets
  <2>6. ClientControl'
    BY <1>13, BackgroundAssumption DEF BInv, BackgroundTypeOK, Active, Final,
       Statuses, Records, Actors, WorkerControl, ClientControl, ClientLost,
       Forgets
  <2> QED
    BY <2>2, <2>4, <2>5, <2>6 DEF BInv
<1> QED
  BY <1>1, <1>2, <1>3, <1>4, <1>5, <1>6, <1>7, <1>8, <1>9, <1>10, <1>11,
     <1>12, <1>13

LEMMA BNext == BInv /\ [Next]_vars => BInv'
<1> SUFFICES ASSUME BInv, [Next]_vars PROVE BInv'
  OBVIOUS
<1>1. CASE UNCHANGED vars
  BY <1>1 DEF vars, BInv, BackgroundTypeOK, RecordsSound, Sound, Truthful,
     WorkerControl, ClientControl
<1>2. CASE Next
  BY <1>2, LauncherKeeps, WorkerKeeps, FinishKeeps, ClientKeeps
  DEF Next, Launches, Works, Serves
<1> QED
  BY <1>1, <1>2

\* For any number of clients: every record, stored or held, is truthful, and whoever
\* holds one has read it where its code does (read_record, transition).
THEOREM BackgroundInvariant == Spec => []BInv
  BY BInit, BNext, PTL DEF Spec

(* The record, what everybody holds of it and where everybody is keep      *)
(* their types, and an agent never has a process on record.                *)
THEOREM BackgroundTypes == Spec => []BackgroundTypeOK
<1>1. BInv => BackgroundTypeOK
  BY DEF BInv
<1> QED
  BY <1>1, BackgroundInvariant, PTL

(* However late a writer writes back what it read, what the record says    *)
(* did happen: no job is called orphaned while its process lives unless    *)
(* somebody failed to probe it, none completed, failed or cancelled that   *)
(* did not (reconcile_orphan, process_is_alive, finish, task_stop).        *)
THEOREM TasksTruthful == Spec => []RecordTruthful
<1>1. BInv => RecordTruthful
  BY DEF BInv, RecordsSound, Sound, RecordTruthful
<1> QED
  BY <1>1, BackgroundInvariant, PTL

\* A validated change that replaces a final status was decided on an older one.
LEMMA MarksStale ==
    ASSUME BInv, NEW a \in Actors, NEW next \in Statuses, Marks(a, next),
           rec # NoRecord, rec.status \in Final, rec'.status # rec.status
    PROVE  \E b \in Actors : /\ held[b] # NoRecord /\ held'[b] = NoRecord
                             /\ held[b].status # rec.status
<1>1. CanTransition(held[a].status, next) /\ rec'.status = next
  BY DEF Marks
<1>2. held[a].status # rec.status
  BY <1>1 DEF CanTransition, Final
<1>3. held[a] # NoRecord /\ held'[a] = NoRecord
  BY DEF BInv, BackgroundTypeOK, Marks, Forgets
<1> QED
  BY <1>2, <1>3

\* One that is not validated comes from somebody who read an active one.
LEMMA OverwritesStale ==
    ASSUME BInv, NEW a \in Actors, NEW next, Overwrites(a, next),
           rec # NoRecord, rec.status \in Final, held[a].status \in Active
    PROVE  \E b \in Actors : /\ held[b] # NoRecord /\ held'[b] = NoRecord
                             /\ held[b].status # rec.status
  BY DEF BInv, BackgroundTypeOK, Overwrites, Forgets, Active, Final

LEMMA StaleStep ==
    ASSUME BInv, Next, kind = "job", rec # NoRecord, rec.status \in Final,
           rec'.status # rec.status
    PROVE  \E b \in Actors : /\ held[b] # NoRecord /\ held'[b] = NoRecord
                             /\ held[b].status # rec.status
<1>1. CASE CreateJob \/ CreateAgent
  BY <1>1 DEF BInv, WorkerControl, CreateJob, CreateAgent
<1>2. CASE LauncherMarks
  BY <1>2, MarksStale DEF LauncherMarks, Actors, Statuses, Active, Final
<1>3. CASE WorkerMarks
  BY <1>3, MarksStale DEF WorkerMarks, Actors, Statuses, Active, Final
<1>4. CASE WorkerFinishes
  <2>1. outcome \in Statuses /\ Marks(Worker, outcome)
    BY <1>4 DEF BInv, BackgroundTypeOK, WorkerControl, WorkerFinishes, Statuses,
       Final
  <2> QED
    BY <2>1, MarksStale DEF Actors
<1>5. ASSUME NEW c \in Clients, CancelMarks(c)
      PROVE  \E b \in Actors : /\ held[b] # NoRecord /\ held'[b] = NoRecord
                               /\ held[b].status # rec.status
  BY <1>5, MarksStale DEF CancelMarks, Actors, Statuses, Active, Final
<1>6. ASSUME NEW c \in Clients, SaveOrphan(c) \/ StopWrites(c)
      PROVE  \E b \in Actors : /\ held[b] # NoRecord /\ held'[b] = NoRecord
                               /\ held[b].status # rec.status
  <2>1. held[c].status \in Active /\ \E next : Overwrites(c, next)
    BY <1>6 DEF BInv, ClientControl, SaveOrphan, StopWrites, Active
  <2> QED
    BY <2>1, OverwritesStale DEF Actors
<1>7. CASE UNCHANGED rec
  BY <1>7
<1> QED
  <2>1. CASE Launches \/ LauncherLost
    BY <1>1, <1>2, <1>7, <2>1 DEF Launches, Spawn, LauncherReads, LauncherLost,
       RegisterAgent, AgentStarts
  <2>2. CASE Works \/ TurnEnds \/ WorkerLost
    BY <1>3, <1>4, <1>7, <2>2 DEF Works, WorkerReady, WorkerReads, WorkerSignalled,
       TurnEnds, WorkerLost
  <2>3. ASSUME NEW c \in Clients,
               \/ BeginLoad(c) \/ BeginStop(c) \/ BeginSignal(c) \/ BeginReconcile(c)
               \/ Serves(c) \/ ClientLost(c)
        PROVE  \E b \in Actors : /\ held[b] # NoRecord /\ held'[b] = NoRecord
                                 /\ held[b].status # rec.status
    BY <1>5, <1>6, <1>7, <2>3 DEF Serves, BeginLoad, BeginStop, BeginSignal,
       BeginReconcile, ClientLost, Probe, Kill, CancelReads, StopSignals, SetFlag
  <2> QED
    BY <2>1, <2>2, <2>3 DEF Next

(* A job's final status is replaced only by somebody who had read another  *)
(* (transition, reconcile_orphan, task_stop).                              *)
THEOREM FinalHolds == Spec => FinalUnlessStale
<1>1. BInv /\ [Next]_vars
      => [kind = "job" /\ rec # NoRecord /\ rec.status \in Final
            /\ rec'.status # rec.status
            => \E a \in Actors : /\ held[a] # NoRecord /\ held'[a] = NoRecord
                                 /\ held[a].status # rec.status]_vars
  BY StaleStep DEF vars
<1> QED
  BY <1>1, BackgroundInvariant, PTL DEF Spec, FinalUnlessStale
=============================================================================
