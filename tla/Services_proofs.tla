-------------------------- MODULE Services_proofs ---------------------------
(***************************************************************************)
(* What the services beside the streams promise: one transfer runs at a    *)
(* time and has its directory (FileTransfer), an answer about an           *)
(* application was true at a moment of its request (Apps), whoever         *)
(* controls a session takes part in it (SessionControl), settings take     *)
(* effect whole or not at all (Settings), and a cleanup deletes the oldest *)
(* rows, and no more than it must (Retention).                             *)
(***************************************************************************)
EXTENDS FileTransfer, Apps, SessionControl, Settings, Retention, SequenceFacts,
        FiniteSetTheorems, TLAPS

-----------------------------------------------------------------------------
(***************************************************************************)
(* One transfer runs at a time and has its directory, for any number of    *)
(* transfers and any limits, as long as the sweep fails none at work. Who  *)
(* is at work is referenced, and so is neither swept from the table nor    *)
(* from the disk (AtWork); who runs has the slot (OneRuns).                *)
(***************************************************************************)

Entries ==
    [phase : {"none", "pull", "http", "push", "over"},
     status : {"none", "running", "done", "failed"},
     listed : BOOLEAN, age : Nat, ended : Nat, ref : BOOLEAN, tmp : BOOLEAN]

Table ==
    /\ jobs \in [Ids -> Entries] /\ made \in 0..MaxJobs
    /\ busy \in BOOLEAN /\ forced \subseteq 1..made

Begun ==
    \A j \in Ids : /\ j > made => jobs[j] = NotYet
                   /\ j <= made => jobs[j].phase # "none"
                   /\ jobs[j].ref => jobs[j].listed /\ jobs[j].tmp
                   /\ jobs[j].listed => jobs[j].status # "none"

AtWork == \A j \in Ids \ forced :
    Working(jobs[j]) => jobs[j].status = "running" /\ jobs[j].ref

Runs(e) == e.listed /\ e.status = "running"

OneRuns ==
    forced = {} => /\ \A i, j \in Ids : Runs(jobs[i]) /\ Runs(jobs[j]) => i = j
                   /\ busy <=> \E j \in Ids : Runs(jobs[j])

FileIInv == Table /\ Begun /\ AtWork /\ OneRuns

LEMMA NotYetIs ==
    /\ NotYet \in Entries /\ NotYet.phase = "none" /\ ~NotYet.listed /\ ~NotYet.ref
    /\ ~NotYet.tmp
BY DEF NotYet, Entries

LEMMA InitFiles == FileInit => FileIInv
<1> SUFFICES ASSUME FileInit PROVE FileIInv
  OBVIOUS
<1>1. \A j \in Ids : jobs[j] = NotYet
  BY DEF FileInit
<1>2. Table
  <2>1. made \in 0..MaxJobs
    BY FileAssumption DEF FileAssumption, FileInit
  <2>2. jobs \in [Ids -> Entries] /\ busy \in BOOLEAN /\ forced \subseteq 1..made
    BY NotYetIs DEF FileInit
  <2>3. QED
    BY <2>1, <2>2 DEF Table
<1>3. Begun
  BY <1>1, NotYetIs DEF FileInit, Begun, Ids
<1>4. AtWork
  BY <1>1, NotYetIs DEF AtWork, Working
<1>5. OneRuns
  BY <1>1, NotYetIs DEF FileInit, OneRuns, Runs
<1>6. QED
  BY <1>2, <1>3, <1>4, <1>5 DEF FileIInv

\* What the sweep does to one entry.
LEMMA SweptEntry ==
    ASSUME NEW e \in Entries, e.ref => e.listed /\ e.tmp, e.listed => e.status # "none"
    PROVE  /\ Swept(e) \in Entries /\ Swept(e).phase = e.phase
           /\ Swept(e).ref => Swept(e).listed /\ Swept(e).tmp
           /\ Swept(e).listed => Swept(e).status # "none"
           /\ Runs(Swept(e)) <=> Runs(e) /\ ~TooLong(e)
           /\ e.ref /\ e.status = "running" /\ ~TooLong(e) =>
                Swept(e).ref /\ Swept(e).status = "running"
<1> DEFINE f == IF TooLong(e) THEN GivenUp(e)
                ELSE IF EndedLong(e)
                     THEN [e EXCEPT !.listed = FALSE, !.ref = FALSE, !.tmp = @ /\ ~e.ref]
                     ELSE e
<1>1. /\ f \in Entries /\ f.phase = e.phase
      /\ f.ref => f.listed /\ f.tmp
      /\ f.listed => f.status # "none"
      /\ Runs(f) <=> Runs(e) /\ ~TooLong(e)
      /\ e.ref /\ e.status = "running" /\ ~TooLong(e) => f.ref /\ f.status = "running"
  <2>1. CASE TooLong(e)
    <3> DEFINE g == [e EXCEPT !.status = "failed", !.ended = 0, !.ref = FALSE, !.tmp = FALSE]
    <3>1. g \in Entries /\ g.phase = e.phase /\ ~g.ref /\ g.status = "failed"
      BY DEF Entries
    <3>2. f = g
      BY <2>1 DEF GivenUp
    <3>3. QED
      BY <2>1, <3>1, <3>2 DEF Runs
  <2>2. CASE ~TooLong(e) /\ EndedLong(e)
    <3>1. f = [e EXCEPT !.listed = FALSE, !.ref = FALSE, !.tmp = @ /\ ~e.ref]
      BY <2>2
    <3>2. e.status # "running"
      BY <2>2 DEF EndedLong
    <3>3. QED
      BY <2>2, <3>1, <3>2 DEF Entries, Runs
  <2>3. CASE ~TooLong(e) /\ ~EndedLong(e)
    BY <2>3 DEF Runs
  <2>4. QED
    BY <2>1, <2>2, <2>3
<1>2. Swept(e) = IF OldDir(f) THEN [f EXCEPT !.tmp = FALSE] ELSE f
  BY DEF Swept
<1> HIDE DEF f
<1>3. CASE OldDir(f)
  <2>1. ~f.ref /\ Swept(e) = [f EXCEPT !.tmp = FALSE]
    BY <1>2, <1>3 DEF OldDir
  <2>2. QED
    BY <1>1, <2>1 DEF Entries, Runs
<1>4. CASE ~OldDir(f)
  BY <1>1, <1>2, <1>4
<1>5. QED
  BY <1>3, <1>4

LEMMA SweptNotYet == Swept(NotYet) = NotYet
BY DEF Swept, NotYet, TooLong, EndedLong, OldDir

\* A sweep of the whole table, after which nobody new runs.
LEMMA SweepKeeps ==
    ASSUME FileIInv, Sweep, UNCHANGED made, busy' = (busy /\ ~Freed),
           jobs' = [j \in Ids |-> Swept(jobs[j])]
    PROVE  FileIInv'
<1>1. \A j \in Ids : /\ jobs[j] \in Entries /\ jobs'[j] = Swept(jobs[j])
                     /\ jobs[j].ref => jobs[j].listed /\ jobs[j].tmp
                     /\ jobs[j].listed => jobs[j].status # "none"
  BY DEF FileIInv, Table, Begun
<1>2. forced' = forced \cup {j \in Late : Working(jobs[j])}
  BY DEF Sweep
<1>3. Late = {j \in Ids : TooLong(jobs[j])}
  BY DEF Late, FileIInv, Table
<1>4. Begun'
  BY <1>1, SweptEntry, SweptNotYet DEF FileIInv, Begun
<1>5. Table'
  <2>1. \A j \in Late : Working(jobs[j]) => j \in 1..made
    BY <1>3, NotYetIs DEF FileIInv, Table, Begun, Working, Ids
  <2>2. forced' \subseteq 1..made
    BY <1>2, <2>1 DEF FileIInv, Table
  <2>3. jobs' \in [Ids -> Entries]
    BY <1>1, SweptEntry
  <2>4. QED
    BY <2>2, <2>3 DEF FileIInv, Table
<1>6. AtWork'
  BY <1>1, <1>2, <1>3, SweptEntry DEF FileIInv, AtWork, Working
<1>7. OneRuns'
  <2>1. SUFFICES ASSUME forced' = {}
                 PROVE  /\ \A i, j \in Ids : Runs(jobs'[i]) /\ Runs(jobs'[j]) => i = j
                        /\ busy' <=> \E j \in Ids : Runs(jobs'[j])
    BY DEF OneRuns
  <2>2. \A j \in Ids : Runs(jobs'[j]) <=> Runs(jobs[j]) /\ ~TooLong(jobs[j])
    BY <1>1, SweptEntry
  <2>3. /\ \A i, j \in Ids : Runs(jobs[i]) /\ Runs(jobs[j]) => i = j
        /\ busy <=> \E j \in Ids : Runs(jobs[j])
    BY <1>2, <2>1 DEF FileIInv, OneRuns
  <2>4. Freed <=> \E j \in Ids : TooLong(jobs[j])
    BY <1>3 DEF Freed
  <2>5. \A j \in Ids : TooLong(jobs[j]) => Runs(jobs[j])
    BY DEF TooLong, Runs
  <2>6. QED
    BY <2>2, <2>3, <2>4, <2>5
<1>8. QED
  BY <1>4, <1>5, <1>6, <1>7 DEF FileIInv

\* One entry changes, of a transfer that has begun; if it runs no more the slot
\* is free.
LEMMA EntryKeeps ==
    ASSUME FileIInv, NEW j \in Ids, jobs[j].phase # "none", NEW e \in Entries,
           jobs' = [jobs EXCEPT ![j] = e], UNCHANGED <<made, forced>>,
           e.phase # "none", e.ref => e.listed /\ e.tmp, e.listed => e.status # "none",
           Working(e) => Working(jobs[j]) /\ e.status = jobs[j].status /\ e.ref = jobs[j].ref,
           \/ (Runs(e) <=> Runs(jobs[j])) /\ busy' = busy
           \/ ~Runs(e) /\ busy' = FALSE /\ (forced = {} => Runs(jobs[j]))
    PROVE  FileIInv'
<1>1. jobs'[j] = e /\ \A i \in Ids \ {j} : jobs'[i] = jobs[i]
  BY DEF FileIInv, Table
<1>2. j <= made
  BY NotYetIs DEF FileIInv, Table, Begun, Ids
<1>3. jobs' \in [Ids -> Entries] /\ busy' \in BOOLEAN
  BY DEF FileIInv, Table
<1>4. Table'
  BY <1>3 DEF FileIInv, Table
<1>5. Begun'
  BY <1>1, <1>2 DEF FileIInv, Begun, Table, Ids
<1>6. AtWork'
  BY <1>1 DEF FileIInv, AtWork
<1>7. OneRuns'
  BY <1>1 DEF FileIInv, OneRuns
<1>8. QED
  BY <1>4, <1>5, <1>6, <1>7 DEF FileIInv

\* A transfer at work runs, unless the sweep has failed one.
LEMMA WorkRuns ==
    ASSUME FileIInv, NEW j \in Ids, Working(jobs[j])
    PROVE  /\ forced = {} => Runs(jobs[j])
           /\ jobs[j] \in Entries /\ jobs[j].phase # "none"
           /\ jobs[j].ref => jobs[j].listed /\ jobs[j].tmp
           /\ jobs[j].listed => jobs[j].status # "none"
BY DEF FileIInv, Table, Begun, AtWork, Working, Runs

LEMMA EndsKeep ==
    ASSUME FileIInv, NEW j \in Ids, Working(jobs[j]), NEW s \in {"done", "failed"},
           EndsWith(j, s)
    PROVE  FileIInv'
<1> DEFINE e == [jobs[j] EXCEPT !.phase = "over", !.status = s, !.ended = 0,
                                !.ref = FALSE, !.tmp = FALSE]
<1>1. jobs' = [jobs EXCEPT ![j] = e] /\ busy' = FALSE /\ UNCHANGED <<made, forced>>
  BY DEF EndsWith, Release, KeepsCount
<1>2. /\ e \in Entries /\ e.phase = "over" /\ ~e.ref /\ e.status = s
  BY WorkRuns DEF Entries
<1>3. ~Working(e) /\ ~Runs(e)
  BY <1>2 DEF Working, Runs
<1>4. QED
  BY <1>1, <1>2, <1>3, WorkRuns, EntryKeeps

LEMMA WorksKeep == ASSUME NEW j \in Ids PROVE FileIInv /\ Works(j) => FileIInv'
<1> SUFFICES ASSUME FileIInv, Works(j) PROVE FileIInv'
  OBVIOUS
<1>1. Working(jobs[j])
  BY DEF Works, Pulled, PullFails, PushEnds, Finalize, ResponseBreaks, Working
<1>2. CASE Pulled(j)
  <2> DEFINE e == [jobs[j] EXCEPT !.phase = "http"]
  <2>1. jobs' = [jobs EXCEPT ![j] = e] /\ busy' = busy /\ UNCHANGED <<made, forced>>
    BY <1>2 DEF Pulled, KeepsCount
  <2>2. /\ e \in Entries /\ e.phase = "http" /\ e.ref = jobs[j].ref /\ e.tmp = jobs[j].tmp
        /\ e.status = jobs[j].status /\ e.listed = jobs[j].listed
    BY <1>1, WorkRuns DEF Entries
  <2> HIDE DEF e
  <2>3. Runs(e) <=> Runs(jobs[j])
    BY <2>2 DEF Runs
  <2>4. QED
    BY <1>1, <2>1, <2>2, <2>3, WorkRuns, EntryKeeps
<1>3. CASE PullFails(j)
  BY <1>1, <1>3, EndsKeep DEF PullFails
<1>4. CASE PushEnds(j)
  BY <1>1, <1>4, EndsKeep DEF PushEnds
<1>5. CASE Finalize(j) /\ jobs[j].listed
  <2> DEFINE e == Finished(jobs[j])
  <2>1. jobs' = [jobs EXCEPT ![j] = e]
    BY <1>5 DEF Finalize
  <2>2. busy' = FALSE /\ UNCHANGED <<made, forced>>
    BY <1>5 DEF Finalize, Release, KeepsCount
  <2>3. /\ e \in Entries /\ e.phase = "over" /\ ~e.ref /\ e.listed = jobs[j].listed
        /\ e.status = IF jobs[j].status = "running" THEN "done" ELSE jobs[j].status
    BY <1>1, WorkRuns DEF Entries, Finished
  <2> HIDE DEF e
  <2>4. ~Working(e) /\ ~Runs(e) /\ (e.listed => e.status # "none")
    BY <1>1, <2>3, WorkRuns DEF Working, Runs
  <2>5. QED
    BY <1>1, <2>1, <2>2, <2>3, <2>4, WorkRuns, EntryKeeps
<1>6. CASE ResponseBreaks(j) \/ (Finalize(j) /\ ~jobs[j].listed)
  <2> DEFINE e == [jobs[j] EXCEPT !.phase = "over"]
  <2>1. jobs' = [jobs EXCEPT ![j] = e] /\ busy' = busy /\ UNCHANGED <<made, forced>>
    BY <1>6 DEF Finalize, ResponseBreaks, KeepsCount
  <2>2. /\ e \in Entries /\ e.phase = "over" /\ e.ref = jobs[j].ref /\ e.tmp = jobs[j].tmp
        /\ e.status = jobs[j].status /\ e.listed = jobs[j].listed
    BY <1>1, WorkRuns DEF Entries
  <2> HIDE DEF e
  <2>3. ~Working(e) /\ (Runs(e) <=> Runs(jobs[j]))
    BY <2>2 DEF Working, Runs
  <2>4. QED
    BY <1>1, <2>1, <2>2, <2>3, WorkRuns, EntryKeeps
<1>7. QED
  BY <1>2, <1>3, <1>4, <1>5, <1>6 DEF Works

\* A new transfer takes the slot that was free; the sweep comes after. One without
\* a directory is not at work.
LEMMA BeginsKeepFiles ==
    ASSUME FileIInv, NEW kind \in {"pull", "push", "over"}, NEW placed \in BOOLEAN,
           kind # "over" => placed, Begins(NewJob(kind, placed))
    PROVE  FileIInv'
<1> DEFINE n == made + 1
           e == NewJob(kind, placed)
<1>1. /\ made < MaxJobs /\ ~busy /\ made' = n /\ busy' = ~Freed
      /\ forced' = forced \cup {j \in Late : Working(jobs[j])}
      /\ jobs' = [j \in Ids |-> IF j = n THEN e ELSE Swept(jobs[j])]
  BY DEF Begins, Sweep
<1>2. n \in Ids /\ n \in 1..n /\ 1..made \subseteq 1..n /\ n \in 0..MaxJobs /\ n \notin 1..made
      /\ \A j \in Ids : j # n => (j > n <=> j > made) /\ (j <= n <=> j <= made)
  BY <1>1, FileAssumption DEF FileAssumption, FileIInv, Table, Ids
<1>3. /\ e \in Entries /\ e.phase = kind /\ e.status = "running" /\ e.listed
      /\ e.ref = placed /\ e.tmp = placed
  BY DEF NewJob, Entries, NotYet
<1> HIDE DEF e, n
<1>4. \A j \in Ids : /\ jobs[j] \in Entries
                     /\ jobs'[j] = IF j = n THEN e ELSE Swept(jobs[j])
                     /\ jobs[j].ref => jobs[j].listed /\ jobs[j].tmp
                     /\ jobs[j].listed => jobs[j].status # "none"
  BY <1>1 DEF FileIInv, Table, Begun
<1>5. Late = {j \in Ids : TooLong(jobs[j])}
  BY DEF Late, FileIInv, Table
<1>6. Begun'
  BY <1>1, <1>2, <1>3, <1>4, SweptEntry, SweptNotYet DEF FileIInv, Begun
<1>7. Table'
  <2>1. \A j \in Late : Working(jobs[j]) => j \in 1..made
    BY <1>5, NotYetIs DEF FileIInv, Table, Begun, Working, Ids
  <2>2. forced' \subseteq 1..n
    BY <1>1, <1>2, <2>1 DEF FileIInv, Table
  <2>3. jobs' \in [Ids -> Entries]
    BY <1>1, <1>3, <1>4, SweptEntry
  <2>4. QED
    BY <1>1, <1>2, <2>2, <2>3 DEF Table
<1>8. AtWork'
  BY <1>1, <1>3, <1>4, <1>5, SweptEntry DEF FileIInv, AtWork, Working
<1>9. OneRuns'
  <2>1. SUFFICES ASSUME forced' = {}
                 PROVE  /\ \A i, j \in Ids : Runs(jobs'[i]) /\ Runs(jobs'[j]) => i = j
                        /\ busy' <=> \E j \in Ids : Runs(jobs'[j])
    BY DEF OneRuns
  <2>2. \A j \in Ids : ~Runs(jobs[j])
    BY <1>1, <2>1 DEF FileIInv, OneRuns
  <2>3. \A j \in Ids : ~TooLong(jobs[j])
    BY <2>2 DEF TooLong, Runs
  <2>4. ~Freed
    BY <1>5, <2>3 DEF Freed
  <2>5. \A j \in Ids : Runs(jobs'[j]) <=> j = n
    BY <1>3, <1>4, <2>2, SweptEntry DEF Runs
  <2>6. QED
    BY <1>1, <1>2, <2>4, <2>5
<1>10. QED
  BY <1>6, <1>7, <1>8, <1>9 DEF FileIInv

LEMMA BeginKeeps ==
    ASSUME NEW kind \in {"pull", "push"} PROVE FileIInv /\ BeginTransfer(kind) => FileIInv'
BY BeginsKeepFiles DEF BeginTransfer

\* Time and a restart.
LEMMA AgedEntry ==
    ASSUME NEW e \in Entries
    PROVE  /\ Aged(e) \in Entries /\ Aged(e).phase = e.phase /\ Aged(e).status = e.status
           /\ Aged(e).listed = e.listed /\ Aged(e).ref = e.ref /\ Aged(e).tmp = e.tmp
<1>1. CASE e.phase = "none"
  BY <1>1 DEF Aged
<1>2. CASE e.phase # "none"
  <2> DEFINE a == Cap((IF Grace > Stale THEN Grace ELSE Stale) + 1, e.age + 1)
             b == IF e.status = "running" THEN 0 ELSE Cap(TTL + 1, e.ended + 1)
  <2>1. a \in Nat /\ b \in Nat
    BY FileAssumption DEF FileAssumption, Cap, Entries
  <2>2. Aged(e) = [e EXCEPT !.age = a, !.ended = b]
    BY <1>2 DEF Aged
  <2> HIDE DEF a, b
  <2>3. QED
    BY <2>1, <2>2 DEF Entries
<1>3. QED
  BY <1>1, <1>2

LEMMA TimeKeeps == FileIInv /\ TimePasses => FileIInv'
<1> SUFFICES ASSUME FileIInv, TimePasses PROVE FileIInv'
  OBVIOUS
<1>1. jobs' = [j \in Ids |-> Aged(jobs[j])] /\ UNCHANGED <<busy, made, forced>>
  BY DEF TimePasses, KeepsCount
<1>2. \A j \in Ids : jobs[j] \in Entries /\ jobs'[j] = Aged(jobs[j])
  BY <1>1 DEF FileIInv, Table
<1>3. Aged(NotYet) = NotYet
  BY NotYetIs DEF Aged
<1>4. Table'
  BY <1>1, <1>2, AgedEntry DEF FileIInv, Table
<1>5. Begun'
  BY <1>1, <1>2, <1>3, AgedEntry DEF FileIInv, Begun
<1>6. AtWork'
  BY <1>1, <1>2, AgedEntry DEF FileIInv, AtWork, Working
<1>7. OneRuns'
  BY <1>1, <1>2, AgedEntry DEF FileIInv, OneRuns, Runs
<1>8. QED
  BY <1>4, <1>5, <1>6, <1>7 DEF FileIInv

LEMMA RestartKeeps == FileIInv /\ Restart => FileIInv'
<1> SUFFICES ASSUME FileIInv, Restart PROVE FileIInv'
  OBVIOUS
<1>1. /\ jobs' = [j \in Ids |-> IF jobs[j].phase = "none" THEN jobs[j]
                    ELSE [jobs[j] EXCEPT !.phase = "over", !.status = "failed",
                                         !.listed = FALSE, !.ref = FALSE]]
      /\ busy' = FALSE /\ UNCHANGED <<made, forced>>
  BY DEF Restart, KeepsCount
<1>2. \A j \in Ids : jobs[j] \in Entries
  BY DEF FileIInv, Table
<1>3. \A j \in Ids : jobs[j].phase = "none" => jobs[j] = NotYet
  BY DEF FileIInv, Table, Begun, Ids
<1>4. \A j \in Ids : \/ jobs'[j] = NotYet /\ jobs[j] = NotYet
                     \/ /\ jobs[j].phase # "none" /\ jobs'[j] \in Entries
                        /\ jobs'[j].phase = "over" /\ ~jobs'[j].listed /\ ~jobs'[j].ref
  <2>1. ASSUME NEW j \in Ids, jobs[j].phase # "none"
        PROVE  /\ jobs'[j] \in Entries
               /\ jobs'[j].phase = "over" /\ ~jobs'[j].listed /\ ~jobs'[j].ref
    <3>1. jobs'[j] = [jobs[j] EXCEPT !.phase = "over", !.status = "failed", !.listed = FALSE, !.ref = FALSE]
      BY <1>1, <2>1
    <3>2. jobs[j] \in Entries
      BY <1>2
    <3>3. QED
      BY <3>1, <3>2 DEF Entries
  <2>2. ASSUME NEW j \in Ids, jobs[j].phase = "none"
        PROVE  jobs'[j] = NotYet /\ jobs[j] = NotYet
    BY <1>1, <1>3, <2>2
  <2>3. QED
    BY <2>1, <2>2
<1>5. Table'
  BY <1>1, <1>4, NotYetIs DEF FileIInv, Table
<1>6. Begun'
  BY <1>1, <1>4, NotYetIs DEF FileIInv, Begun
<1>7. AtWork' /\ OneRuns'
  BY <1>1, <1>4, NotYetIs DEF AtWork, OneRuns, Working, Runs
<1>8. QED
  BY <1>5, <1>6, <1>7 DEF FileIInv

LEMMA FileInvariance == FileSpec => []FileIInv
<1>1. FileIInv /\ [FileNext]_fileVars => FileIInv'
  <2>1. FileIInv /\ UNCHANGED <<jobs, made, busy, forced>> => FileIInv'
    BY DEF FileIInv, Table, Begun, AtWork, OneRuns
  <2>2. QED
    BY <2>1, SweepKeeps, BeginKeeps, WorksKeep, TimeKeeps, RestartKeeps
       DEF FileNext, PollJob, Refused, fileVars
<1>2. QED
  BY <1>1, InitFiles, PTL DEF FileSpec

\* One transfer at a time, with its directory, and a table that says so
\* (file_service.py:175-426).
THEOREM OneTransferAtATime == FileSpec => []FileInv
<1>1. FileIInv => FileInv
  <2> SUFFICES ASSUME FileIInv PROVE FileInv
    OBVIOUS
  <2>1. FileTypeOK
    BY NotYetIs DEF FileIInv, Table, Begun, FileTypeOK, Ids
  <2>2. \A j \in Ids \ forced : Working(jobs[j]) => Runs(jobs[j]) /\ jobs[j].tmp
    BY DEF FileIInv, Begun, AtWork, Runs
  <2>3. OneTransfer
    <3> SUFFICES ASSUME forced = {} PROVE OneTransfer
      BY DEF OneTransfer
    <3>1. \A i, j \in Ids : Runs(jobs[i]) /\ Runs(jobs[j]) => i = j
      BY DEF FileIInv, OneRuns
    <3> DEFINE W == {j \in Ids : Working(jobs[j])}
    <3>2. \A i, j \in W : i = j
      BY <2>2, <3>1
    <3>3. Cardinality(W) <= 1
      <4>1. CASE W = {}
        BY <4>1, FS_EmptySet
      <4>2. CASE W # {}
        <5>1. PICK w \in W : W = {w}
          BY <3>2, <4>2
        <5>2. QED
          BY <5>1, FS_Singleton
      <4>3. QED
        BY <4>1, <4>2
    <3>4. QED
      BY <3>3 DEF OneTransfer, FileIInv, OneRuns, Runs
  <2>4. WorkHasPlace
    BY <2>2 DEF WorkHasPlace
  <2>5. QED
    BY <2>1, <2>3, <2>4 DEF FileInv
<1>2. QED
  BY <1>1, FileInvariance, PTL

-----------------------------------------------------------------------------
(***************************************************************************)
(* Answers are true of some moment of the request, for any number of       *)
(* processes. What is so now is in the sight of every request (Sees,       *)
(* InSight), and a request that has come to a step has seen what led it    *)
(* there.                                                                  *)
(***************************************************************************)

Queries ==
    [step : {"none", "path", "package", "size", "processes", "memory", "names", "packages",
             "running", "told"},
     answer : {"none", "absent", "details", "error"},
     apk : BOOLEAN, size : BOOLEAN, pid : Nat, memory : BOOLEAN]

Sights == [there : SUBSET BOOLEAN, pids : SUBSET Nat, data : SUBSET BOOLEAN]

DeviceOK ==
    /\ there \in BOOLEAN /\ data \in BOOLEAN
    /\ pids \in 0..MaxPids /\ pid \in 0..pids /\ (pid # 0 => there)

Steps ==
    /\ query \in Queries
    /\ order \in [what : Orders \cup {"none"},
                  step : {"none", "sent", "lost", "carried", "refused", "told"},
                  told : {"none", "ok", "failed"}]

\* What is so is in the sight of both requests.
Sees(s) == there \in s.there /\ pid \in s.pids /\ data \in s.data

InSight == /\ seen \in [{"query", "order"} -> Sights]
           /\ Sees(seen.query) /\ Sees(seen.order)

Asking ==
    /\ query.step \notin {"memory", "told"} =>
         query.answer = "none" /\ query.pid = 0 /\ ~query.memory
    /\ query.step = "memory" =>
         query.answer = "details" /\ query.pid # 0 /\ ~query.memory
    /\ query.step \in {"size", "processes", "packages", "running"} => TRUE \in seen.query.there
    /\ query.memory => query.pid # 0 /\ query.answer = "details"
    /\ AbsentIsTrue /\ RunningIsTrue

\* What an order that was carried out has brought about.
Done(what, s) ==
    CASE what = "launch" -> TRUE
      [] what = "stop" -> 0 \in s.pids
      [] what = "uninstall" -> FALSE \in s.there
      [] OTHER -> FALSE \in s.data

Ordering ==
    /\ order.told # "none" => order.step \in {"told", "lost"}
    /\ order.step = "lost" => order.told = "failed"
    /\ order.step = "carried" \/ order.told = "ok" => Done(order.what, seen.order)

AppsIInv == DeviceOK /\ Steps /\ InSight /\ Asking /\ Ordering

LEMMA InitApps == AppsInit => AppsIInv
<1> SUFFICES ASSUME AppsInit PROVE AppsIInv
  OBVIOUS
<1>1. DeviceOK
  <2>1. there \in BOOLEAN /\ data \in BOOLEAN /\ pid = 0
    BY DEF AppsInit
  <2>2. pids \in 0..MaxPids /\ pid \in 0..pids
    BY AppsAssumption DEF AppsAssumption, AppsInit
  <2>3. QED
    BY <2>1, <2>2 DEF DeviceOK
<1>2. Steps
  BY DEF AppsInit, Steps, Queries, Nothing, NoOrder, Orders
<1>3. InSight
  BY <1>1 DEF AppsInit, InSight, Sights, Sight, Sees, DeviceOK
<1>4. Asking
  BY DEF AppsInit, Asking, Nothing, AbsentIsTrue, RunningIsTrue
<1>5. Ordering
  BY DEF AppsInit, Ordering, NoOrder
<1>6. QED
  BY <1>1, <1>2, <1>3, <1>4, <1>5 DEF AppsIInv

\* A look adds what is so now, and forgets nothing.
LEMMA LookAdds ==
    ASSUME InSight, DeviceOK', Looks
    PROVE  /\ InSight'
           /\ \A r \in {"query", "order"} :
                /\ seen[r].there \subseteq seen'[r].there
                /\ seen[r].pids \subseteq seen'[r].pids
                /\ seen[r].data \subseteq seen'[r].data
<1>1. there' \in BOOLEAN /\ pid' \in Nat /\ data' \in BOOLEAN
  BY DEF DeviceOK
<1>2. \A s \in Sights :
        /\ More(s) \in Sights
        /\ there' \in More(s).there /\ pid' \in More(s).pids /\ data' \in More(s).data
        /\ s.there \subseteq More(s).there /\ s.pids \subseteq More(s).pids
        /\ s.data \subseteq More(s).data
  BY <1>1 DEF Sights, More
<1>3. \A r \in {"query", "order"} : seen[r] \in Sights /\ seen'[r] = More(seen[r])
  BY DEF InSight, Looks
<1>4. seen' \in [{"query", "order"} -> Sights]
  BY <1>2, <1>3 DEF Looks
<1>5. Sees(seen.query)' /\ Sees(seen.order)'
  BY <1>2, <1>3 DEF Sees
<1>6. QED
  BY <1>2, <1>3, <1>4, <1>5 DEF InSight

\* What is told and was done stays so when the sights grow.
LEMMA SightsGrow ==
    ASSUME Asking, Ordering, UNCHANGED query, order'.what = order.what,
           \A r \in {"query", "order"} :
                /\ seen[r].there \subseteq seen'[r].there
                /\ seen[r].pids \subseteq seen'[r].pids
                /\ seen[r].data \subseteq seen'[r].data
    PROVE  /\ Asking'
           /\ Done(order.what, seen.order) => Done(order'.what, seen'.order)
<1>1. /\ seen.query.there \subseteq seen'.query.there
      /\ seen.query.pids \subseteq seen'.query.pids
      /\ seen.order.there \subseteq seen'.order.there
      /\ seen.order.pids \subseteq seen'.order.pids
      /\ seen.order.data \subseteq seen'.order.data
  OBVIOUS
<1>2. Asking'
  BY <1>1 DEF Asking, AbsentIsTrue, RunningIsTrue
<1>3. QED
  BY <1>1, <1>2 DEF Done

LEMMA DeviceMoves ==
    ASSUME DeviceOK, StartsUp \/ Dies \/ Installed \/ Removed \/ NoChange
    PROVE  DeviceOK'
<1> USE DEF DeviceOK
<1>1. CASE StartsUp
  BY <1>1, AppsAssumption DEF StartsUp, AppsAssumption
<1>2. CASE Dies
  BY <1>2 DEF Dies
<1>3. CASE Installed
  BY <1>3 DEF Installed
<1>4. CASE Removed
  <2>1. /\ there' = FALSE /\ data' = FALSE /\ pid' = 0 /\ pids' = pids
    BY <1>4 DEF Removed
  <2>2. 0 \in 0..pids /\ pids \in 0..MaxPids
    BY AppsAssumption DEF AppsAssumption
  <2>3. there' \in BOOLEAN /\ data' \in BOOLEAN /\ pids' \in 0..MaxPids /\ pid' \in 0..pids'
    BY <2>1, <2>2
  <2>4. QED
    BY <2>1, <2>3
<1>5. CASE NoChange
  BY <1>5 DEF NoChange
<1>6. QED
  BY <1>1, <1>2, <1>3, <1>4, <1>5

LEMMA CarriedMoves == ASSUME DeviceOK, NEW what, Carried(what) PROVE DeviceOK'
<1>1. CASE what \in {"launch", "uninstall"}
  BY <1>1, DeviceMoves DEF Carried
<1>2. CASE what \notin {"launch", "uninstall"}
  <2>1. /\ pid' = 0 /\ pids' = pids /\ data' \in {data, FALSE} /\ there' = there
    BY <1>2 DEF Carried
  <2>2. data' \in BOOLEAN
    BY <2>1 DEF DeviceOK
  <2>3. QED
    BY <2>1, <2>2, AppsAssumption DEF DeviceOK, AppsAssumption
<1>3. QED
  BY <1>1, <1>2

LEMMA DeviceKeeps == AppsIInv /\ Device => AppsIInv'
<1> SUFFICES ASSUME AppsIInv, Device PROVE AppsIInv'
  OBVIOUS
<1>1. DeviceOK'
  BY DeviceMoves DEF AppsIInv, Device
<1>2. InSight' /\ Asking' /\ (Done(order.what, seen.order) => Done(order'.what, seen'.order))
  BY <1>1, LookAdds, SightsGrow DEF AppsIInv, Device
<1>3. Steps' /\ Ordering'
  BY <1>2 DEF AppsIInv, Device, Steps, Ordering
<1>4. QED
  BY <1>1, <1>2, <1>3 DEF AppsIInv

\* A step of a request, on a device that does not move.
LEMMA QueryKeeps ==
    ASSUME AppsIInv, NoChange, UNCHANGED order, query' \in Queries, InSight', Asking',
           seen'.order = seen.order
    PROVE  AppsIInv'
<1>1. DeviceOK' /\ Steps' /\ Ordering'
  BY DEF AppsIInv, NoChange, DeviceOK, Steps, Ordering
<1>2. QED
  BY <1>1 DEF AppsIInv

LEMMA RequestBeginKeeps ==
    ASSUME AppsIInv, NEW first \in {"path", "names"}, BeginQuery(first), NoChange, UNCHANGED order
    PROVE  AppsIInv'
<1> USE DEF AppsIInv, BeginQuery, NoChange, Fresh, Nothing
<1>1. query' \in Queries /\ query'.step = first /\ query'.answer = "none" /\ query'.pid = 0
      /\ ~query'.memory
  BY DEF Queries
<1>2. Sight \in Sights /\ Sees(Sight)
  BY DEF DeviceOK, Sight, Sights, Sees
<1>3. InSight' /\ seen'.order = seen.order
  BY <1>2 DEF InSight, Sees
<1>4. Asking'
  BY <1>1 DEF Asking, AbsentIsTrue, RunningIsTrue
<1>5. QED
  BY <1>1, <1>3, <1>4, QueryKeeps

LEMMA KnowsKeep ==
    ASSUME AppsIInv, NoChange, UNCHANGED order,
           \/ GetApkPath \/ DumpPackage \/ GetSize \/ CheckRunning \/ GetMemory
           \/ ListNames \/ ListPackages \/ ListRunning
    PROVE  AppsIInv'
<1> USE DEF Knows
<1>1. seen' = seen
  BY DEF GetApkPath, DumpPackage, GetSize, CheckRunning, GetMemory, ListNames, ListPackages, ListRunning
<1>2. InSight' /\ Sees(seen.query)
  BY <1>1 DEF AppsIInv, InSight, NoChange, Sees
<1>3. there \in BOOLEAN /\ pid \in Nat
  BY DEF AppsIInv, DeviceOK
<1>4. query' \in Queries /\ Asking'
  <2> USE <1>1, <1>2, <1>3 DEF AppsIInv, Steps, Queries, Sees, Asking, AbsentIsTrue, RunningIsTrue
  <2>1. CASE GetApkPath
    BY <2>1 DEF GetApkPath
  <2>2. CASE DumpPackage
    <3>1. query.step = "package"
      BY <2>2 DEF DumpPackage
    <3>2. CASE query' = [query EXCEPT !.step = "told", !.answer = "error"]
      BY <3>1, <3>2
    <3>3. CASE there /\ query' = [query EXCEPT !.step = IF query.apk THEN "size" ELSE "processes"]
      BY <3>1, <3>3
    <3>4. CASE ~there /\ query' = [query EXCEPT !.step = "told", !.answer = "absent"]
      BY <3>1, <3>4
    <3>5. QED
      BY <2>2, <3>2, <3>3, <3>4 DEF DumpPackage, FailsAs
  <2>3. CASE GetSize
    BY <2>3 DEF GetSize
  <2>4. CASE CheckRunning
    <3>1. PICK p \in {pid, 0} :
            query' = [query EXCEPT !.step = MemoryOf(p), !.answer = "details", !.pid = p]
      BY <2>4 DEF CheckRunning
    <3>2. MemoryOf(p) = IF p # 0 THEN "memory" ELSE "told"
      BY DEF MemoryOf
    <3>3. query.step = "processes" /\ p \in Nat /\ p \in seen.query.pids \union {0}
      BY <2>4 DEF CheckRunning
    <3>4. query' \in Queries
      BY <3>1, <3>2, <3>3
    <3>5. QED
      BY <3>1, <3>2, <3>3, <3>4
  <2>5. CASE GetMemory
    BY <2>5 DEF GetMemory
  <2>6. CASE ListNames
    <3>1. query.step = "names"
      BY <2>6 DEF ListNames
    <3>2. CASE query' = [query EXCEPT !.step = "told", !.answer = "error"]
      BY <3>1, <3>2
    <3>3. CASE there /\ query' = [query EXCEPT !.step = "packages"]
      BY <3>1, <3>3
    <3>4. CASE ~there /\ query' = [query EXCEPT !.step = "told", !.answer = "absent"]
      BY <3>1, <3>4
    <3>5. QED
      BY <2>6, <3>2, <3>3, <3>4 DEF ListNames, FailsAs
  <2>7. CASE ListPackages
    BY <2>7 DEF ListPackages, FailsAs
  <2>8. CASE ListRunning
    <3>1. PICK p \in {pid, 0} :
            query' = [query EXCEPT !.step = "told", !.answer = "details", !.pid = p]
      BY <2>8 DEF ListRunning
    <3>2. query.step = "running" /\ p \in Nat /\ p \in seen.query.pids \union {0}
      BY <2>8 DEF ListRunning
    <3>3. QED
      BY <3>1, <3>2
  <2>9. QED
    BY <2>1, <2>2, <2>3, <2>4, <2>5, <2>6, <2>7, <2>8
<1>5. QED
  BY <1>1, <1>2, <1>4, QueryKeeps

LEMMA AsksKeep == AppsIInv /\ Asks => AppsIInv'
BY RequestBeginKeeps, KnowsKeep DEF Asks

LEMMA OrderKeeps == ASSUME NEW what \in Orders PROVE AppsIInv /\ Order(what) => AppsIInv'
<1> SUFFICES ASSUME AppsIInv, Order(what) PROVE AppsIInv'
  OBVIOUS
<1> USE DEF AppsIInv, Order, NoChange
<1>1. DeviceOK'
  BY DEF DeviceOK
<1>2. Steps'
  BY DEF Steps
<1>3. Sight \in Sights /\ Sees(Sight)
  BY DEF DeviceOK, Sight, Sights, Sees
<1>4. InSight' /\ seen'.query = seen.query
  BY <1>3 DEF InSight, Sees
<1>5. Asking'
  BY <1>4 DEF Asking, AbsentIsTrue, RunningIsTrue
<1>6. Ordering'
  BY DEF Ordering
<1>7. QED
  BY <1>1, <1>2, <1>4, <1>5, <1>6

LEMMA CarryKeeps == AppsIInv /\ Carry => AppsIInv'
<1> SUFFICES ASSUME AppsIInv, Carry PROVE AppsIInv'
  OBVIOUS
<1> USE DEF AppsIInv
<1>1. DeviceOK'
  BY DeviceMoves, CarriedMoves DEF Carry
<1>2. order' \in [what : Orders \cup {"none"},
                  step : {"none", "sent", "lost", "carried", "refused", "told"},
                  told : {"none", "ok", "failed"}]
      /\ order'.what = order.what /\ order'.told = order.told
      /\ order'.step = IF order.step = "sent" THEN "carried" ELSE "told"
  BY DEF Carry, Steps
<1>3. InSight' /\ Asking' 
  BY <1>1, <1>2, LookAdds, SightsGrow DEF Carry
<1>4. Done(order'.what, seen'.order)
  <2>1. Sees(seen.order)'
    BY <1>3 DEF InSight
  <2>2. CASE order.what = "stop"
    BY <1>2, <2>1, <2>2 DEF Carry, Carried, Done, Sees
  <2>3. CASE order.what = "uninstall"
    BY <1>2, <2>1, <2>3 DEF Carry, Carried, Removed, Done, Sees
  <2>4. CASE order.what = "launch"
    BY <1>2, <2>4 DEF Done
  <2>5. CASE order.what \notin {"stop", "uninstall", "launch"}
    BY <1>2, <2>1, <2>5 DEF Carry, Carried, Done, Sees
  <2>6. QED
    BY <2>2, <2>3, <2>4, <2>5
<1>5. Steps' /\ Ordering'
  BY <1>2, <1>4 DEF Carry, Steps, Ordering
<1>6. QED
  BY <1>1, <1>3, <1>5

LEMMA AnswersKeep == AppsIInv /\ (Refuse \/ Tell \/ TimesOut) => AppsIInv'
<1> SUFFICES ASSUME AppsIInv, Refuse \/ Tell \/ TimesOut PROVE AppsIInv'
  OBVIOUS
<1> USE DEF AppsIInv
<1>1. UNCHANGED <<there, pid, pids, data, query, seen>>
  BY DEF Refuse, Tell, TimesOut, NoChange
<1>2. DeviceOK' /\ InSight' /\ Asking'
  BY <1>1 DEF DeviceOK, InSight, Sees, Asking, AbsentIsTrue, RunningIsTrue
<1>3. Steps'
  BY <1>1 DEF Refuse, Tell, TimesOut, Told, Steps
<1>4. Ordering'
  BY <1>1 DEF Refuse, Tell, TimesOut, Told, Steps, Ordering
<1>5. QED
  BY <1>2, <1>3, <1>4

LEMMA AppsInvariance == AppsSpec => []AppsIInv
<1>1. AppsIInv /\ [AppsNext]_appVars => AppsIInv'
  <2> SUFFICES ASSUME AppsIInv, [AppsNext]_appVars PROVE AppsIInv'
    OBVIOUS
  <2>1. CASE UNCHANGED appVars
    <3>1. UNCHANGED <<there, pid, pids, data, query, order, seen>>
      BY <2>1 DEF appVars
    <3>2. DeviceOK' /\ Steps'
      BY <3>1 DEF AppsIInv, DeviceOK, Steps
    <3>3. InSight'
      BY <3>1 DEF AppsIInv, InSight, Sees
    <3>4. Asking' /\ Ordering'
      BY <3>1 DEF AppsIInv, Asking, AbsentIsTrue, RunningIsTrue, Ordering
    <3>5. QED
      BY <3>2, <3>3, <3>4 DEF AppsIInv
  <2>2. QED
    BY <2>1, DeviceKeeps, AsksKeep, OrderKeeps, CarryKeeps, AnswersKeep DEF AppsNext
<1>2. QED
  BY InitApps, <1>1, PTL DEF AppsSpec

\* What a request answers was so at some time of the request, however the
\* application comes, goes and restarts meanwhile, for any number of processes
\* (app_service.py:104-514).
THEOREM AnswersAreTrue == AppsSpec => []AppsInv
<1>1. AppsIInv => AppsInv
  BY DEF AppsIInv, AppsInv, AppsTypeOK, DeviceOK, Asking, Ordering, Steps, Queries, Done, SuccessIsTrue
<1>2. QED
  BY AppsInvariance, <1>1, PTL

-----------------------------------------------------------------------------
(***************************************************************************)
(* Whoever controls takes part, for any users and any limit. A user has    *)
(* one seat (OnePlace), so that the one who leaves is gone when his first  *)
(* entry is removed, and who is chosen in his place is an entry of what is *)
(* left.                                                                   *)
(***************************************************************************)

Seat == [user : Users, role : Roles]

\* Who takes part has one seat, and whoever controls takes part.
OnePlace(s) == \A i, j \in 1 .. Len(s.parts) : s.parts[i].user = s.parts[j].user => i = j
Sound(s) ==
    /\ s \in [parts : Seq(Seat), controller : Users]
    /\ Len(s.parts) > 0 /\ OnePlace(s)
    /\ \E i \in 1 .. Len(s.parts) : s.parts[i].user = s.controller

SessIInv ==
    /\ DOMAIN sessions \subseteq Users /\ IsFiniteSet(DOMAIN sessions)
    /\ Cardinality(DOMAIN sessions) <= MaxSessions
    /\ \A id \in DOMAIN sessions : Sound(sessions[id])

LEMMA InitSessions == SessionInit => SessIInv
<1> SUFFICES ASSUME SessionInit PROVE SessIInv
  OBVIOUS
<1>1. DOMAIN sessions = {}
  BY DEF SessionInit
<1>2. QED
  BY <1>1, FS_EmptySet, SessionAssumption DEF SessIInv, SessionAssumption

\* Who takes part, and who as an admin, seat by seat.
LEMMA WhoFacts ==
    ASSUME NEW s, s.parts \in Seq(Seat)
    PROVE  /\ \A u : u \in Who(s) <=> \E i \in 1 .. Len(s.parts) : s.parts[i].user = u
           /\ \A u : u \in Admins(s) <=>
                \E i \in 1 .. Len(s.parts) : s.parts[i].user = u /\ s.parts[i].role = "admin"
<1>1. DOMAIN s.parts = 1 .. Len(s.parts)
  BY LenProperties
<1>2. QED
  BY <1>1 DEF Who, Admins

LEMMA PutKeeps ==
    ASSUME SessIInv, NEW id \in Users, NEW s, Sound(s), Put(id, s), id \in DOMAIN sessions \/ MayCreate
    PROVE  SessIInv'
<1>1. /\ DOMAIN sessions' = DOMAIN sessions \cup {id}
      /\ \A i \in DOMAIN sessions' : sessions'[i] = IF i = id THEN s ELSE sessions[i]
  BY DEF Put
<1>2. \A i \in DOMAIN sessions' : Sound(sessions'[i])
  <2>1. TAKE i \in DOMAIN sessions'
  <2>2. CASE i = id
    BY <1>1, <2>2
  <2>3. CASE i # id
    BY <1>1, <2>3 DEF SessIInv
  <2>4. QED
    BY <2>2, <2>3
<1>3. /\ IsFiniteSet(DOMAIN sessions')
      /\ Cardinality(DOMAIN sessions') = IF id \in DOMAIN sessions THEN Cardinality(DOMAIN sessions)
                                         ELSE Cardinality(DOMAIN sessions) + 1
  BY <1>1, FS_AddElement DEF SessIInv
<1>4. Cardinality(DOMAIN sessions') <= MaxSessions
  <2>1. Cardinality(DOMAIN sessions) \in Nat /\ MaxSessions \in Nat
    BY FS_CardinalityType, SessionAssumption DEF SessIInv, SessionAssumption
  <2>2. QED
    BY <1>3, <2>1 DEF SessIInv, MayCreate
<1>5. (\A i \in DOMAIN sessions : Sound(sessions[i]))'
  BY <1>2
<1>6. QED
  BY <1>1, <1>3, <1>4, <1>5 DEF SessIInv

LEMMA DropKeeps == ASSUME SessIInv, NEW id, Drop(id) PROVE SessIInv'
<1>1. /\ DOMAIN sessions' = DOMAIN sessions \ {id}
      /\ \A i \in DOMAIN sessions' : sessions'[i] = sessions[i]
  BY DEF Drop
<1>2. /\ IsFiniteSet(DOMAIN sessions') /\ Cardinality(DOMAIN sessions') <= Cardinality(DOMAIN sessions)
  BY <1>1, FS_Subset DEF SessIInv
<1>3. Cardinality(DOMAIN sessions) \in Nat /\ Cardinality(DOMAIN sessions') \in Nat /\ MaxSessions \in Nat
  BY <1>2, FS_CardinalityType, SessionAssumption DEF SessIInv, SessionAssumption
<1>4. Cardinality(DOMAIN sessions') <= MaxSessions
  BY <1>2, <1>3 DEF SessIInv
<1>5. (\A i \in DOMAIN sessions : Sound(sessions[i]))'
  BY <1>1 DEF SessIInv
<1>6. QED
  BY <1>1, <1>2, <1>4, <1>5 DEF SessIInv

LEMMA CreateKeeps == ASSUME SessIInv, NEW u \in Users, Create(u) PROVE SessIInv'
<1> DEFINE s == [parts |-> <<Part(u, "admin")>>, controller |-> u]
<1>1. Part(u, "admin") \in Seat /\ Part(u, "admin").user = u
  BY DEF Part, Seat, Roles
<1>2. s.parts \in Seq(Seat) /\ Len(s.parts) = 1 /\ s.parts[1].user = u /\ s.controller = u
  BY <1>1
<1>3. Sound(s)
  BY <1>2 DEF Sound, OnePlace
<1>4. Put(u, s) /\ MayCreate
  BY DEF Create
<1> HIDE DEF s
<1>5. QED
  BY <1>3, <1>4, PutKeeps

\* Who joins has one seat, and all who sat sit where they sat.
LEMMA SeatsFacts ==
    ASSUME NEW s, Sound(s), NEW u \in Users, NEW r \in Roles
    PROVE  Sound([s EXCEPT !.parts = Seats(@, u, r)])
<1> DEFINE q == s.parts
           p == Seats(q, u, r)
           t == [s EXCEPT !.parts = Seats(@, u, r)]
<1>1. q \in Seq(Seat) /\ Len(q) \in Nat /\ DOMAIN q = 1 .. Len(q) /\ \A i \in 1 .. Len(q) : q[i] \in Seat
  BY LenProperties, ElementOfSeq DEF Sound
<1>2. Part(u, r) \in Seat /\ Part(u, r).user = u
  BY DEF Part, Seat
<1>3. t.parts = p /\ t.controller = s.controller /\ t = [parts |-> p, controller |-> s.controller]
  BY DEF Sound
<1>4. CASE \E i \in DOMAIN q : q[i].user = u
  <2>1. p = [i \in 1 .. Len(q) |-> IF q[i].user = u THEN Part(u, r) ELSE q[i]]
    BY <1>1, <1>4 DEF Seats
  <2>2. \A i \in 1 .. Len(q) : p[i] \in Seat /\ p[i].user = q[i].user
    BY <1>1, <1>2, <2>1
  <2>3. p \in [1 .. Len(q) -> Seat]
    BY <2>1, <2>2
  <2> HIDE DEF p
  <2>4. p \in Seq(Seat) /\ Len(p) = Len(q)
    BY <1>1, <2>3
  <2> HIDE DEF q
  <2>5. OnePlace(t)
    BY <1>3, <2>2, <2>4 DEF Sound, OnePlace, q
  <2>6. \E i \in 1 .. Len(p) : p[i].user = s.controller
    BY <2>2, <2>4 DEF Sound, q
  <2>7. QED
    BY <1>1, <1>3, <2>4, <2>5, <2>6 DEF Sound, q
<1>5. CASE ~\E i \in DOMAIN q : q[i].user = u
  <2>1. p = Append(q, Part(u, r))
    BY <1>5 DEF Seats
  <2>2. /\ p \in Seq(Seat) /\ Len(p) = Len(q) + 1 /\ p[Len(q) + 1] = Part(u, r)
        /\ \A i \in 1 .. Len(q) : p[i] = q[i]
    BY <1>1, <1>2, <2>1
  <2>3. \A i \in 1 .. Len(q) : q[i].user # u
    BY <1>1, <1>5
  <2> HIDE DEF q, p
  <2>4. \A i, j \in 1 .. Len(q) : q[i].user = q[j].user => i = j
    BY DEF Sound, OnePlace, q
  <2>5. \A i, j \in 1 .. Len(p) : p[i].user = p[j].user => i = j
    <3>1. TAKE i, j \in 1 .. Len(p)
    <3>2. CASE i \in 1 .. Len(q) /\ j \in 1 .. Len(q)
      BY <2>2, <2>4, <3>2
    <3>3. CASE i = Len(q) + 1 \/ j = Len(q) + 1
      BY <1>1, <1>2, <2>2, <2>3, <3>3
    <3>4. QED
      BY <1>1, <2>2, <3>2, <3>3
  <2>6. \E i \in 1 .. Len(p) : p[i].user = s.controller
    BY <1>1, <2>2 DEF Sound, q
  <2>7. QED
    BY <1>1, <1>3, <2>2, <2>5, <2>6 DEF Sound, OnePlace
<1>6. QED
  BY <1>4, <1>5

LEMMA JoinKeeps ==
    ASSUME SessIInv, NEW id \in Users, NEW u \in Users, NEW r \in Roles, JoinSession(id, u, r)
    PROVE  SessIInv'
<1>1. Put(id, [sessions[id] EXCEPT !.parts = Seats(@, u, r)]) /\ id \in DOMAIN sessions
  BY DEF JoinSession
<1>2. Sound(sessions[id])
  BY <1>1 DEF SessIInv
<1>3. QED
  BY <1>1, <1>2, SeatsFacts, PutKeeps

\* Who leaves gives up the one seat there is, and all others stay where they sat.
Leaves(q, u, p) ==
    /\ p \in Seq(Seat)
    /\ \A i, j \in 1 .. Len(p) : p[i].user = p[j].user => i = j
    /\ \A i \in 1 .. Len(p) : p[i].user # u
    /\ \A i \in 1 .. Len(q) : q[i].user = u \/ \E j \in 1 .. Len(p) : p[j] = q[i]

LEMMA OthersFacts == ASSUME NEW s, Sound(s), NEW u PROVE Leaves(s.parts, u, Others(s.parts, u))
<1> DEFINE q == s.parts
           p == Others(q, u)
<1>1. q \in Seq(Seat) /\ Len(q) \in Nat
  BY LenProperties DEF Sound
<1>2. \A i, j \in 1 .. Len(q) : q[i].user = q[j].user => i = j
  BY DEF Sound, OnePlace
<1>3. p = Others(q, u)
  OBVIOUS
<1>4. SUFFICES Leaves(q, u, p)
  OBVIOUS
<1> HIDE DEF q, p
<1>5. CASE \E i \in 1 .. Len(q) : q[i].user = u
  <2> DEFINE I == {i \in 1 .. Len(q) : q[i].user = u}
             k == Min(I)
  <2>1. I # {} /\ I \in SUBSET Nat
    BY <1>1, <1>5
  <2>2. k \in I
    BY <2>1, MinIsLeast
  <2>3. p = RemoveAt(q, k)
    BY <1>3, <1>5, <2>1 DEF Others, RemoveFirstMatch, SelectInSeq
  <2>4. k \in 1 .. Len(q) /\ q[k].user = u
    BY <2>2
  <2> HIDE DEF k
  <2>5. /\ p \in Seq(Seat) /\ Len(p) = Len(q) - 1
        /\ \A i \in 1 .. Len(q) - 1 : p[i] = IF i < k THEN q[i] ELSE q[i + 1]
    BY <1>1, <2>3, <2>4, RemoveAtFacts
  <2> DEFINE was(n) == IF n < k THEN n ELSE n + 1
  <2>6. ASSUME NEW i \in 1 .. Len(p)
        PROVE  was(i) \in 1 .. Len(q) /\ was(i) # k /\ p[i] = q[was(i)]
    <3>1. i \in 1 .. Len(q) - 1
      BY <2>5
    <3>2. CASE i < k
      BY <1>1, <2>4, <2>5, <3>1, <3>2
    <3>3. CASE ~(i < k)
      BY <1>1, <2>4, <2>5, <3>1, <3>3
    <3>4. QED
      BY <3>2, <3>3
  <2>7. ASSUME NEW i \in 1 .. Len(p), NEW j \in 1 .. Len(p), p[i].user = p[j].user
        PROVE  i = j
    <3>1. was(i) = was(j)
      BY <1>2, <2>6, <2>7
    <3>2. i \in Nat /\ j \in Nat /\ k \in Nat
      BY <1>1, <2>4, <2>5
    <3>3. QED
      BY <3>1, <3>2
  <2>8. ASSUME NEW i \in 1 .. Len(p)
        PROVE  p[i].user # u
    BY <1>2, <2>4, <2>6
  <2>9. ASSUME NEW i \in 1 .. Len(q), q[i].user # u
        PROVE  \E j \in 1 .. Len(p) : p[j] = q[i]
    <3>1. i # k
      BY <2>4, <2>9
    <3>2. CASE i < k
      <4>1. i \in 1 .. Len(q) - 1
        BY <1>1, <2>4, <3>2
      <4>2. QED
        BY <2>5, <3>2, <4>1
    <3>3. CASE i > k
      <4>1. i - 1 \in 1 .. Len(q) - 1 /\ ~(i - 1 < k) /\ (i - 1) + 1 = i
        BY <1>1, <2>4, <3>3
      <4>2. p[i - 1] = q[i]
        BY <2>5, <4>1
      <4>3. QED
        BY <2>5, <4>1, <4>2
    <3>4. QED
      BY <1>1, <2>4, <3>1, <3>2, <3>3
  <2>10. QED
    BY <2>5, <2>7, <2>8, <2>9 DEF Leaves
<1>6. CASE ~\E i \in 1 .. Len(q) : q[i].user = u
  <2>1. p = q
    BY <1>3, <1>6 DEF Others, RemoveFirstMatch
  <2>2. QED
    BY <1>1, <1>2, <1>6, <2>1 DEF Leaves
<1>7. QED
  BY <1>5, <1>6

\* Who succeeds takes part, and is an admin if there is one.
LEMMA SuccessorFacts ==
    ASSUME NEW p \in Seq(Seat), Len(p) > 0
    PROVE  \E i \in 1 .. Len(p) :
              /\ p[i].user = Successor(p)
              /\ \A j \in 1 .. Len(p) : p[j].role = "admin" => p[i].role = "admin"
<1> DEFINE I == {i \in 1 .. Len(p) : p[i].role = "admin"}
<1>1. Len(p) \in Nat /\ 1 \in 1 .. Len(p) /\ I \in SUBSET Nat
  OBVIOUS
<1>2. CASE I = {}
  <2>1. SelectInSeq(p, LAMBDA x : x.role = "admin") = 0
    BY <1>2 DEF SelectInSeq
  <2>2. Successor(p) = p[1].user
    BY <2>1 DEF Successor
  <2>3. QED
    BY <1>1, <1>2, <2>2
<1>3. CASE I # {}
  <2> DEFINE k == Min(I)
  <2>1. k \in I
    BY <1>1, <1>3, MinIsLeast
  <2>2. SelectInSeq(p, LAMBDA x : x.role = "admin") = k
    BY <1>3 DEF SelectInSeq
  <2> HIDE DEF k
  <2>3. k \in 1 .. Len(p) /\ p[k].role = "admin" /\ k # 0
    BY <2>1
  <2>4. Successor(p) = p[k].user
    BY <2>2, <2>3 DEF Successor
  <2>5. QED
    BY <2>3, <2>4
<1>4. QED
  BY <1>2, <1>3

\* How the control of a session may pass in a step.
Passes(s, t) ==
    t.controller # s.controller =>
        IF s.controller \in Who(t) THEN Admins(s) # {}
        ELSE Admins(t) # {} => t.controller \in Admins(t)

LEMMA LeaveKeeps ==
    ASSUME SessIInv, NEW id \in Users, NEW u \in Users, LeaveSession(id, u)
    PROVE  /\ SessIInv'
           /\ \A i \in DOMAIN sessions \cap DOMAIN sessions' : Passes(sessions[i], sessions'[i])
<1> DEFINE s == sessions[id]
           p == Others(s.parts, u)
           t == [parts |-> p, controller |-> Remains(s, p, u)]
<1>1. id \in DOMAIN sessions /\ Sound(s)
  BY DEF LeaveSession, SessIInv
<1>2. p = Others(s.parts, u)
  OBVIOUS
<1>3. IF p = <<>> THEN Drop(id) ELSE Put(id, t)
  BY DEF LeaveSession
<1> HIDE DEF p
<1>4. /\ p \in Seq(Seat)
      /\ \A i, j \in 1 .. Len(p) : p[i].user = p[j].user => i = j
      /\ \A i \in 1 .. Len(p) : p[i].user # u
      /\ \A i \in 1 .. Len(s.parts) : s.parts[i].user = u \/ \E j \in 1 .. Len(p) : p[j] = s.parts[i]
  <2>1. Leaves(s.parts, u, Others(s.parts, u))
    BY <1>1, OthersFacts, Zenon
  <2>2. Leaves(s.parts, u, p)
    BY <1>2, <2>1
  <2>3. QED
    BY <2>2 DEF Leaves
<1>5. CASE p = <<>>
  <2>1. Drop(id)
    BY <1>3, <1>5
  <2>2. \A i \in DOMAIN sessions' : sessions'[i] = sessions[i]
    BY <2>1 DEF Drop
  <2>3. QED
    BY <2>1, <2>2, DropKeeps DEF Passes
<1>6. CASE p # <<>>
  <2>1. Put(id, t) /\ Len(p) > 0
    BY <1>4, <1>3, <1>6
  <2>2. PICK k \in 1 .. Len(p) :
           /\ p[k].user = Successor(p)
           /\ \A j \in 1 .. Len(p) : p[j].role = "admin" => p[k].role = "admin"
    BY <1>4, <2>1, SuccessorFacts
  <2>3. \A i \in 1 .. Len(p) : p[i] \in Seat
    BY <1>4, ElementOfSeq
  <2>4. t.parts = p /\ t.controller = Remains(s, p, u)
    OBVIOUS
  <2>5. \E i \in 1 .. Len(p) : p[i].user = t.controller
    <3>1. CASE s.controller = u
      BY <2>2, <2>4, <3>1 DEF Remains
    <3>2. CASE s.controller # u
      <4>1. PICK i \in 1 .. Len(s.parts) : s.parts[i].user = s.controller
        BY <1>1 DEF Sound
      <4>2. \E j \in 1 .. Len(p) : p[j] = s.parts[i]
        BY <1>4, <3>2, <4>1
      <4>3. QED
        BY <2>4, <3>2, <4>1, <4>2 DEF Remains
    <3>3. QED
      BY <3>1, <3>2
  <2>6. t.controller \in Users
    BY <2>3, <2>5 DEF Seat
  <2>7. t \in [parts : Seq(Seat), controller : Users]
    BY <1>4, <2>4, <2>6
  <2>8. Sound(t)
    BY <1>4, <2>1, <2>4, <2>5, <2>7 DEF Sound, OnePlace
  <2>9. Passes(s, t)
    <3>1. CASE s.controller = u
      <4>1. ~(s.controller \in Who(t))
        BY <1>4, <2>4, <3>1, WhoFacts
      <4>2. ASSUME Admins(t) # {}
            PROVE  t.controller \in Admins(t)
        <5>1. \E i \in 1 .. Len(p) : p[i].role = "admin"
          BY <1>4, <2>4, <4>2, WhoFacts
        <5>2. p[k].role = "admin" /\ p[k].user = t.controller
          BY <2>2, <2>4, <3>1, <5>1 DEF Remains
        <5>3. QED
          BY <1>4, <2>4, <5>2, WhoFacts
      <4>3. QED
        BY <4>1, <4>2 DEF Passes
    <3>2. CASE s.controller # u
      BY <2>4, <3>2 DEF Remains, Passes
    <3>3. QED
      BY <3>1, <3>2
  <2> HIDE DEF t
  <2>10. SessIInv'
    BY <1>1, <2>1, <2>8, PutKeeps
  <2>11. \A i \in DOMAIN sessions' : sessions'[i] = IF i = id THEN t ELSE sessions[i]
    BY <2>1 DEF Put
  <2>12. QED
    BY <2>9, <2>10, <2>11 DEF Passes
<1>7. QED
  BY <1>5, <1>6

LEMMA TransferKeeps ==
    ASSUME SessIInv, NEW id \in Users, NEW a \in Users, NEW b \in Users, Transfer(id, a, b)
    PROVE  /\ SessIInv'
           /\ \A i \in DOMAIN sessions \cap DOMAIN sessions' : Passes(sessions[i], sessions'[i])
<1> DEFINE s == sessions[id]
           t == [s EXCEPT !.controller = b]
<1>1. id \in DOMAIN sessions /\ Sound(s) /\ a \in Admins(s) /\ b \in Who(s) /\ Put(id, t)
  BY DEF Transfer, MayTransfer, SessIInv
<1>2. t.parts = s.parts /\ t.controller = b /\ t \in [parts : Seq(Seat), controller : Users]
  BY <1>1 DEF Sound
<1>3. \E i \in 1 .. Len(s.parts) : s.parts[i].user = b
  BY <1>1, WhoFacts DEF Sound
<1>4. Sound(t)
  BY <1>1, <1>2, <1>3 DEF Sound, OnePlace
<1>5. s.controller \in Who(t)
  <2>1. \E i \in 1 .. Len(t.parts) : t.parts[i].user = s.controller
    BY <1>1, <1>2 DEF Sound
  <2>2. QED
    BY <1>2, <2>1, WhoFacts
<1>6. Passes(s, t)
  BY <1>1, <1>5 DEF Passes
<1> HIDE DEF t
<1>7. SessIInv'
  BY <1>1, <1>4, PutKeeps
<1>8. \A i \in DOMAIN sessions' : sessions'[i] = IF i = id THEN t ELSE sessions[i]
  BY <1>1 DEF Put
<1>9. QED
  BY <1>6, <1>7, <1>8 DEF Passes

LEMMA SessionsKeep ==
    ASSUME SessIInv, [SessionNext]_sessions
    PROVE  /\ SessIInv'
           /\ \A i \in DOMAIN sessions \cap DOMAIN sessions' : Passes(sessions[i], sessions'[i])
<1>1. CASE UNCHANGED sessions
  BY <1>1 DEF SessIInv, Passes
<1>2. ASSUME NEW u \in Users, Create(u)
      PROVE  /\ SessIInv'
             /\ \A i \in DOMAIN sessions \cap DOMAIN sessions' : Passes(sessions[i], sessions'[i])
  <2>1. \A i \in DOMAIN sessions : sessions'[i] = sessions[i]
    BY <1>2 DEF Create, Put
  <2>2. QED
    BY <1>2, <2>1, CreateKeeps DEF Passes
<1>3. ASSUME NEW id \in Users, NEW u \in Users, NEW r \in Roles, JoinSession(id, u, r)
      PROVE  /\ SessIInv'
             /\ \A i \in DOMAIN sessions \cap DOMAIN sessions' : Passes(sessions[i], sessions'[i])
  <2>1. \A i \in DOMAIN sessions : sessions'[i].controller = sessions[i].controller
    BY <1>3 DEF JoinSession, Put, SessIInv, Sound
  <2>2. QED
    BY <1>3, <2>1, JoinKeeps DEF Passes
<1>4. ASSUME NEW id \in Users, NEW u \in Users, LeaveSession(id, u)
      PROVE  /\ SessIInv'
             /\ \A i \in DOMAIN sessions \cap DOMAIN sessions' : Passes(sessions[i], sessions'[i])
  BY <1>4, LeaveKeeps
<1>5. ASSUME NEW id \in Users, NEW a \in Users, NEW b \in Users, Transfer(id, a, b)
      PROVE  /\ SessIInv'
             /\ \A i \in DOMAIN sessions \cap DOMAIN sessions' : Passes(sessions[i], sessions'[i])
  BY <1>5, TransferKeeps
<1>6. QED
  BY <1>1, <1>2, <1>3, <1>4, <1>5 DEF SessionNext

\* No one sits twice in a session.
LEMMA SeatsAreUsers ==
    ASSUME NEW s, Sound(s)
    PROVE  Len(s.parts) \in 1 .. Cardinality(Who(s))
<1> DEFINE q == s.parts
           f == [i \in 1 .. Len(q) |-> q[i].user]
<1>1. q \in Seq(Seat) /\ Len(q) \in Nat /\ Len(q) > 0
  BY LenProperties DEF Sound
<1>2. \A u : u \in Who(s) <=> \E i \in 1 .. Len(q) : q[i].user = u
  BY <1>1, WhoFacts
<1>3. f \in Bijection(1 .. Len(q), Who(s))
  <2>1. f \in [1 .. Len(q) -> Who(s)]
    BY <1>2
  <2>2. \A i, j \in 1 .. Len(q) : f[i] = f[j] => i = j
    BY DEF Sound, OnePlace
  <2>3. \A u \in Who(s) : \E i \in 1 .. Len(q) : f[i] = u
    BY <1>2
  <2>4. QED
    BY <2>1, <2>2, <2>3 DEF Bijection, Injection, Surjection, IsInjective
<1>4. IsFiniteSet(1 .. Len(q)) /\ Cardinality(1 .. Len(q)) = Len(q)
  <2>1. IsFiniteSet(1 .. Len(q)) /\ Cardinality(1 .. Len(q)) = IF 1 > Len(q) THEN 0 ELSE Len(q) - 1 + 1
    <3>1. 1 \in Int /\ Len(q) \in Int
      BY <1>1
    <3>2. QED
      BY <3>1, FS_Interval
  <2>2. QED
    BY <1>1, <2>1
<1>5. Cardinality(Who(s)) = Len(q)
  BY <1>3, <1>4, FS_Bijection DEF ExistsBijection
<1>6. QED
  BY <1>1, <1>5

\* Control stays with somebody who takes part and passes as the roles allow,
\* through any order of joins, leaves and transfers of any number of users
\* (session_service.py:86-179).
THEOREM ControlStaysInside == SessionSpec => ControlHolds
<1>1. SessIInv => SessionTypeOK /\ ControllerTakesPart
  <2> SUFFICES ASSUME SessIInv PROVE SessionTypeOK /\ ControllerTakesPart
    OBVIOUS
  <2>1. ASSUME NEW id \in DOMAIN sessions
        PROVE  /\ sessions[id].parts \in Seq([user : Users, role : Roles])
               /\ Len(sessions[id].parts) \in 1 .. Cardinality(Who(sessions[id]))
               /\ sessions[id].controller \in Who(sessions[id])
    <3>1. Sound(sessions[id])
      BY DEF SessIInv
    <3>2. QED
      BY <3>1, SeatsAreUsers, WhoFacts DEF Sound, Seat
  <2>2. QED
    BY <2>1 DEF SessIInv, SessionTypeOK, ControllerTakesPart
<1>2. SessIInv /\ [SessionNext]_sessions => SessIInv'
  BY SessionsKeep
<1>3. ASSUME SessIInv, [SessionNext]_sessions
      PROVE  [\A id \in DOMAIN sessions \intersect DOMAIN sessions' :
                LET s == sessions[id]
                    t == sessions'[id]
                IN  t.controller # s.controller =>
                       IF s.controller \in Who(t) THEN Admins(s) # {}
                       ELSE Admins(t) # {} => t.controller \in Admins(t)]_sessions
  BY <1>3, SessionsKeep DEF Passes
<1>4. QED
  BY InitSessions, <1>1, <1>2, <1>3, PTL DEF SessionSpec, ControlHolds, ControlFallsToAdmins

-----------------------------------------------------------------------------
(***************************************************************************)
(* What is in effect is what the files say, or a change is still to be     *)
(* seen, for any values, keys and edits in between. The clock is ahead of  *)
(* every file, so that a file just written differs in its time from what   *)
(* was looked at (Timed); what a load has read of a file is what it still  *)
(* says, or its change is pending (Current); and what is in effect was so  *)
(* when the load ended (Settled).                                          *)
(***************************************************************************)

SetTypes ==
    /\ file \in [Layers -> Files] /\ stamp \in [Layers -> Nat] /\ mtimes \in [Layers -> Nat]
    /\ stage \in {"down", "loaded", "watching"} /\ live \in Contents
    /\ read \in [Layers -> Contents] /\ todo \subseteq Layers
    /\ edits \in Nat /\ saves \in Nat /\ clock \in Nat \ {0} /\ missed \in BOOLEAN

Doings ==
    /\ doing \in {"rest", "first", "stat", "seen", "check", "load", "merge"}
    /\ doing \in {"first", "stat", "seen", "load"} <=> todo # {}
    /\ doing = "first" => stage = "loaded"
    /\ doing \in {"stat", "seen", "check", "merge"} => stage = "watching"
    /\ doing = "load" => stage # "loaded"

\* The clock is ahead of every file, and a file without a time is not there.
Timed ==
    \A l \in Layers : /\ stamp[l] <= clock /\ mtimes[l] <= clock
                      /\ stamp[l] = 0 <=> file[l] = Missing

FixedRules == stage # "down" => \A k \in Fixed : live[k] = EnvironmentSays

\* The next look will see a change of the file, or none can see what has changed.
Due(l) == missed \/ (stage = "watching" /\ stamp[l] # mtimes[l])
Current ==
    doing = "load" =>
        /\ \A l \in Layers \ todo : Due(l) \/ (read[l] = file[l].says /\ file[l] # Broken)
        /\ stage = "watching" => Due("base") \/ file["base"].says # Empty

Agrees == live = Effective(Texts)
Settled ==
    /\ stage = "loaded" => Agrees \/ missed
    /\ stage = "watching" /\ doing \in {"rest", "stat", "merge"} =>
           Agrees \/ ~Reloadable \/ \E l \in Layers : Due(l)

SetIInv == SetTypes /\ Doings /\ Timed /\ FixedRules /\ Current /\ Settled

\* New settings are those of the files, or a change of one is due.
TakenWhole ==
    live' # live /\ stage = "watching" /\ stage' = "watching" =>
        (Reloadable /\ live' = Effective(Texts)) \/ stamp # mtimes \/ missed

LEMMA SetBounds ==
    /\ Values \subseteq Nat /\ 0 \notin Values /\ EnvironmentSays \in Values /\ Fixed \subseteq Keys
    /\ {"base", "user"} \subseteq Layers /\ Layers \subseteq {"base", "user", "env"}
    /\ Empty \in Contents /\ Unread \in [Layers -> Contents]
<1>1. Values \subseteq Nat \ {0} /\ Values # {} /\ Fixed \subseteq Keys
  BY SettingsAssumption DEF SettingsAssumption
<1>2. EnvironmentSays \in Values
  BY <1>1 DEF EnvironmentSays
<1>3. {"base", "user"} \subseteq Layers /\ Layers \subseteq {"base", "user", "env"}
  BY DEF Layers
<1>4. Empty \in Contents
  BY DEF Empty, Contents
<1>5. Unread \in [Layers -> Contents]
  BY <1>4 DEF Unread
<1>6. QED
  BY <1>1, <1>2, <1>3, <1>4, <1>5

LEMMA FirstIsOne == ASSUME NEW ls, ls \subseteq Layers, ls # {} PROVE First(ls) \in ls
  BY SetBounds DEF First

\* Every file says something or nothing of a key; what they say together is a content.
LEMMA FileFacts ==
    /\ Missing \in Files /\ Missing # Broken
    /\ \A c \in Contents : Whole(c) \in Files /\ Whole(c) # Missing /\ Whole(c) # Broken
    /\ \A c \in Files : c.says \in Contents
<1>1. Missing \in Files /\ Missing # Broken
  BY DEF Files, Missing, Broken
<1>2. \A c \in Contents : Whole(c) \in Files /\ Whole(c) # Missing /\ Whole(c) # Broken
  BY DEF Files, Whole, Missing, Broken
<1>3. \A c \in Files : c.says \in Contents
  BY SetBounds DEF Files, Whole, Missing, Broken
<1>4. QED
  BY <1>1, <1>2, <1>3

LEMMA EffectiveFacts ==
    ASSUME NEW t \in [Layers -> Contents]
    PROVE  Effective(t) \in Contents /\ \A k \in Fixed : Effective(t)[k] = EnvironmentSays
<1>1. ASSUME NEW l, NEW k \in Keys
      PROVE  Said(t, l, k) \in Values \union {0}
  <2>1. CASE l \in Layers
    BY <2>1 DEF Said, Contents
  <2>2. CASE l \notin Layers
    BY <2>2 DEF Said
  <2>3. QED
    BY <2>1, <2>2
<1>2. \A k \in Keys : FirstOf(Said(t, "env", k), Said(t, "user", k), Said(t, "base", k)) \in Values \union {0}
  BY <1>1 DEF FirstOf
<1>3. QED
  BY <1>2, SetBounds DEF Effective, Contents

LEMMA InitSettings == SettingsInit => SetIInv
<1> SUFFICES ASSUME SettingsInit PROVE SetIInv
  OBVIOUS
<1>1. [k \in Keys |-> EnvironmentSays] \in Contents
  BY SetBounds DEF Contents
<1>2. Whole([k \in Keys |-> EnvironmentSays]) \in Files /\ Whole([k \in Keys |-> EnvironmentSays]) # Missing
  BY <1>1, FileFacts
<1>3. SetTypes
  <2>1. file \in [Layers -> Files]
    BY <1>2, FileFacts DEF SettingsInit
  <2>2. stamp \in [Layers -> Nat] /\ mtimes \in [Layers -> Nat]
    BY DEF SettingsInit
  <2>3. live \in Contents /\ read \in [Layers -> Contents] /\ todo \subseteq Layers
    BY SetBounds DEF SettingsInit
  <2>4. missed \in BOOLEAN
    BY DEF SettingsInit
  <2>5. QED
    BY <2>1, <2>2, <2>3, <2>4 DEF SettingsInit, SetTypes
<1>4. Timed
  BY <1>2 DEF SettingsInit, Timed
<1>5. Doings /\ FixedRules /\ Current /\ Settled
  BY DEF SettingsInit, Doings, FixedRules, Current, Settled
<1>6. QED
  BY <1>3, <1>4, <1>5 DEF SetIInv

\* While the files stay as they are, so does what they say.
LEMMA FilesHold ==
    ASSUME SetIInv, FilesStay, mtimes' \in [Layers -> Nat],
           \A l \in Layers : mtimes'[l] \in {0, mtimes[l], stamp[l]}
    PROVE  /\ Timed' /\ Texts' = Texts /\ (Reloadable' <=> Reloadable)
           /\ file' = file /\ stamp' = stamp
<1>1. file' = file /\ stamp' = stamp /\ clock' = clock
  BY DEF FilesStay
<1>2. Timed'
  BY <1>1 DEF SetIInv, SetTypes, Timed
<1>3. QED
  BY <1>1, <1>2 DEF Texts, Reloadable

LEMMA BeginsKeep ==
    SetIInv /\ (Start \/ AskReload \/ Scan \/ PutReads) => SetIInv' /\ TakenWhole
<1> SUFFICES ASSUME SetIInv, Start \/ AskReload \/ Scan \/ PutReads PROVE SetIInv' /\ TakenWhole
  OBVIOUS
<1> USE DEF SetIInv
<1>1. FilesStay /\ mtimes' = mtimes /\ live' = live /\ stage' = stage
  BY DEF Start, AskReload, Scan, PutReads
<1>2. Timed' /\ Texts' = Texts /\ (Reloadable' <=> Reloadable) /\ file' = file /\ stamp' = stamp
  BY <1>1, FilesHold DEF SetTypes
<1>3. doing = "rest" /\ ((stage = "down" /\ doing' = "load") \/ missed' = missed)
  BY DEF Start, AskReload, Scan, PutReads
<1>4. SetTypes'
  <2>1. read' \in [Layers -> Contents]
    <3>1. "user" \in Layers /\ file["user"].says \in Contents
      BY FileFacts, SetBounds DEF SetTypes
    <3>2. QED
      BY <3>1 DEF Start, AskReload, Scan, PutReads, SetTypes
  <2>2. todo' \in {todo, Layers} /\ edits' = edits /\ clock' = clock /\ saves' \in {saves, saves + 1}
    BY DEF Start, AskReload, Scan, PutReads, FilesStay
  <2>3. missed' \in BOOLEAN
    BY <1>1 DEF Start, AskReload, Scan, PutReads, SetTypes
  <2>4. QED
    BY <1>1, <1>2, <2>1, <2>2, <2>3 DEF SetTypes
<1>5. Doings'
  <2>1. Layers # {}
    BY SetBounds
  <2>2. CASE Start
    BY <2>1, <2>2 DEF Start, Doings
  <2>3. CASE AskReload
    BY <2>3 DEF AskReload, Doings
  <2>4. CASE Scan
    BY <1>1, <2>1, <2>4 DEF Scan, Doings, SetTypes
  <2>5. CASE PutReads
    BY <2>5 DEF PutReads, Doings
  <2>6. QED
    BY <2>2, <2>3, <2>4, <2>5
<1>6. FixedRules'
  BY <1>1 DEF FixedRules
<1>7. Current'
  <2>1. doing' = "load" => stage = "down" /\ todo' = Layers
    BY DEF Start, AskReload, Scan, PutReads
  <2>2. QED
    BY <1>1, <2>1 DEF Current
<1>8. Settled'
  <2>1. stage # "down" => missed' = missed
    BY <1>3
  <2>2. Agrees' <=> Agrees
    BY <1>1, <1>2 DEF Agrees
  <2>3. stage # "down" => \A l \in Layers : Due(l)' <=> Due(l)
    BY <1>1, <1>2, <2>1 DEF Due
  <2>4. QED
    BY <1>1, <1>2, <1>3, <2>1, <2>2, <2>3 DEF Settled
<1>9. TakenWhole
  BY <1>1 DEF TakenWhole
<1>10. QED
  BY <1>2, <1>4, <1>5, <1>6, <1>7, <1>8, <1>9

LEMMA CheckKeeps == SetIInv /\ Check => SetIInv' /\ TakenWhole
<1> SUFFICES ASSUME SetIInv, Check PROVE SetIInv' /\ TakenWhole
  OBVIOUS
<1> USE DEF SetIInv
<1>1. /\ FilesStay /\ mtimes' = mtimes /\ live' = live /\ stage' = stage /\ saves' = saves
      /\ stage = "watching"
  BY DEF Check, Doings
<1>2. Timed' /\ Texts' = Texts /\ (Reloadable' <=> Reloadable) /\ file' = file /\ stamp' = stamp
  BY <1>1, FilesHold DEF SetTypes
<1>3. \/ /\ file["base"].says # Empty /\ doing' = "load" /\ todo' = Layers /\ read' = read
         /\ missed' = FALSE
      \/ ~Reloadable /\ doing' = "rest" /\ todo' = {} /\ read' = Unread /\ missed' = missed
  BY SetBounds DEF Check, Rests, Reloadable
<1>4. SetTypes'
  BY <1>1, <1>2, <1>3, SetBounds DEF SetTypes, FilesStay
<1>5. Doings'
  BY <1>1, <1>3, SetBounds DEF Doings
<1>6. FixedRules' /\ TakenWhole
  BY <1>1 DEF FixedRules, TakenWhole
<1>7. Current'
  BY <1>2, <1>3 DEF Current
<1>8. Settled'
  BY <1>1, <1>2, <1>3 DEF Settled
<1>9. QED
  BY <1>2, <1>4, <1>5, <1>6, <1>7, <1>8

\* A file is read: it says what is kept of it, and is whole.
LEMMA ReadKeeps == SetIInv /\ ReadFile => SetIInv' /\ TakenWhole
<1> SUFFICES ASSUME SetIInv, ReadFile PROVE SetIInv' /\ TakenWhole
  OBVIOUS
<1> USE DEF SetIInv
<1> DEFINE l == First(todo)
           texts == [read EXCEPT ![l] = file[l].says]
<1>1. doing = "load" /\ FilesStay /\ mtimes' = mtimes /\ saves' = saves /\ missed' = missed
  BY DEF ReadFile
<1>2. l \in todo /\ l \in Layers /\ stage # "loaded"
  BY <1>1, FirstIsOne DEF SetTypes, Doings
<1>3. Timed' /\ Texts' = Texts /\ (Reloadable' <=> Reloadable) /\ file' = file /\ stamp' = stamp
  BY <1>1, FilesHold DEF SetTypes
<1>4. texts \in [Layers -> Contents]
  BY <1>2, FileFacts DEF SetTypes
<1>5. \A x \in Layers \ (todo \ {l}) :
          Due(x) \/ (texts[x] = file[x].says /\ file[x] # Broken) \/ (x = l /\ Unreadable(l))
  BY <1>1, <1>2 DEF SetTypes, Current, Unreadable
<1>6. \A x : stage' = stage => (Due(x)' <=> Due(x))
  BY <1>1, <1>3 DEF Due
<1>7. CASE Unreadable(l) /\ Rests /\ UNCHANGED <<stage, live>>
  <2>1. ~Reloadable
    BY <1>2, <1>7 DEF Unreadable, Reloadable
  <2>2. SetTypes'
    BY <1>1, <1>3, <1>7, SetBounds DEF SetTypes, FilesStay, Rests
  <2>3. Doings' /\ FixedRules' /\ TakenWhole /\ Current'
    BY <1>2, <1>7 DEF Doings, FixedRules, TakenWhole, Current, Rests
  <2>4. Settled'
    BY <1>2, <1>3, <1>7, <2>1 DEF Settled
  <2>5. QED
    BY <1>3, <2>2, <2>3, <2>4
<1>8. CASE /\ ~Unreadable(l) /\ todo # {l}
           /\ todo' = todo \ {l} /\ read' = texts /\ UNCHANGED <<stage, doing, live>>
  <2>1. SetTypes'
    BY <1>1, <1>3, <1>4, <1>8 DEF SetTypes, FilesStay
  <2>2. Doings' /\ FixedRules' /\ TakenWhole
    BY <1>1, <1>2, <1>8 DEF Doings, FixedRules, TakenWhole
  <2>3. Current'
    <3>1. \A x \in Layers \ todo' : Due(x)' \/ (read'[x] = file'[x].says /\ file'[x] # Broken)
      BY <1>3, <1>5, <1>6, <1>8
    <3>2. stage' = "watching" => Due("base")' \/ file'["base"].says # Empty
      BY <1>1, <1>3, <1>6, <1>8 DEF Current
    <3>3. QED
      BY <3>1, <3>2 DEF Current
  <2>4. Settled'
    BY <1>1, <1>2, <1>8 DEF Settled
  <2>5. QED
    BY <1>3, <2>1, <2>2, <2>3, <2>4
<1>9. CASE /\ ~Unreadable(l) /\ todo = {l}
           /\ live' = Effective(texts) /\ Rests
           /\ stage' = IF stage = "down" THEN "loaded" ELSE stage
  <2>1. Effective(texts) \in Contents /\ \A k \in Fixed : Effective(texts)[k] = EnvironmentSays
    BY <1>4, EffectiveFacts
  <2>2. SetTypes'
    BY <1>1, <1>3, <1>9, <2>1, SetBounds DEF SetTypes, FilesStay, Rests
  <2>3. Doings' /\ FixedRules' /\ Current'
    BY <1>1, <1>2, <1>9, <2>1 DEF Doings, FixedRules, Current, Rests
  <2>4. (\E x \in Layers : Due(x)) \/ (texts = Texts /\ \A x \in Layers : file[x] # Broken)
    <3>1. \A x \in Layers : Due(x) \/ (texts[x] = file[x].says /\ file[x] # Broken)
      BY <1>5, <1>9
    <3>2. (\A x \in Layers : texts[x] = file[x].says) => texts = Texts
      BY <1>4 DEF Texts
    <3>3. QED
      BY <3>1, <3>2
  <2>5. CASE stage = "down"
    <3>1. (\E x \in Layers : Due(x)) => missed
      BY <2>5 DEF Due
    <3>2. stage' = "loaded" /\ (missed' \/ Agrees')
      BY <1>1, <1>3, <1>9, <2>4, <2>5, <3>1 DEF Agrees
    <3>3. QED
      BY <1>3, <2>2, <2>3, <2>5, <3>2 DEF Settled, TakenWhole
  <2>6. CASE stage = "watching"
    <3>1. stage' = stage /\ doing' = "rest"
      BY <1>9, <2>6 DEF Rests
    <3>2. (\E x \in Layers : Due(x)) \/ (Reloadable /\ live' = Effective(Texts))
      BY <1>1, <1>9, <2>4, <2>6, SetBounds DEF Current, Reloadable
    <3>3. (\E x \in Layers : Due(x)) => stamp # mtimes \/ missed
      BY DEF Due
    <3>4. Settled'
      BY <1>3, <1>6, <3>1, <3>2, <2>6 DEF Settled, Agrees
    <3>5. QED
      BY <1>3, <2>2, <2>3, <3>2, <3>3, <3>4 DEF TakenWhole
  <2>7. QED
    BY <1>2, <2>5, <2>6 DEF SetTypes
<1>10. QED
  BY <1>7, <1>8, <1>9 DEF ReadFile

\* A look at a file: what was in effect at the first look still is, or a change is missed.
LEMMA StatKeeps == SetIInv /\ Stat => SetIInv' /\ TakenWhole
<1> SUFFICES ASSUME SetIInv, Stat PROVE SetIInv' /\ TakenWhole
  OBVIOUS
<1> USE DEF SetIInv
<1> DEFINE l == First(todo)
           now == IF doing = "stat" /\ Changed(l) THEN "seen" ELSE doing
<1>1. /\ doing \in {"first", "stat", "seen"} /\ FilesStay /\ read' = read /\ live' = live
      /\ saves' = saves /\ missed' = missed
      /\ mtimes' = [mtimes EXCEPT ![l] = stamp[l]] /\ todo' = todo \ {l}
      /\ IF todo # {l} THEN doing' = now /\ stage' = stage
         ELSE doing' = (IF now = "seen" THEN "check" ELSE "rest") /\ stage' = "watching"
  BY DEF Stat
<1>2. l \in todo /\ l \in Layers
  BY <1>1, FirstIsOne DEF SetTypes, Doings
<1> HIDE DEF l
<1>3. /\ mtimes' \in [Layers -> Nat]
      /\ \A x \in Layers : mtimes'[x] \in {0, mtimes[x], stamp[x]}
  BY <1>1, <1>2 DEF SetTypes
<1>4. Timed' /\ Texts' = Texts /\ (Reloadable' <=> Reloadable) /\ file' = file /\ stamp' = stamp
  BY <1>1, <1>3, FilesHold
<1>5. SetTypes'
  BY <1>1, <1>3, <1>4 DEF SetTypes, FilesStay
<1>6. Doings'
  BY <1>1, <1>2 DEF SetTypes, Doings
<1>7. FixedRules' /\ TakenWhole
  BY <1>1 DEF FixedRules, TakenWhole, Doings
<1>8. Current'
  BY <1>1 DEF Current
<1>9. Agrees' <=> Agrees
  BY <1>1, <1>4 DEF Agrees
<1>10. Settled'
  <2>1. CASE doing = "first"
    <3>1. stage = "loaded" /\ (Agrees \/ missed)
      BY <2>1 DEF Doings, Settled
    <3>2. QED
      BY <1>1, <1>2, <1>9, <3>1 DEF Settled, Due
  <2>2. CASE doing = "stat" /\ ~Changed(l)
    <3>1. mtimes' = mtimes /\ stage' = stage /\ stage = "watching"
      BY <1>1, <1>2, <2>2 DEF Changed, SetTypes, Doings
    <3>2. Agrees \/ ~Reloadable \/ \E x \in Layers : Due(x)
      BY <2>2, <3>1 DEF Settled
    <3>3. \A x : Due(x)' <=> Due(x)
      BY <1>1, <1>4, <3>1 DEF Due
    <3>4. QED
      BY <1>4, <1>9, <3>1, <3>2, <3>3 DEF Settled
  <2>3. CASE doing = "seen" \/ (doing = "stat" /\ Changed(l))
    <3>1. doing' \in {"seen", "check"} /\ stage' = "watching"
      BY <1>1, <2>3 DEF Doings
    <3>2. QED
      BY <3>1 DEF Settled
  <2>4. QED
    BY <1>1, <2>1, <2>2, <2>3
<1>11. QED
  BY <1>4, <1>5, <1>6, <1>7, <1>8, <1>10

LEMMA EndsKeepsSettings == SetIInv /\ Ends => SetIInv' /\ TakenWhole
<1> SUFFICES ASSUME SetIInv, Ends PROVE SetIInv' /\ TakenWhole
  OBVIOUS
<1> USE DEF SetIInv
<1>1. /\ FilesStay /\ saves' = saves /\ stage' = "down" /\ doing' = "rest" /\ todo' = {}
      /\ read' = Unread /\ live' = Empty /\ mtimes' = [l \in Layers |-> 0] /\ missed' = FALSE
  BY DEF Ends, Rests
<1>2. Timed' /\ file' = file /\ stamp' = stamp
  BY <1>1, FilesHold
<1>3. SetTypes'
  BY <1>1, <1>2, SetBounds DEF SetTypes, FilesStay
<1>4. Doings' /\ FixedRules' /\ Current' /\ Settled' /\ TakenWhole
  BY <1>1 DEF Doings, FixedRules, Current, Settled, TakenWhole
<1>5. QED
  BY <1>2, <1>3, <1>4

\* A file is written or removed: its change is due, or missed.
LEMMA BecomesKeeps ==
    ASSUME SetIInv, NEW l \in Layers, NEW c \in Files, Becomes(l, c), edits' \in Nat, saves' \in Nat,
           UNCHANGED <<doing, todo, read>> \/ (doing = "merge" /\ Rests)
    PROVE  SetIInv' /\ TakenWhole
<1> USE DEF SetIInv
<1>1. /\ file' = [file EXCEPT ![l] = c] /\ clock' = clock + 1
      /\ stamp' = [stamp EXCEPT ![l] = IF c = Missing THEN 0 ELSE clock + 1]
      /\ missed' = (missed \/ stage = "loaded" \/ (stage = "down" /\ doing = "load")
                           \/ (c = Missing /\ mtimes[l] = 0))
      /\ UNCHANGED <<stage, mtimes, live>>
  BY DEF Becomes
<1>2. todo' \subseteq Layers /\ read' \in [Layers -> Contents]
  <2>1. CASE UNCHANGED <<doing, todo, read>>
    BY <2>1 DEF SetTypes
  <2>2. CASE Rests
    BY <2>2, SetBounds DEF Rests
  <2>3. QED
    BY <2>1, <2>2
<1>3. SetTypes'
  <2>1. missed' \in BOOLEAN
    BY <1>1, Zenon DEF SetTypes
  <2>2. file' \in [Layers -> Files] /\ clock' \in Nat \ {0}
    BY <1>1 DEF SetTypes
  <2>3. stamp' \in [Layers -> Nat]
    BY <1>1 DEF SetTypes
  <2>4. QED
    BY <1>1, <1>2, <2>1, <2>2, <2>3 DEF SetTypes
<1>4. Timed'
  BY <1>1 DEF SetTypes, Timed
<1>5. Doings'
  BY <1>1 DEF Doings, Rests
<1>6. FixedRules' /\ TakenWhole
  BY <1>1 DEF FixedRules, TakenWhole
<1>7. stage = "watching" => Due(l)'
  <2>1. stamp'[l] = (IF c = Missing THEN 0 ELSE clock + 1) /\ mtimes'[l] = mtimes[l]
    BY <1>1 DEF SetTypes
  <2>2. mtimes[l] <= clock /\ clock \in Nat /\ mtimes[l] \in Nat
    BY DEF SetTypes, Timed
  <2>3. c = Missing /\ mtimes[l] = 0 => missed'
    BY <1>1
  <2>4. mtimes'[l] # stamp'[l] \/ missed'
    BY <2>1, <2>2, <2>3
  <2>5. QED
    BY <1>1, <2>4 DEF Due
<1>8. \A x \in Layers : x # l => (Due(x) => Due(x)') /\ file'[x] = file[x]
  BY <1>1 DEF Due, SetTypes
<1>9. Due(l) => Due(l)'
  BY <1>1, <1>7 DEF Due
<1>10. Current'
  <2>1. CASE doing' = "load"
    <3>1. doing = "load" /\ todo' = todo /\ read' = read /\ stage \in {"down", "watching"}
      BY <2>1 DEF Rests, SetTypes, Doings
    <3>2. stage = "down" => missed'
      BY <1>1, <3>1
    <3>3. Due(l)'
      BY <1>1, <1>7, <3>1, <3>2 DEF Due
    <3>4. \A x \in Layers \ todo' : Due(x)' \/ (read'[x] = file'[x].says /\ file'[x] # Broken)
      BY <1>8, <3>1, <3>3 DEF Current
    <3>5. stage' = "watching" => Due("base")' \/ file'["base"].says # Empty
      BY <1>1, <1>8, <3>1, <3>3, SetBounds DEF Current
    <3>6. QED
      BY <3>4, <3>5 DEF Current
  <2>2. CASE doing' # "load"
    BY <2>2 DEF Current
  <2>3. QED
    BY <2>1, <2>2
<1>11. Settled'
  BY <1>1, <1>7 DEF Settled
<1>12. QED
  BY <1>3, <1>4, <1>5, <1>6, <1>10, <1>11

LEMMA EditKeeps ==
    ASSUME SetIInv, NEW l \in Layers, NEW c \in Files, Edit(l, c) PROVE SetIInv' /\ TakenWhole
<1>1. Becomes(l, c) /\ edits' = edits + 1 /\ UNCHANGED <<doing, todo, read, saves>>
  BY DEF Edit
<1>2. edits' \in Nat /\ saves' \in Nat
  BY <1>1 DEF SetIInv, SetTypes
<1>3. QED
  BY <1>1, <1>2, BecomesKeeps

LEMMA ReplaceKeeps == SetIInv /\ PutReplaces => SetIInv' /\ TakenWhole
<1> SUFFICES ASSUME SetIInv, PutReplaces PROVE SetIInv' /\ TakenWhole
  OBVIOUS
<1>1. doing = "merge" /\ Rests /\ saves' = saves /\ stage = "watching"
  BY DEF PutReplaces, SetIInv, Doings
<1>2. ASSUME NEW k \in Keys, NEW v \in Values \union {0}, edits' = edits,
             Becomes("user", Whole([read["user"] EXCEPT ![k] = v]))
      PROVE  SetIInv' /\ TakenWhole
  <2>1. "user" \in Layers /\ read["user"] \in Contents
    BY SetBounds DEF SetIInv, SetTypes
  <2>2. [read["user"] EXCEPT ![k] = v] \in Contents
    BY <2>1 DEF Contents
  <2>3. Whole([read["user"] EXCEPT ![k] = v]) \in Files
    BY <2>2, FileFacts
  <2>4. edits' \in Nat /\ saves' \in Nat
    BY <1>1, <1>2 DEF SetIInv, SetTypes
  <2>5. QED
    BY <1>1, <1>2, <2>1, <2>3, <2>4, BecomesKeeps
<1>3. CASE FilesStay /\ UNCHANGED <<stage, mtimes, live, missed>>
  <2> USE DEF SetIInv
  <2>1. Timed' /\ Texts' = Texts /\ (Reloadable' <=> Reloadable) /\ file' = file /\ stamp' = stamp
    BY <1>3, FilesHold DEF SetTypes
  <2>2. SetTypes'
    BY <1>1, <1>3, <2>1, SetBounds DEF SetTypes, FilesStay, Rests
  <2>3. Doings' /\ FixedRules' /\ Current' /\ TakenWhole
    BY <1>1, <1>3 DEF Doings, FixedRules, Current, TakenWhole, Rests
  <2>4. Settled'
    BY <1>1, <1>3, <2>1 DEF Settled, Agrees, Due
  <2>5. QED
    BY <2>1, <2>2, <2>3, <2>4
<1>4. QED
  BY <1>2, <1>3 DEF PutReplaces

LEMMA SettingsKeep ==
    SetIInv /\ [SettingsNext]_settingsVars => SetIInv' /\ (UNCHANGED settingsVars \/ TakenWhole)
<1> SUFFICES ASSUME SetIInv, [SettingsNext]_settingsVars
             PROVE  SetIInv' /\ (UNCHANGED settingsVars \/ TakenWhole)
  OBVIOUS
<1>1. CASE SettingsNext
  BY <1>1, BeginsKeep, CheckKeeps, ReadKeeps, StatKeeps, EndsKeepsSettings, EditKeeps, ReplaceKeeps
     DEF SettingsNext
<1>2. CASE UNCHANGED settingsVars
  BY <1>2 DEF settingsVars, SetIInv, SetTypes, Doings, Timed, FixedRules, Current, Settled, Due, Agrees,
              Texts, Reloadable
<1>3. QED
  BY <1>1, <1>2

LEMMA SettingsInvariance == SettingsSpec => []SetIInv
<1>1. SetIInv /\ [SettingsNext]_settingsVars => SetIInv'
  BY SettingsKeep
<1>2. QED
  BY <1>1, InitSettings, PTL DEF SettingsSpec

(* Settings that are not what the files say are noticed at the next look, and *)
(* a running program takes the files as they are together, or mixes a change  *)
(* in that is noticed (settings.py:372-442, config_watch.py:88-113).          *)
THEOREM StaleSettingsAreNoticed == SettingsSpec => SettingsHold
<1>1. SetIInv => SettingsTypeOK /\ StaleIsNoticed
  <2>1. SetIInv => SettingsTypeOK
    BY DEF SetIInv, SetTypes, Doings, Timed, FixedRules, SettingsTypeOK
  <2>2. SetIInv => StaleIsNoticed
    BY DEF SetIInv, Settled, Agrees, Due, StaleIsNoticed
  <2>3. QED
    BY <2>1, <2>2
<1>2. SetIInv /\ [SettingsNext]_settingsVars =>
        [live' # live /\ stage = "watching" /\ stage' = "watching" =>
           (Reloadable /\ live' = Effective(Texts)) \/ stamp # mtimes \/ missed]_settingsVars
  BY SettingsKeep DEF TakenWhole
<1>3. QED
  BY SettingsInvariance, <1>1, <1>2, PTL DEF SettingsSpec, SettingsHold, TakesWhole

-----------------------------------------------------------------------------
(***************************************************************************)
(* A cleanup deletes the oldest rows, no more metrics than the limit asks  *)
(* for when one runs at a time, and logs last, for any retention, limits,  *)
(* numbers of rows and callers, whatever is written meanwhile and          *)
(* whichever step fails. How many rows there are is the size of a set of   *)
(* numbered rows. A cut is of the past and nothing older stays behind it   *)
(* (CutIsClean); what a caller alone has counted is still too much (Exact, *)
(* OneAtATime); the tables before the one that is trimmed by size hold     *)
(* nothing older than the cleanup (LogsWait).                              *)
(***************************************************************************)

CleanupSteps == {"idle", "old logs", "old shell", "old metrics", "count", "cut", "below", "recount",
                 "equal", "size", "vacuum"}
CleanupStates == [step : CleanupSteps, cut : 0 .. LastHour, need : 0 .. MaxInserts, got : BOOLEAN, any : BOOLEAN,
            table : Tables \cup {"end"}, begun : 0 .. LastHour, grew : BOOLEAN]
Holding == [Tables -> [RowTimes -> 0 .. MaxInserts]]

RetTypes ==
    /\ rows \in Holding /\ hour \in RowTimes /\ inserts \in 0 .. MaxInserts /\ failures \in Nat
    /\ alloc \in Nat /\ at \in [Callers -> CleanupStates] /\ together \in BOOLEAN

\* Rows were inserted, none of them in the time to come, and have their pages.
Accounted ==
    /\ \A t \in Tables, s \in RowTimes : rows[t][s] <= inserts /\ (rows[t][s] > 0 => s <= hour)
    /\ Count(Tables) <= inserts /\ Count(Tables) <= alloc

\* A cut is of the past; when it is looked at again nothing older is left.
CutIsClean ==
    \A c \in Callers :
        /\ at[c].cut <= hour /\ at[c].begun <= hour
        /\ at[c].step \in {"cut", "equal"} => at[c].need >= 1
        /\ at[c].step \in {"recount", "equal"} =>
             \A t \in Metrics, s \in RowTimes : s < at[c].cut => rows[t][s] = 0

\* One cleanup at a time deletes what is too much and no more.
Exact(c) ==
    /\ at[c].step \in {"cut", "below", "equal"} => Count(Metrics) >= at[c].need + MaxMetrics
    /\ at[c].step = "below" => Older(Metrics, at[c].cut - 1) < at[c].need
OneAtATime ==
    ~together => /\ \A c \in Callers : Exact(c)
                 /\ \A c, d \in Callers : at[c].step # "idle" /\ at[d].step # "idle" => c = d

\* The tables before the one that is trimmed by size have nothing older than the cleanup.
TrimmedBefore(t) == CASE t = "network" -> {"perf"} [] t = "shell" -> Metrics
               [] t = "logs" -> Tables \ {"logs"} [] OTHER -> {}
Emptied(c) ==
    at[c].step = "size" /\ ~at[c].grew =>
        \A t \in TrimmedBefore(at[c].table), r \in RowTimes : rows[t][r] > 0 => r >= at[c].begun
LogsWait == \A c \in Callers : Emptied(c)

RetIInv == RetTypes /\ Accounted /\ CutIsClean /\ OneAtATime /\ LogsWait

LEMMA RetBounds ==
    /\ Written \subseteq Tables /\ Keep \in [Tables -> Nat] /\ LastHour \in Nat /\ LastHour # 0
    /\ MaxInserts \in Nat /\ MaxFailures \in Nat /\ MaxMetrics \in Nat /\ BatchRows \in Nat /\ BatchRows # 0
    /\ Metrics \subseteq Tables /\ RowTimes \subseteq Nat
BY RetentionAssumption DEF RetentionAssumption, RowTimes, Metrics, Tables

-----------------------------------------------------------------------------
(* How many rows there are *)

AllRows(f, ts, s) == UNION {{x} \X (1 .. f[x[1]][x[2]]) : x \in ts \X (1 .. s)}
HowMany(f, ts, s) == Cardinality(AllRows(f, ts, s))
Lists(S, f, ts, s) ==
    \A y : y \in S <=> \E t \in ts, h \in 1 .. s : \E i \in 1 .. f[t][h] : y = <<<<t, h>>, i>>

LEMMA RowFacts ==
    ASSUME NEW f \in Holding, NEW ts \in SUBSET Tables, NEW s \in Int, s <= LastHour
    PROVE  /\ IsFiniteSet(AllRows(f, ts, s)) /\ Cardinality(AllRows(f, ts, s)) \in Nat
           /\ Lists(AllRows(f, ts, s), f, ts, s)
<1> USE RetBounds
<1>1. \A y : y \in AllRows(f, ts, s) <=>
               \E t \in ts, h \in 1 .. s : \E i \in 1 .. f[t][h] : y = <<<<t, h>>, i>>
  <2>1. ASSUME NEW y, y \in AllRows(f, ts, s)
        PROVE  \E t \in ts, h \in 1 .. s : \E i \in 1 .. f[t][h] : y = <<<<t, h>>, i>>
    <3>1. PICK x \in ts \X (1 .. s) : y \in {x} \X (1 .. f[x[1]][x[2]])
      BY <2>1 DEF AllRows
    <3>2. PICK t \in ts, h \in 1 .. s : x = <<t, h>>
      OBVIOUS
    <3>3. x[1] = t /\ x[2] = h
      BY <3>2
    <3>4. PICK i \in 1 .. f[t][h] : y = <<x, i>>
      BY <3>1, <3>3
    <3>5. QED
      BY <3>2, <3>4
  <2>2. ASSUME NEW t \in ts, NEW h \in 1 .. s, NEW i \in 1 .. f[t][h]
        PROVE  <<<<t, h>>, i>> \in AllRows(f, ts, s)
    <3>1. <<t, h>> \in ts \X (1 .. s) /\ <<<<t, h>>, i>> \in {<<t, h>>} \X (1 .. f[t][h])
      OBVIOUS
    <3>2. QED
      BY <3>1 DEF AllRows
  <2>3. QED
    BY <2>1, <2>2
<1>2. IsFiniteSet((Tables \X RowTimes) \X (1 .. MaxInserts))
  <2>1. IsFiniteSet(Tables)
    <3>1. IsFiniteSet({"perf"}) /\ IsFiniteSet({"network"}) /\ IsFiniteSet({"shell"}) /\ IsFiniteSet({"logs"})
      BY FS_Singleton
    <3>2. IsFiniteSet({"perf"} \cup {"network"}) /\ IsFiniteSet({"shell"} \cup {"logs"})
      BY <3>1, FS_Union
    <3>3. IsFiniteSet(({"perf"} \cup {"network"}) \cup ({"shell"} \cup {"logs"}))
      BY <3>2, FS_Union
    <3>4. Tables = ({"perf"} \cup {"network"}) \cup ({"shell"} \cup {"logs"})
      BY DEF Tables
    <3>5. QED
      BY <3>3, <3>4
  <2>2. IsFiniteSet(RowTimes) /\ IsFiniteSet(1 .. MaxInserts)
    BY FS_Interval DEF RowTimes
  <2>3. QED
    BY <2>1, <2>2, FS_Product
<1>3. AllRows(f, ts, s) \subseteq (Tables \X RowTimes) \X (1 .. MaxInserts)
  <2>1. ASSUME NEW t \in ts, NEW h \in 1 .. s, NEW i \in 1 .. f[t][h]
        PROVE  <<<<t, h>>, i>> \in (Tables \X RowTimes) \X (1 .. MaxInserts)
    <3>1. t \in Tables /\ h \in RowTimes
      BY DEF RowTimes
    <3>2. f[t][h] \in 0 .. MaxInserts
      BY <3>1 DEF Holding
    <3>3. i \in 1 .. MaxInserts
      BY <3>2
    <3>4. QED
      BY <3>1, <3>3
  <2>2. QED
    BY <1>1, <2>1
<1>4. IsFiniteSet(AllRows(f, ts, s)) /\ HowMany(f, ts, s) \in Nat
  BY <1>2, <1>3, FS_Subset, FS_CardinalityType DEF HowMany
<1>5. Lists(AllRows(f, ts, s), f, ts, s)
  BY <1>1 DEF Lists
<1>6. QED
  BY <1>4, <1>5 DEF HowMany

LEMMA AllOfThem == /\ Tables \in SUBSET Tables /\ Metrics \in SUBSET Tables
                   /\ LastHour \in Int /\ LastHour <= LastHour
BY RetBounds

\* Fewer rows, of fewer tables, up to an earlier time.
LEMMA FewerRows ==
    ASSUME NEW f \in Holding, NEW g \in Holding, NEW ts \in SUBSET Tables, NEW us \in SUBSET ts,
           NEW s \in Int, s <= LastHour, NEW r \in Int, r <= s,
           \A t \in us, h \in 1 .. r : g[t][h] <= f[t][h]
    PROVE  HowMany(g, us, r) <= HowMany(f, ts, s)
<1> USE RetBounds
<1>1. AllRows(g, us, r) \subseteq AllRows(f, ts, s)
  <2>1. ASSUME NEW t \in us, NEW h \in 1 .. r, NEW i \in 1 .. g[t][h]
        PROVE  t \in ts /\ h \in 1 .. s /\ i \in 1 .. f[t][h]
    <3>1. t \in Tables /\ h \in RowTimes /\ h \in 1 .. s
      BY DEF RowTimes
    <3>2. f[t][h] \in Nat /\ g[t][h] \in Nat /\ g[t][h] <= f[t][h]
      BY <3>1 DEF Holding
    <3>3. QED
      BY <3>1, <3>2
  <2>2. us \in SUBSET Tables /\ r <= LastHour
    OBVIOUS
  <2>3. Lists(AllRows(g, us, r), g, us, r)
    BY <2>2, RowFacts, Zenon
  <2>4. Lists(AllRows(f, ts, s), f, ts, s)
    BY RowFacts, Zenon
  <2>5. QED
    BY <2>1, <2>3, <2>4 DEF Lists
<1>2. IsFiniteSet(AllRows(f, ts, s))
  BY RowFacts
<1>3. QED
  BY <1>1, <1>2, FS_Subset DEF HowMany

\* A row more.
LEMMA OneMoreRow ==
    ASSUME NEW f \in Holding, NEW g \in Holding, NEW t \in Tables, NEW h \in RowTimes,
           g = [f EXCEPT ![t][h] = @ + 1]
    PROVE  HowMany(g, Tables, LastHour) = HowMany(f, Tables, LastHour) + 1
<1> USE RetBounds
<1> DEFINE new == <<<<t, h>>, f[t][h] + 1>>
<1>1. /\ f[t][h] \in Nat /\ g[t][h] = f[t][h] + 1
      /\ \A u \in Tables, k \in RowTimes : u # t \/ k # h => g[u][k] = f[u][k]
  BY DEF Holding
<1>2. RowTimes = 1 .. LastHour
  BY DEF RowTimes
<1> DEFINE old == AllRows(f, Tables, LastHour)
           more == AllRows(g, Tables, LastHour)
<1>3. IsFiniteSet(old) /\ Lists(old, f, Tables, LastHour) /\ Lists(more, g, Tables, LastHour)
  BY RowFacts, AllOfThem, Zenon
<1> HIDE DEF old, more
<1>4. /\ \A y : y \in old <=> \E u \in Tables, k \in RowTimes : \E i \in 1 .. f[u][k] : y = <<<<u, k>>, i>>
      /\ \A y : y \in more <=> \E u \in Tables, k \in RowTimes : \E i \in 1 .. g[u][k] : y = <<<<u, k>>, i>>
  BY <1>2, <1>3 DEF Lists
<1>5. new \notin old
  <2>1. ASSUME NEW u \in Tables, NEW k \in RowTimes, NEW i \in 1 .. f[u][k], new = <<<<u, k>>, i>>
        PROVE  FALSE
    <3>1. u = t /\ k = h /\ i = f[t][h] + 1
      BY <2>1
    <3>2. QED
      BY <1>1, <3>1
  <2>2. QED
    BY <1>4, <2>1
<1>6. more = old \cup {new}
  <2>1. ASSUME NEW u \in Tables, NEW k \in RowTimes, NEW i \in 1 .. g[u][k]
        PROVE  i \in 1 .. f[u][k] \/ (u = t /\ k = h /\ i = f[t][h] + 1)
    <3>1. f[u][k] \in Nat /\ g[u][k] \in Nat
      BY DEF Holding
    <3>2. QED
      BY <1>1, <3>1
  <2>2. more \subseteq old \cup {new}
    BY <1>4, <2>1
  <2>3. ASSUME NEW u \in Tables, NEW k \in RowTimes, NEW i \in 1 .. f[u][k]
        PROVE  i \in 1 .. g[u][k]
    <3>1. f[u][k] \in Nat /\ g[u][k] \in Nat
      BY DEF Holding
    <3>2. QED
      BY <1>1, <3>1
  <2>4. f[t][h] + 1 \in 1 .. g[t][h]
    BY <1>1
  <2>5. old \cup {new} \subseteq more
    BY <1>4, <2>3, <2>4
  <2>6. QED
    BY <2>2, <2>5
<1>7. Cardinality(more) = Cardinality(old) + 1
  BY <1>3, <1>5, <1>6, FS_AddElement
<1>8. QED
  BY <1>7 DEF HowMany, old, more

\* What is left when the rows before a time are deleted.
LEMMA BelowLeaves ==
    ASSUME NEW f \in Holding, NEW g \in Holding, NEW ts \in SUBSET Tables, NEW cut \in 0 .. LastHour,
           \A t \in ts, h \in RowTimes : h >= cut => g[t][h] = f[t][h]
    PROVE  HowMany(g, ts, LastHour) >= HowMany(f, ts, LastHour) - HowMany(f, ts, cut - 1)
<1> USE RetBounds
<1> DEFINE all == AllRows(f, ts, LastHour)
           old == AllRows(f, ts, cut - 1)
           kept == AllRows(g, ts, LastHour)
<1>1. /\ IsFiniteSet(all) /\ Cardinality(all) \in Nat
      /\ Lists(all, f, ts, LastHour)
  BY RowFacts, AllOfThem, Zenon
<1>2. /\ IsFiniteSet(old) /\ Cardinality(old) \in Nat
      /\ Lists(old, f, ts, cut - 1)
  <2>1. cut - 1 \in Int /\ cut - 1 <= LastHour
    OBVIOUS
  <2>2. QED
    BY <2>1, RowFacts, Zenon
<1>3. /\ IsFiniteSet(kept) /\ Cardinality(kept) \in Nat
      /\ Lists(kept, g, ts, LastHour)
  BY RowFacts, AllOfThem, Zenon
<1>4. all \subseteq kept \cup old
  <2>1. ASSUME NEW t \in ts, NEW h \in 1 .. LastHour, NEW i \in 1 .. f[t][h]
        PROVE  h \in 1 .. cut - 1 \/ i \in 1 .. g[t][h]
    BY DEF RowTimes
  <2> HIDE DEF all, old, kept
  <2>2. QED
    BY <1>1, <1>2, <1>3, <2>1 DEF Lists
<1> HIDE DEF all, old, kept
<1>5. /\ IsFiniteSet(kept \cup old)
      /\ Cardinality(kept \cup old) = Cardinality(kept) + Cardinality(old) - Cardinality(kept \cap old)
  BY <1>2, <1>3, FS_Union
<1>6. Cardinality(kept \cap old) \in Nat
  BY <1>2, <1>3, FS_Intersection, FS_CardinalityType
<1>7. Cardinality(all) <= Cardinality(kept \cup old)
  BY <1>4, <1>5, FS_Subset
<1>8. Cardinality(kept) >= Cardinality(all) - Cardinality(old)
  BY <1>1, <1>2, <1>3, <1>5, <1>6, <1>7
<1>9. QED
  BY <1>8 DEF HowMany, all, old, kept

LEMMA NumberedRows ==
    ASSUME NEW x, NEW a \in Nat, NEW b \in Nat, a <= b
    PROVE  IsFiniteSet({x} \X (a + 1 .. b)) /\ Cardinality({x} \X (a + 1 .. b)) = b - a
<1>1. IsFiniteSet(a + 1 .. b) /\ Cardinality(a + 1 .. b) = b - a
  <2>1. a + 1 \in Int /\ b \in Int
    OBVIOUS
  <2>2. /\ IsFiniteSet(a + 1 .. b)
        /\ Cardinality(a + 1 .. b) = IF a + 1 > b THEN 0 ELSE b - (a + 1) + 1
    BY <2>1, FS_Interval
  <2>3. QED
    BY <2>1, <2>2
<1>2. IsFiniteSet({x}) /\ Cardinality({x}) = 1
  BY FS_Singleton
<1>3. /\ IsFiniteSet({x} \X (a + 1 .. b))
      /\ Cardinality({x} \X (a + 1 .. b)) = Cardinality({x}) * Cardinality(a + 1 .. b)
  BY <1>1, <1>2, FS_Product
<1>4. QED
  BY <1>1, <1>2, <1>3

\* What is left when p rows of one table and q of another are deleted at one time.
LEMMA EqualLeaves ==
    ASSUME NEW f \in Holding, NEW g \in Holding, NEW s \in RowTimes, NEW p \in Nat, NEW q \in Nat,
           f["perf"][s] = g["perf"][s] + p, f["network"][s] = g["network"][s] + q,
           \A t \in Metrics, h \in RowTimes : h # s => g[t][h] = f[t][h]
    PROVE  HowMany(g, Metrics, LastHour) >= HowMany(f, Metrics, LastHour) - (p + q)
<1> USE RetBounds
<1> DEFINE all == AllRows(f, Metrics, LastHour)
           kept == AllRows(g, Metrics, LastHour)
           P == {<<"perf", s>>} \X (g["perf"][s] + 1 .. f["perf"][s])
           Q == {<<"network", s>>} \X (g["network"][s] + 1 .. f["network"][s])
<1>1. /\ IsFiniteSet(all) /\ Cardinality(all) \in Nat
      /\ Lists(all, f, Metrics, LastHour)
  BY RowFacts, AllOfThem, Zenon
<1>2. /\ IsFiniteSet(kept) /\ Cardinality(kept) \in Nat
      /\ Lists(kept, g, Metrics, LastHour)
  BY RowFacts, AllOfThem, Zenon
<1>3. \A t \in Metrics, h \in RowTimes : f[t][h] \in Nat /\ g[t][h] \in Nat
  BY DEF Holding
<1>4. "perf" \in Metrics /\ "network" \in Metrics
  BY DEF Metrics
<1>5. /\ IsFiniteSet(P) /\ Cardinality(P) = p
      /\ IsFiniteSet(Q) /\ Cardinality(Q) = q
  <2>1. /\ g["perf"][s] \in Nat /\ f["perf"][s] \in Nat /\ g["perf"][s] <= f["perf"][s]
        /\ g["network"][s] \in Nat /\ f["network"][s] \in Nat /\ g["network"][s] <= f["network"][s]
        /\ f["perf"][s] - g["perf"][s] = p /\ f["network"][s] - g["network"][s] = q
    BY <1>3, <1>4
  <2>2. PICK a, b : a = g["perf"][s] /\ b = f["perf"][s]
    OBVIOUS
  <2>3. IsFiniteSet(P) /\ Cardinality(P) = f["perf"][s] - g["perf"][s]
    <3>1. a \in Nat /\ b \in Nat /\ a <= b
      BY <2>1, <2>2
    <3>2. IsFiniteSet({<<"perf", s>>} \X (a + 1 .. b)) /\ Cardinality({<<"perf", s>>} \X (a + 1 .. b)) = b - a
      BY <3>1, NumberedRows, Zenon
    <3>3. QED
      BY <2>2, <3>2, Zenon
  <2>4. PICK c, d : c = g["network"][s] /\ d = f["network"][s]
    OBVIOUS
  <2>5. IsFiniteSet(Q) /\ Cardinality(Q) = f["network"][s] - g["network"][s]
    <3>1. c \in Nat /\ d \in Nat /\ c <= d
      BY <2>1, <2>4
    <3>2. IsFiniteSet({<<"network", s>>} \X (c + 1 .. d)) /\ Cardinality({<<"network", s>>} \X (c + 1 .. d)) = d - c
      BY <3>1, NumberedRows, Zenon
    <3>3. QED
      BY <2>4, <3>2, Zenon
  <2> HIDE DEF P, Q
  <2>6. QED
    BY <2>1, <2>3, <2>5
<1>6. all \subseteq kept \cup (P \cup Q)
  <2>1. ASSUME NEW t \in Metrics, NEW h \in 1 .. LastHour, NEW i \in 1 .. f[t][h]
        PROVE  <<<<t, h>>, i>> \in kept \cup (P \cup Q)
    <3>1. h \in RowTimes
      BY DEF RowTimes
    <3>2. CASE h # s \/ i <= g[t][h]
      <4>1. i \in 1 .. g[t][h]
        BY <1>3, <3>1, <3>2
      <4> HIDE DEF kept
      <4>2. QED
        BY <1>2, <4>1 DEF Lists
    <3>3. CASE h = s /\ i > g[t][h]
      <4>1. i \in g[t][s] + 1 .. f[t][s]
        BY <1>3, <3>1, <3>3
      <4>2. t = "perf" \/ t = "network"
        BY DEF Metrics
      <4>3. QED
        BY <3>3, <4>1, <4>2
    <3>4. QED
      BY <1>3, <3>1, <3>2, <3>3
  <2> HIDE DEF all, kept, P, Q
  <2>2. QED
    BY <1>1, <2>1 DEF Lists
<1> HIDE DEF all, kept, P, Q
<1>7. /\ IsFiniteSet(P \cup Q) /\ Cardinality(P \cup Q) <= p + q /\ Cardinality(P \cup Q) \in Nat
  <2>1. /\ IsFiniteSet(P \cup Q)
        /\ Cardinality(P \cup Q) = Cardinality(P) + Cardinality(Q) - Cardinality(P \cap Q)
    BY <1>5, FS_Union
  <2>2. Cardinality(P \cap Q) \in Nat
    BY <1>5, FS_Intersection, FS_CardinalityType
  <2>3. Cardinality(P \cup Q) \in Nat
    BY <2>1, FS_CardinalityType
  <2>4. QED
    BY <1>5, <2>1, <2>2, <2>3
<1>8. /\ IsFiniteSet(kept \cup (P \cup Q))
      /\ Cardinality(kept \cup (P \cup Q))
           = Cardinality(kept) + Cardinality(P \cup Q) - Cardinality(kept \cap (P \cup Q))
  BY <1>2, <1>7, FS_Union
<1>9. Cardinality(kept \cap (P \cup Q)) \in Nat
  BY <1>2, <1>7, FS_Intersection, FS_CardinalityType
<1>10. Cardinality(all) <= Cardinality(kept \cup (P \cup Q))
  BY <1>6, <1>8, FS_Subset
<1>11. Cardinality(kept) >= Cardinality(all) - (p + q)
  BY <1>1, <1>2, <1>7, <1>8, <1>9, <1>10
<1>12. QED
  BY <1>11 DEF HowMany, all, kept

\* Counting, in the words of the module.
LEMMA CountFacts ==
    /\ \A ts, s : Older(ts, s) = HowMany(rows, ts, s)
    /\ \A ts : Count(ts) = HowMany(rows, ts, LastHour)
    /\ \A ts : Count(ts)' = HowMany(rows', ts, LastHour)
BY DEF Count, Older, RowsOf, HowMany, AllRows

LEMMA NoRows ==
    ASSUME NEW f \in Holding, NEW ts \in SUBSET Tables, NEW s \in Int, s <= LastHour
    PROVE  HowMany(f, ts, s) = 0 <=> \A t \in ts, h \in 1 .. s : f[t][h] = 0
<1>1. /\ IsFiniteSet(AllRows(f, ts, s)) /\ Lists(AllRows(f, ts, s), f, ts, s)
  BY RowFacts, Zenon
<1> DEFINE all == AllRows(f, ts, s)
<1> HIDE DEF all
<1>2. /\ IsFiniteSet(all)
      /\ \A y : y \in all <=> \E t \in ts, h \in 1 .. s : \E i \in 1 .. f[t][h] : y = <<<<t, h>>, i>>
  BY <1>1 DEF all, Lists
<1>3. \A t \in ts, h \in 1 .. s : f[t][h] \in Nat
  BY RetBounds DEF Holding, RowTimes
<1>4. ASSUME NEW t \in ts, NEW h \in 1 .. s, f[t][h] # 0
      PROVE  <<<<t, h>>, 1>> \in all
  <2>1. 1 \in 1 .. f[t][h]
    BY <1>3, <1>4
  <2>2. QED
    BY <1>2, <2>1
<1>5. ASSUME \A t \in ts, h \in 1 .. s : f[t][h] = 0
      PROVE  all = {}
  <2>1. \A t \in ts, h \in 1 .. s : 1 .. f[t][h] = {}
    BY <1>5
  <2>2. QED
    BY <1>2, <2>1
<1>6. all = {} <=> \A t \in ts, h \in 1 .. s : f[t][h] = 0
  BY <1>4, <1>5
<1>7. Cardinality(all) = 0 <=> all = {}
  BY <1>2, FS_EmptySet
<1>8. QED
  BY <1>6, <1>7 DEF HowMany, all

\* The first time with n rows is there, and is past.
LEMMA NthFacts ==
    ASSUME RetTypes, Accounted, NEW ts \in SUBSET Tables, NEW n \in Nat, n >= 1, n <= Count(ts)
    PROVE  /\ Nth(ts, n) \in RowTimes /\ Nth(ts, n) <= hour /\ Older(ts, Nth(ts, n) - 1) < n
<1> USE RetBounds
<1> DEFINE S == {s \in RowTimes : Older(ts, s) >= n}
<1>1. LastHour \in S /\ S \in SUBSET Nat
  BY DEF Count, RowTimes
<1>2. Min(S) \in S /\ \A s \in S : Min(S) <= s
  BY <1>1, MinIsLeast
<1>3. \A s \in RowTimes : Older(ts, s) \in Nat
  <2>1. ASSUME NEW s \in RowTimes
        PROVE  Older(ts, s) \in Nat
    <3>1. s \in Int /\ s <= LastHour
      BY DEF RowTimes
    <3>2. Cardinality(AllRows(rows, ts, s)) \in Nat
      BY <3>1, RowFacts DEF RetTypes
    <3>3. QED
      BY <3>2, CountFacts DEF HowMany
  <2>2. QED
    BY <2>1
<1>4. \E s \in RowTimes : Older(ts, s) >= n /\ \A r \in 1 .. (s - 1) : Older(ts, r) < n
  <2>1. PICK m \in S : \A s \in S : m <= s
    BY <1>2
  <2>2. ASSUME NEW r \in 1 .. (m - 1)
        PROVE  Older(ts, r) < n
    <3>1. r \in RowTimes /\ ~(m <= r)
      BY DEF RowTimes
    <3>2. ~(Older(ts, r) >= n)
      BY <2>1, <3>1
    <3>3. QED
      BY <1>3, <3>1, <3>2
  <2>3. QED
    BY <2>2
<1>5. PICK s : /\ s = Nth(ts, n) /\ s \in RowTimes /\ Older(ts, s) >= n
               /\ \A r \in 1 .. (s - 1) : Older(ts, r) < n
  BY <1>4, Zenon DEF Nth
<1>6. s - 1 \in Int /\ s - 1 <= LastHour /\ s \in Int /\ s <= LastHour
  BY <1>5 DEF RowTimes
<1>7. Older(ts, s - 1) < n
  <2>1. CASE s - 1 \in 1 .. (s - 1)
    BY <1>5, <2>1
  <2>2. CASE s - 1 \notin 1 .. (s - 1)
    <3>1. 1 .. (s - 1) = {}
      BY <1>6, <2>2
    <3>2. HowMany(rows, ts, s - 1) = 0
      BY <1>6, <3>1, NoRows DEF RetTypes
    <3>3. QED
      BY <3>2, CountFacts
  <2>3. QED
    BY <2>1, <2>2
<1>8. s <= hour
  <2> SUFFICES ASSUME ~(s <= hour) PROVE FALSE
    OBVIOUS
  <2>1. hour \in RowTimes /\ hour < s /\ hour \in 1 .. (s - 1)
    BY <1>6 DEF RetTypes, RowTimes
  <2>2. Older(ts, hour) < n
    BY <1>5, <2>1
  <2>3. HowMany(rows, ts, s) <= HowMany(rows, ts, hour)
    <3>1. AllRows(rows, ts, s) \subseteq AllRows(rows, ts, hour)
      <4>1. ASSUME NEW t \in ts, NEW h \in 1 .. s, NEW i \in 1 .. rows[t][h]
            PROVE  h \in 1 .. hour
        <5>1. t \in Tables /\ h \in RowTimes /\ rows[t][h] \in Nat
          BY <1>6 DEF RetTypes, Holding, RowTimes
        <5>2. rows[t][h] > 0
          BY <5>1
        <5>3. h <= hour
          BY <5>1, <5>2 DEF Accounted
        <5>4. QED
          BY <2>1, <5>1, <5>3 DEF RowTimes
      <4>2. Lists(AllRows(rows, ts, s), rows, ts, s)
        BY <1>6, RowFacts, Zenon DEF RetTypes
      <4>3. hour \in Int /\ hour <= LastHour
        BY <2>1 DEF RowTimes
      <4>4. Lists(AllRows(rows, ts, hour), rows, ts, hour)
        BY <4>3, RowFacts, Zenon DEF RetTypes
      <4>5. QED
        BY <4>1, <4>2, <4>4 DEF Lists
    <3>2. IsFiniteSet(AllRows(rows, ts, hour))
      <4>1. hour \in Int /\ hour <= LastHour
        BY <2>1 DEF RowTimes
      <4>2. QED
        BY <4>1, RowFacts DEF RetTypes
    <3>3. QED
      BY <3>1, <3>2, FS_Subset DEF HowMany
  <2>4. Older(ts, s) <= Older(ts, hour)
    BY <2>3, CountFacts
  <2>5. QED
    BY <1>3, <1>5, <2>1, <2>2, <2>4
<1>9. QED
  BY <1>5, <1>7, <1>8
-----------------------------------------------------------------------------
(* Steps *)

\* The three properties of a step.
OldestGo ==
    /\ \A t \in Tables, r, s \in RowTimes : Gone(t, r) /\ StillThere(t, s) => r <= s
    /\ (\E c \in Callers : at[c].step \in {"below", "equal"} /\ at'[c] # at[c]) =>
          \A t, u \in Metrics, r, s \in RowTimes : Gone(t, r) /\ StillThere(u, s) => r <= s
ExactGo ==
    \A c \in Callers : at[c].step \in {"below", "equal"} /\ at'[c] # at[c] /\ rows' # rows /\ ~together
        => Count(Metrics)' >= MaxMetrics
LogsGo ==
    \A s \in RowTimes : Gone("logs", s) /\ s + Keep["logs"] >= hour =>
        \E c \in Callers : /\ at[c].step = "size"
                           /\ ~at[c].grew => \A t \in Tables \ {"logs"}, r \in RowTimes : rows[t][r] > 0 => r >= at[c].begun
GoesWell == OldestGo /\ ExactGo /\ LogsGo

LEMMA NothingGone ==
    ASSUME RetTypes, rows' = rows
    PROVE  GoesWell
<1>1. \A t \in Tables, s \in RowTimes : ~Gone(t, s)
  BY DEF RetTypes, Holding, Gone
<1>2. "logs" \in Tables /\ Metrics \subseteq Tables
  BY DEF Tables, Metrics
<1>3. QED
  BY <1>1, <1>2 DEF GoesWell, OldestGo, ExactGo, LogsGo

\* What a caller carries, and holds.
Own(c) ==
    /\ at[c].cut <= hour /\ at[c].begun <= hour
    /\ at[c].step \in {"cut", "equal"} => at[c].need >= 1
    /\ at[c].step \in {"recount", "equal"} =>
         \A t \in Metrics, s \in RowTimes : s < at[c].cut => rows[t][s] = 0
    /\ ~together => Exact(c)
    /\ Emptied(c)
Alone == ~together => \A c, d \in Callers : at[c].step # "idle" /\ at[d].step # "idle" => c = d

LEMMA RetIInvIs == RetIInv <=> RetTypes /\ Accounted /\ Alone /\ \A c \in Callers : Own(c)
BY Zenon DEF RetIInv, CutIsClean, OneAtATime, LogsWait, Own, Alone

\* Tables hold no more than all of them.
LEMMA CountBounds ==
    ASSUME RetTypes, Accounted, NEW ts \in SUBSET Tables
    PROVE  Count(ts) \in Nat /\ Count(ts) <= MaxInserts
<1>1. Count(ts) \in Nat /\ Count(Tables) \in Nat
  BY RowFacts, AllOfThem, CountFacts DEF RetTypes, HowMany
<1>2. HowMany(rows, ts, LastHour) <= HowMany(rows, Tables, LastHour)
  <2>1. \A t \in ts, h \in 1 .. LastHour : rows[t][h] <= rows[t][h]
    BY RetBounds DEF RetTypes, Holding, RowTimes
  <2>2. ts \in SUBSET Tables /\ Tables \in SUBSET Tables /\ rows \in Holding
    BY DEF RetTypes
  <2>3. QED
    BY <2>1, <2>2, FewerRows, AllOfThem
<1>3. Count(ts) <= Count(Tables) /\ Count(Tables) <= inserts /\ inserts \in 0 .. MaxInserts
  BY <1>2, CountFacts DEF Accounted, RetTypes
<1>4. QED
  BY <1>1, <1>3, RetBounds

LEMMA GoesFacts ==
    ASSUME at \in [Callers -> CleanupStates], NEW c \in Callers, NEW r,
           NEW change \in CleanupStates, Goes(c, r, change)
    PROVE  /\ rows' = r /\ at' \in [Callers -> CleanupStates]
           /\ \A d \in Callers : d # c => at'[d] = at[d]
           /\ at'[c].step = change.step /\ at'[c].cut = change.cut /\ at'[c].need = change.need
           /\ at'[c].table = change.table /\ at'[c].begun = change.begun
           /\ at'[c].grew = change.grew
<1> DEFINE got == at[c].got \/ r # rows
           new == IF StepOf(change.step) = StepOf(at[c].step) THEN [change EXCEPT !.got = got]
                  ELSE [change EXCEPT !.got = FALSE, !.any = @ \/ got]
<1>1. rows' = r /\ at' = [at EXCEPT ![c] = new]
  BY DEF Goes
<1>2. got \in BOOLEAN /\ (change.any \/ got) \in BOOLEAN
  BY Zenon DEF CleanupStates
<1>3. [change EXCEPT !.got = got] \in CleanupStates
  <2> HIDE DEF got
  <2>1. QED
    BY <1>2 DEF CleanupStates
<1>4. [change EXCEPT !.got = FALSE, !.any = @ \/ got] \in CleanupStates
  <2> DEFINE some == change.any \/ got
  <2>1. some \in BOOLEAN
    BY <1>2
  <2> HIDE DEF some
  <2>2. [change EXCEPT !.got = FALSE, !.any = some] \in CleanupStates
    BY <2>1 DEF CleanupStates
  <2>3. QED
    BY <2>2 DEF some
<1>5. new \in CleanupStates
  BY <1>3, <1>4
<1>6. /\ new.step = change.step /\ new.cut = change.cut /\ new.need = change.need
      /\ new.table = change.table /\ new.begun = change.begun /\ new.grew = change.grew
  BY DEF CleanupStates
<1> HIDE DEF new, got
<1>7. QED
  BY <1>1, <1>5, <1>6

\* A step of a cleanup: rows go, none come; what the other callers hold stays.
LEMMA CleanKeeps ==
    ASSUME RetIInv, NEW c \in Callers, at[c].step # "idle",
           at' \in [Callers -> CleanupStates], \A d \in Callers : d # c => at'[d] = at[d],
           rows' \in Holding, \A t \in Tables, s \in RowTimes : rows'[t][s] <= rows[t][s],
           UNCHANGED <<hour, inserts, together>>, failures' \in Nat,
           alloc' \in Nat, alloc' = alloc \/ alloc' = Count(Tables)', Own(c)'
    PROVE  RetIInv'
<1> USE RetBounds
<1>1. RetTypes /\ Accounted /\ Alone /\ \A d \in Callers : Own(d)
  BY RetIInvIs
<1>2. RetTypes'
  BY <1>1 DEF RetTypes
<1>3. \A t \in Tables, s \in RowTimes :
        rows[t][s] \in Nat /\ rows'[t][s] \in Nat /\ rows'[t][s] <= rows[t][s]
  BY <1>1 DEF RetTypes, Holding
<1>4. Accounted'
  <2>1. \A t \in Tables, s \in RowTimes : rows'[t][s] <= inserts' /\ (rows'[t][s] > 0 => s <= hour')
    <3>1. \A t \in Tables, s \in RowTimes : rows[t][s] <= inserts /\ (rows[t][s] > 0 => s <= hour)
      BY <1>1 DEF Accounted
    <3>2. inserts \in Nat
      BY <1>1 DEF RetTypes
    <3>3. QED
      BY <1>3, <3>1, <3>2
  <2>2. HowMany(rows', Tables, LastHour) <= HowMany(rows, Tables, LastHour)
    <3>1. \A t \in Tables, h \in 1 .. LastHour : rows'[t][h] <= rows[t][h]
      BY <1>3 DEF RowTimes
    <3>2. Tables \in SUBSET Tables /\ rows \in Holding
      BY <1>1 DEF RetTypes
    <3>3. QED
      BY <3>1, <3>2, FewerRows, AllOfThem
  <2>3. Count(Tables)' <= Count(Tables)
    BY <2>2, CountFacts
  <2>4. Count(Tables) \in Nat /\ Count(Tables)' \in Nat
    BY <1>1, <1>2, RowFacts, AllOfThem, CountFacts DEF RetTypes, HowMany
  <2>5. Count(Tables) <= inserts /\ Count(Tables) <= alloc /\ inserts \in Nat /\ alloc \in Nat
    BY <1>1 DEF Accounted, RetTypes
  <2>6. Count(Tables)' <= inserts' /\ Count(Tables)' <= alloc'
    BY <2>3, <2>4, <2>5
  <2>7. QED
    BY <2>1, <2>6 DEF Accounted
<1>5. ~together => \A d \in Callers : d # c => at[d].step = "idle"
  BY <1>1 DEF Alone
<1>6. Alone'
  BY <1>5 DEF Alone
<1>7. ASSUME NEW d \in Callers, d # c
      PROVE  Own(d)'
  <2>1. Own(d) /\ at'[d] = at[d]
    BY <1>1, <1>7
  <2>2. at[d].step \in {"recount", "equal"} =>
          \A t \in Metrics, s \in RowTimes : s < at[d].cut => rows'[t][s] = 0
    <3>1. \A t \in Metrics, s \in RowTimes : rows[t][s] = 0 => rows'[t][s] = 0
      <4>1. ASSUME NEW t \in Metrics, NEW s \in RowTimes, rows[t][s] = 0
            PROVE  rows'[t][s] = 0
        <5>1. rows'[t][s] \in Nat /\ rows'[t][s] <= 0
          BY <1>3, <4>1
        <5>2. QED
          BY <5>1
      <4>2. QED
        BY <4>1
    <3>2. at[d].step \in {"recount", "equal"} =>
            \A t \in Metrics, s \in RowTimes : s < at[d].cut => rows[t][s] = 0
      BY <2>1, Zenon DEF Own
    <3>3. QED
      BY <3>1, <3>2, Zenon
  <2>3. ~together => Exact(d)'
    BY <1>5, <1>7, <2>1 DEF Exact
  <2>4. Emptied(d)'
    <3>1. \A t \in TrimmedBefore(at[d].table) : t \in Tables
      BY DEF TrimmedBefore, Tables, Metrics
    <3>2. Emptied(d)
      BY <2>1 DEF Own
    <3>3. at[d].step = "size" /\ ~at[d].grew =>
            \A t \in TrimmedBefore(at[d].table), r \in RowTimes : rows'[t][r] > 0 => r >= at[d].begun
      <4>1. \A t \in TrimmedBefore(at[d].table), r \in RowTimes : rows'[t][r] > 0 => rows[t][r] > 0
        BY <1>3, <3>1
      <4>2. QED
        BY <3>2, <4>1, Zenon DEF Emptied
    <3>4. QED
      BY <2>1, <3>3 DEF Emptied, TrimmedBefore
  <2>5. QED
    BY <2>1, <2>2, <2>3, <2>4 DEF Own
<1>8. \A d \in Callers : Own(d)'
  BY <1>7
<1>9. QED
  BY <1>2, <1>4, <1>6, <1>8, Zenon DEF RetIInv, CutIsClean, OneAtATime, LogsWait, Own, Alone

\* Rows go from tables that lose some of their times altogether.
LEMMA WithoutFacts ==
    ASSUME RetTypes, NEW dead
    PROVE  /\ Without(dead) \in Holding
           /\ \A t \in Tables, s \in RowTimes : /\ Without(dead)[t][s] <= rows[t][s]
                                                /\ <<t, s>> \in dead => Without(dead)[t][s] = 0
                                                /\ <<t, s>> \notin dead => Without(dead)[t][s] = rows[t][s]
<1>1. \A t \in Tables, s \in RowTimes : rows[t][s] \in 0 .. MaxInserts /\ rows[t][s] >= 0
  BY RetBounds DEF RetTypes, Holding
<1>2. \A t \in Tables, s \in RowTimes : Without(dead)[t][s] = IF <<t, s>> \in dead THEN 0 ELSE rows[t][s]
  BY DEF Without
<1>3. \A t \in Tables, s \in RowTimes : Without(dead)[t][s] \in 0 .. MaxInserts
  <2>1. ASSUME NEW t \in Tables, NEW s \in RowTimes
        PROVE  Without(dead)[t][s] \in 0 .. MaxInserts
    <3>1. Without(dead)[t][s] = 0 \/ Without(dead)[t][s] = rows[t][s]
      BY <1>2
    <3>2. 0 \in 0 .. MaxInserts /\ rows[t][s] \in 0 .. MaxInserts
      BY <1>1, RetBounds
    <3>3. QED
      BY <3>1, <3>2
  <2>2. QED
    BY <2>1
<1>4. Without(dead) \in Holding
  <2>1. DOMAIN Without(dead) = Tables /\ Without(dead) = [t \in Tables |-> Without(dead)[t]]
    BY DEF Without
  <2>2. \A t \in Tables : Without(dead)[t] \in [RowTimes -> 0 .. MaxInserts]
    <3>1. ASSUME NEW t \in Tables
          PROVE  Without(dead)[t] \in [RowTimes -> 0 .. MaxInserts]
      <4>1. Without(dead)[t] = [s \in RowTimes |-> IF <<t, s>> \in dead THEN 0 ELSE rows[t][s]]
        BY DEF Without
      <4>2. QED
        BY <1>3, <4>1
    <3>2. QED
      BY <3>1
  <2>3. QED
    BY <2>1, <2>2 DEF Holding
<1>5. QED
  BY <1>1, <1>2, <1>4

LEMMA StepTypes ==
    ASSUME RetIInv, NEW c \in Callers
    PROVE  /\ RetTypes /\ Accounted /\ Own(c) /\ at[c] \in CleanupStates /\ rows \in Holding
           /\ hour \in Nat /\ hour <= LastHour /\ hour >= 1 /\ inserts \in Nat /\ alloc \in Nat
           /\ at[c].cut \in Nat /\ at[c].need \in Nat /\ at[c].begun \in Nat
           /\ \A t \in Tables, s \in RowTimes : rows[t][s] \in Nat /\ rows[t][s] <= rows[t][s]
<1>1. RetTypes /\ Accounted /\ Own(c)
  BY RetIInvIs
<1>2. at[c] \in CleanupStates
  BY <1>1 DEF RetTypes
<1>3. at[c].cut \in Nat /\ at[c].need \in Nat /\ at[c].begun \in Nat
  BY <1>2, RetBounds DEF CleanupStates
<1>4. QED
  BY <1>1, <1>2, <1>3, RetBounds DEF RetTypes, RowTimes, Holding

LEMMA RestFacts ==
    /\ AtRest \in CleanupStates /\ AtRest.step = "idle" /\ AtRest.cut = 0 /\ AtRest.begun = 0
<1>1. 0 \in 0 .. LastHour /\ 0 \in 0 .. MaxInserts
  BY RetBounds
<1>2. QED
  BY <1>1 DEF AtRest, CleanupStates, CleanupSteps, Tables

LEMMA BeginIsSafe ==
    ASSUME RetIInv, NEW c \in Callers, BeginCleanup(c)
    PROVE  RetIInv' /\ GoesWell
<1> USE RetBounds
<1>1. RetTypes /\ Accounted /\ Alone /\ \A d \in Callers : Own(d)
  BY RetIInvIs
<1> DEFINE new == [AtRest EXCEPT !.step = "old logs", !.begun = hour]
<1>2. /\ at[c].step = "idle" /\ at' = [at EXCEPT ![c] = new]
      /\ rows' = rows /\ hour' = hour /\ alloc' = alloc /\ inserts' = inserts /\ failures' = failures
  BY DEF BeginCleanup
<1>3. together' = (together \/ \E d \in Callers : at[d].step # "idle")
  BY DEF BeginCleanup
<1>4. new \in CleanupStates /\ new.step = "old logs" /\ new.begun = hour /\ new.cut = 0
  <2>1. hour \in 0 .. LastHour /\ 0 \in 0 .. LastHour /\ 0 \in 0 .. MaxInserts
    BY <1>1 DEF RetTypes, RowTimes
  <2>2. AtRest \in CleanupStates /\ AtRest.cut = 0
    BY RestFacts
  <2>3. QED
    BY <2>1, <2>2 DEF CleanupStates, CleanupSteps
<1> HIDE DEF new
<1>5. at' \in [Callers -> CleanupStates] /\ at'[c] = new /\ \A d \in Callers : d # c => at'[d] = at[d]
  BY <1>1, <1>2, <1>4 DEF RetTypes
<1>6. together' \in BOOLEAN
  BY <1>3, Zenon
<1>7. RetTypes'
  BY <1>1, <1>2, <1>5, <1>6 DEF RetTypes
<1>8. Count(Tables)' = Count(Tables) /\ Count(Metrics)' = Count(Metrics)
  BY <1>2, CountFacts
<1>9. Accounted'
  BY <1>1, <1>2, <1>8 DEF Accounted
<1>10. ~together' => ~together /\ \A d \in Callers : at[d].step = "idle"
  BY <1>3, Zenon
<1>11. Alone'
  BY <1>5, <1>10, Zenon DEF Alone
<1>12. ASSUME NEW d \in Callers
       PROVE  Own(d)'
  <2>1. CASE d = c
    <3>1. hour \in Nat
      BY <1>1 DEF RetTypes, RowTimes
    <3>2. /\ at'[c].step = "old logs" /\ at'[c].begun = hour /\ at'[c].cut = 0 /\ hour' = hour
          /\ 0 <= hour /\ hour <= hour
      <4>1. 0 <= hour /\ hour <= hour
        BY <3>1
      <4>2. at'[c].step = "old logs" /\ at'[c].begun = hour /\ at'[c].cut = 0 /\ hour' = hour
        BY <1>2, <1>4, <1>5, Zenon
      <4>3. QED
        BY <4>1, <4>2
    <3>3. Exact(c)' /\ Emptied(c)'
      BY <3>2 DEF Exact, Emptied
    <3>4. QED
      BY <2>1, <3>2, <3>3 DEF Own
  <2>2. CASE d # c
    <3>1. Own(d) /\ at'[d] = at[d]
      BY <1>1, <1>5, <2>2
    <3>2. ~together' => Exact(d)'
      <4>1. ~together' => at'[d].step = "idle"
        BY <1>10, <3>1
      <4>2. QED
        BY <4>1 DEF Exact
    <3>3. Emptied(d)'
      BY <1>2, <3>1 DEF Own, Emptied, TrimmedBefore
    <3>4. QED
      BY <1>2, <3>1, <3>2, <3>3 DEF Own
  <2>3. QED
    BY <2>1, <2>2
<1>13. \A d \in Callers : Own(d)'
  BY <1>12
<1>14. RetIInv'
  BY <1>7, <1>9, <1>11, <1>13, Zenon DEF RetIInv, CutIsClean, OneAtATime, LogsWait, Own, Alone
<1>15. QED
  BY <1>1, <1>2, <1>14, NothingGone

\* A step that carries on elsewhere, and whose rows go as they may.
LEMMA GoesKeeps ==
    ASSUME RetIInv, NEW c \in Callers, at[c].step # "idle", Keeps,
           NEW change \in CleanupStates, NEW r \in Holding, Goes(c, r, change),
           \A t \in Tables, s \in RowTimes : r[t][s] <= rows[t][s], Own(c)'
    PROVE  RetIInv'
<1>1. /\ rows' = r /\ at' \in [Callers -> CleanupStates]
      /\ \A d \in Callers : d # c => at'[d] = at[d]
  BY GoesFacts, RetIInvIs DEF RetTypes
<1>2. RetTypes
  BY RetIInvIs
<1>3. UNCHANGED <<hour, inserts, together>> /\ alloc' = alloc /\ failures' \in Nat /\ alloc' \in Nat
  BY <1>2 DEF Keeps, RetTypes
<1>4. QED
  BY <1>1, <1>3, CleanKeeps

LEMMA DeleteOldIsSafe ==
    ASSUME RetIInv, NEW c \in Callers, DeleteOld(c)
    PROVE  RetIInv' /\ GoesWell
<1> USE RetBounds, StepTypes
<1>1. PICK ts \in SUBSET Tables, to \in CleanupSteps :
        /\ to \in {"old shell", "old metrics", "count"}
        /\ at[c].step \in {"old logs", "old shell", "old metrics"}
        /\ Goes(c, Expired(ts), [at[c] EXCEPT !.step = to])
  <2>1. {"logs"} \in SUBSET Tables /\ {"shell"} \in SUBSET Tables /\ Metrics \in SUBSET Tables
    BY DEF Tables, Metrics
  <2>2. \A to \in {"old shell", "old metrics", "count"} : to \in CleanupSteps
    BY DEF CleanupSteps
  <2>3. QED
    BY <2>1, <2>2, Zenon DEF DeleteOld
<1>2. [at[c] EXCEPT !.step = to] \in CleanupStates
  BY DEF CleanupStates, CleanupSteps
<1> DEFINE change == [at[c] EXCEPT !.step = to]
           dead == {d \in ts \X RowTimes : d[2] + Keep[d[1]] < hour}
<1>3. /\ Expired(ts) \in Holding
      /\ \A t \in Tables, s \in RowTimes : /\ Expired(ts)[t][s] <= rows[t][s]
                                           /\ <<t, s>> \in dead => Expired(ts)[t][s] = 0
                                           /\ <<t, s>> \notin dead => Expired(ts)[t][s] = rows[t][s]
  BY WithoutFacts DEF Expired
<1>4. \A t \in Tables, s \in RowTimes : <<t, s>> \in dead <=> t \in ts /\ s + Keep[t] < hour
  OBVIOUS
<1> HIDE DEF dead
<1>5. /\ change.step = to /\ change.cut = at[c].cut /\ change.begun = at[c].begun
  BY DEF CleanupStates
<1> HIDE DEF change
<1>6. /\ rows' = Expired(ts) /\ at'[c].step = to /\ at'[c].cut = at[c].cut /\ at'[c].begun = at[c].begun
      /\ \A d \in Callers : d # c => at'[d] = at[d]
  <2>1. at \in [Callers -> CleanupStates] /\ change \in CleanupStates /\ Goes(c, Expired(ts), change)
    BY <1>1, <1>2 DEF RetTypes, change
  <2>2. QED
    BY <1>5, <2>1, GoesFacts
<1>7. hour' = hour /\ Keeps
  BY DEF DeleteOld, Keeps
<1>8. Own(c)'
  <2>1. at[c].cut <= hour /\ at[c].begun <= hour
    BY DEF Own
  <2>2. at'[c].step \in {"old shell", "old metrics", "count"}
    BY <1>1, <1>6
  <2>3. QED
    BY <1>6, <1>7, <2>1, <2>2 DEF Own, Exact, Emptied
<1>9. RetIInv'
  BY <1>1, <1>2, <1>3, <1>7, <1>8, GoesKeeps
<1> HIDE StepTypes, RetBounds
<1>10. \A t \in Tables, s \in RowTimes : Gone(t, s) => t \in ts /\ s + Keep[t] < hour
  <2>1. ASSUME NEW t \in Tables, NEW s \in RowTimes, Gone(t, s), ~(t \in ts /\ s + Keep[t] < hour)
        PROVE  FALSE
    <3>1. rows'[t][s] = rows[t][s] /\ rows[t][s] \in Nat
      BY <1>3, <1>4, <1>6, <2>1, StepTypes
    <3>2. QED
      BY <2>1, <3>1 DEF Gone
  <2>2. QED
    BY <2>1, Zenon
<1>11. \A t \in Tables, s \in RowTimes : StillThere(t, s) => ~(t \in ts /\ s + Keep[t] < hour)
  <2>1. ASSUME NEW t \in Tables, NEW s \in RowTimes, t \in ts, s + Keep[t] < hour
        PROVE  ~StillThere(t, s)
    <3>1. rows'[t][s] = 0
      BY <1>3, <1>4, <1>6, <2>1
    <3>2. QED
      BY <3>1 DEF StillThere
  <2>2. QED
    BY <2>1, Zenon
<1>12. \A t \in Tables, r, s \in RowTimes : Gone(t, r) /\ StillThere(t, s) => r <= s
  <2>1. ASSUME NEW t \in Tables, NEW r \in RowTimes, NEW s \in RowTimes, Gone(t, r), StillThere(t, s)
        PROVE  r <= s
    <3>1. t \in ts /\ r + Keep[t] < hour /\ ~(s + Keep[t] < hour)
      BY <1>10, <1>11, <2>1
    <3>2. Keep[t] \in Nat /\ r \in Nat /\ s \in Nat
      BY RetBounds DEF RowTimes
    <3>3. hour \in Nat
      BY StepTypes
    <3>4. QED
      BY <3>1, <3>2, <3>3
  <2>2. QED
    BY <2>1
<1>13. \A d \in Callers : at[d].step \in {"below", "equal"} => at'[d] = at[d]
  BY <1>1, <1>6
<1>14. OldestGo /\ ExactGo
  BY <1>12, <1>13 DEF OldestGo, ExactGo
<1>15. LogsGo
  <2>1. ASSUME NEW s \in RowTimes, Gone("logs", s), s + Keep["logs"] >= hour
        PROVE  FALSE
    <3>1. "logs" \in Tables
      BY DEF Tables
    <3>2. s + Keep["logs"] < hour
      BY <1>10, <2>1, <3>1
    <3>3. Keep["logs"] \in Nat /\ s \in Nat
      BY <3>1, RetBounds DEF RowTimes
    <3>4. hour \in Nat
      BY StepTypes
    <3>5. QED
      BY <2>1, <3>2, <3>3, <3>4
  <2>2. QED
    BY <2>1 DEF LogsGo
<1>16. QED
  BY <1>9, <1>14, <1>15 DEF GoesWell

LEMMA CountIsSafe ==
    ASSUME RetIInv, NEW c \in Callers, CountRows(c)
    PROVE  RetIInv' /\ GoesWell
<1> USE RetBounds, StepTypes
<1> DEFINE n == Count(Metrics)
           more == [at[c] EXCEPT !.step = "cut", !.need = n - MaxMetrics]
           enough == [at[c] EXCEPT !.step = "size", !.table = "perf"]
<1>1. n \in Nat /\ n <= MaxInserts
  BY CountBounds, AllOfThem
<1>2. at[c].step = "count" /\ Keeps /\ Goes(c, rows, IF TooMany(n) THEN more ELSE enough)
  BY DEF CountRows
<1>3. hour' = hour
  BY <1>2 DEF Keeps
<1>4. CASE TooMany(n)
  <2>1. n - MaxMetrics \in 0 .. MaxInserts /\ n - MaxMetrics >= 1
    BY <1>1, <1>4 DEF TooMany
  <2>2. /\ more \in CleanupStates /\ more.step = "cut" /\ more.need = n - MaxMetrics
        /\ more.cut = at[c].cut /\ more.begun = at[c].begun
    BY <2>1 DEF CleanupStates, CleanupSteps
  <2> HIDE DEF more, n
  <2>3. /\ rows' = rows /\ at'[c].step = "cut" /\ at'[c].need = n - MaxMetrics /\ at'[c].cut = at[c].cut
        /\ at'[c].begun = at[c].begun
    BY <1>2, <1>4, <2>2, GoesFacts DEF RetTypes
  <2>4. Count(Metrics)' = n
    BY <2>3, CountFacts DEF n
  <2>5. Own(c)'
    BY <1>1, <1>3, <2>1, <2>3, <2>4 DEF Own, Exact, Emptied
  <2>6. QED
    BY <1>2, <1>4, <2>2, <2>3, <2>5, GoesKeeps, NothingGone
<1>5. CASE ~TooMany(n)
  <2>1. /\ enough \in CleanupStates /\ enough.step = "size" /\ enough.table = "perf"
        /\ enough.cut = at[c].cut /\ enough.begun = at[c].begun
    BY DEF CleanupStates, CleanupSteps, Tables
  <2> HIDE DEF enough, n
  <2>2. /\ rows' = rows /\ at'[c].step = "size" /\ at'[c].table = "perf" /\ at'[c].cut = at[c].cut
        /\ at'[c].begun = at[c].begun
    BY <1>2, <1>5, <2>1, GoesFacts DEF RetTypes
  <2>3. Own(c)'
    BY <1>3, <2>2 DEF Own, Exact, Emptied, TrimmedBefore
  <2>4. QED
    BY <1>2, <1>5, <2>1, <2>2, <2>3, GoesKeeps, NothingGone
<1>6. QED
  BY <1>4, <1>5

LEMMA FindIsSafe ==
    ASSUME RetIInv, NEW c \in Callers, FindCut(c)
    PROVE  RetIInv' /\ GoesWell
<1> USE RetBounds, StepTypes
<1>1. PICK n, found, all : n = at[c].need /\ found = Cut(at[c].need) /\ all = Count(Metrics)
  OBVIOUS
<1> DEFINE change == [at[c] EXCEPT !.step = "below", !.cut = found]
<1>2. at[c].step = "cut" /\ Keeps /\ Goes(c, rows, change)
  BY <1>1 DEF FindCut
<1>3. hour' = hour
  BY <1>2 DEF Keeps
<1>4. all \in Nat /\ n \in Nat /\ n >= 1
  BY <1>1, <1>2, CountBounds, AllOfThem DEF Own
<1>5. found \in 0 .. LastHour /\ found <= hour /\ Older(Metrics, found - 1) < n
  <2>1. CASE all = 0
    <3>1. found = 0
      BY <1>1, <2>1 DEF Cut
    <3>2. 1 .. (0 - 1) = {} /\ 0 - 1 \in Int /\ 0 - 1 <= LastHour
      OBVIOUS
    <3>3. HowMany(rows, Metrics, 0 - 1) = 0
      BY <3>2, NoRows, AllOfThem
    <3>4. Older(Metrics, found - 1) = 0
      BY <3>1, <3>3, CountFacts
    <3>5. QED
      BY <1>4, <3>1, <3>4
  <2>2. CASE all # 0
    <3> DEFINE m == Lesser(n, all)
    <3>1. m \in Nat /\ m >= 1 /\ m <= all /\ m <= n
      BY <1>4, <2>2 DEF Lesser
    <3>2. found = Nth(Metrics, m)
      BY <1>1, <2>2 DEF Cut
    <3> HIDE DEF m
    <3>3. found \in RowTimes /\ found <= hour /\ Older(Metrics, found - 1) < m
      BY <1>1, <3>1, <3>2, NthFacts, AllOfThem
    <3>4. Older(Metrics, found - 1) \in Nat
      <4>1. found - 1 \in Int /\ found - 1 <= LastHour
        BY <3>3 DEF RowTimes
      <4>2. QED
        BY <4>1, RowFacts, AllOfThem, CountFacts DEF HowMany
    <3>5. QED
      BY <1>4, <3>1, <3>3, <3>4 DEF RowTimes
  <2>3. QED
    BY <2>1, <2>2
<1>6. /\ change \in CleanupStates /\ change.step = "below" /\ change.need = n
      /\ change.cut = found /\ change.begun = at[c].begun
  BY <1>1, <1>5 DEF CleanupStates, CleanupSteps
<1> HIDE DEF change
<1>7. /\ rows' = rows /\ at'[c].step = "below" /\ at'[c].need = n /\ at'[c].cut = found
      /\ at'[c].begun = at[c].begun
  BY <1>2, <1>6, GoesFacts DEF RetTypes
<1>8. Count(Metrics)' = Count(Metrics) /\ Older(Metrics, at[c].cut - 1)' = Older(Metrics, found - 1)
  BY <1>7 DEF Count, Older, RowsOf
<1>9. ~together' => Exact(c)'
  <2>1. together' = together /\ (~together => Exact(c))
    BY <1>2 DEF Keeps, Own
  <2>2. ~together => Count(Metrics) >= n + MaxMetrics
    BY <1>1, <1>2, <2>1 DEF Exact
  <2>3. Older(Metrics, at[c].cut - 1)' < at'[c].need
    BY <1>5, <1>7, <1>8
  <2>4. ~together => Count(Metrics)' >= at'[c].need + MaxMetrics
    BY <1>7, <1>8, <2>2
  <2>5. QED
    BY <2>1, <2>3, <2>4 DEF Exact
<1>10. Own(c)'
  BY <1>3, <1>5, <1>7, <1>9 DEF Own, Emptied
<1>11. QED
  BY <1>2, <1>6, <1>7, <1>10, GoesKeeps, NothingGone

\* A step with other rows of metrics: what is older than the cut goes, or is gone, and
\* nothing of the time after it.
LEMMA CutFacts ==
    ASSUME RetTypes, NEW c \in Callers, NEW cut \in Nat,
           \A d \in Callers : d # c => at'[d] = at[d],
           \A t \in Tables, s \in RowTimes : Gone(t, s) => t \in Metrics /\ s <= cut,
           \A t \in Metrics, s \in RowTimes : StillThere(t, s) => s >= cut,
           at[c].step \in {"below", "equal"},
           rows' # rows /\ ~together => Count(Metrics)' >= MaxMetrics
    PROVE  GoesWell
<1>1. \A t, u \in Metrics, r, s \in RowTimes : Gone(t, r) /\ StillThere(u, s) => r <= s
  <2>1. ASSUME NEW t \in Metrics, NEW u \in Metrics, NEW r \in RowTimes, NEW s \in RowTimes,
               Gone(t, r), StillThere(u, s)
        PROVE  r <= s
    <3>1. t \in Tables /\ u \in Tables
      BY RetBounds
    <3>2. r <= cut /\ s >= cut /\ r \in Nat /\ s \in Nat
      BY <2>1, <3>1 DEF RowTimes
    <3>3. QED
      BY <3>2
  <2>2. QED
    BY <2>1
<1>2. \A t \in Tables, r, s \in RowTimes : Gone(t, r) /\ StillThere(t, s) => r <= s
  BY <1>1
<1>3. OldestGo
  BY <1>1, <1>2 DEF OldestGo
<1>4. ExactGo
  <2>1. \A d \in Callers : at'[d] # at[d] => d = c
    OBVIOUS
  <2>2. QED
    BY <2>1 DEF ExactGo
<1>5. LogsGo
  <2>1. "logs" \in Tables /\ "logs" \notin Metrics
    BY DEF Tables, Metrics
  <2>2. \A s \in RowTimes : ~Gone("logs", s)
    BY <2>1
  <2>3. QED
    BY <2>2 DEF LogsGo
<1>6. QED
  BY <1>3, <1>4, <1>5 DEF GoesWell

LEMMA BelowIsSafe ==
    ASSUME RetIInv, NEW c \in Callers, DeleteBelow(c)
    PROVE  RetIInv' /\ GoesWell
<1> USE RetBounds, StepTypes
<1> DEFINE cut == at[c].cut
           left == Without(Below(cut))
           change == [at[c] EXCEPT !.step = "recount"]
<1>1. at[c].step = "below" /\ Keeps /\ Goes(c, left, change)
  BY DEF DeleteBelow
<1>2. hour' = hour
  BY <1>1 DEF Keeps
<1>3. cut \in Nat /\ cut \in 0 .. LastHour /\ cut <= hour
  BY DEF Own, CleanupStates
<1>4. /\ left \in Holding
      /\ \A t \in Tables, s \in RowTimes : /\ left[t][s] <= rows[t][s]
                                           /\ <<t, s>> \in Below(cut) => left[t][s] = 0
                                           /\ <<t, s>> \notin Below(cut) => left[t][s] = rows[t][s]
  BY WithoutFacts
<1>5. \A t \in Tables, s \in RowTimes : <<t, s>> \in Below(cut) <=> t \in Metrics /\ s < cut
  BY DEF Below
<1>6. /\ change \in CleanupStates /\ change.step = "recount" /\ change.cut = cut
      /\ change.begun = at[c].begun
  BY DEF CleanupStates, CleanupSteps
<1> HIDE DEF left, change, cut
<1>7. /\ rows' = left /\ at'[c].step = "recount" /\ at'[c].cut = cut /\ at'[c].begun = at[c].begun
      /\ \A d \in Callers : d # c => at'[d] = at[d]
  BY <1>1, <1>6, GoesFacts DEF RetTypes
<1> HIDE StepTypes, RetBounds
<1>8. \A t \in Metrics, s \in RowTimes : s < cut => rows'[t][s] = 0
  BY <1>4, <1>5, <1>7, RetBounds
<1>9. Own(c)'
  <2>1. at[c].begun <= hour
    BY StepTypes DEF Own
  <2>2. QED
    BY <1>2, <1>3, <1>7, <1>8, <2>1 DEF Own, Exact, Emptied
<1>10. RetIInv'
  BY <1>1, <1>4, <1>6, <1>9, GoesKeeps
<1>11. \A t \in Tables, s \in RowTimes : Gone(t, s) => t \in Metrics /\ s <= cut
  <2>1. ASSUME NEW t \in Tables, NEW s \in RowTimes, Gone(t, s)
        PROVE  t \in Metrics /\ s <= cut
    <3>1. rows'[t][s] # rows[t][s]
      <4>1. rows[t][s] \in Nat
        BY StepTypes
      <4>2. QED
        BY <2>1, <4>1 DEF Gone
    <3>2. t \in Metrics /\ s < cut
      BY <1>4, <1>5, <1>7, <3>1
    <3>3. s \in Nat
      BY DEF RowTimes
    <3>4. QED
      BY <1>3, <3>2, <3>3
  <2>2. QED
    BY <2>1
<1>12. \A t \in Metrics, s \in RowTimes : StillThere(t, s) => s >= cut
  <2>1. ASSUME NEW t \in Metrics, NEW s \in RowTimes, s < cut
        PROVE  ~StillThere(t, s)
    <3>1. rows'[t][s] = 0
      BY <1>8, <2>1
    <3>2. QED
      BY <3>1 DEF StillThere
  <2>2. \A s \in RowTimes : s < cut \/ s >= cut
    BY <1>3 DEF RowTimes
  <2>3. QED
    BY <2>1, <2>2
<1>13. ~together => Count(Metrics)' >= MaxMetrics
  <2> SUFFICES ASSUME ~together PROVE Count(Metrics)' >= MaxMetrics
    OBVIOUS
  <2>1. Exact(c)
    BY StepTypes DEF Own
  <2>2. Count(Metrics) >= at[c].need + MaxMetrics /\ Older(Metrics, cut - 1) < at[c].need
    BY <1>1, <2>1 DEF Exact, cut
  <2>3. \A t \in Metrics, h \in RowTimes : h >= cut => left[t][h] = rows[t][h]
    <3>1. ASSUME NEW t \in Metrics, NEW h \in RowTimes, h >= cut
          PROVE  left[t][h] = rows[t][h]
      <4>1. t \in Tables /\ ~(h < cut)
        BY <1>3, <3>1, RetBounds DEF RowTimes
      <4>2. QED
        BY <1>4, <1>5, <4>1
    <3>2. QED
      BY <3>1
  <2>4. HowMany(left, Metrics, LastHour) >= HowMany(rows, Metrics, LastHour) - HowMany(rows, Metrics, cut - 1)
    BY <1>3, <1>4, <2>3, BelowLeaves, AllOfThem, StepTypes
  <2>5. HowMany(left, Metrics, LastHour) = Count(Metrics)' /\ HowMany(rows, Metrics, LastHour) = Count(Metrics)
        /\ HowMany(rows, Metrics, cut - 1) = Older(Metrics, cut - 1)
    BY <1>7, CountFacts
  <2>6. Count(Metrics) \in Nat /\ Count(Metrics)' \in Nat
    BY <1>4, <2>5, RowFacts, AllOfThem, StepTypes DEF HowMany
  <2>7. Older(Metrics, cut - 1) \in Nat
    <3>1. cut - 1 \in Int /\ cut - 1 <= LastHour
      BY <1>3, RetBounds
    <3>2. QED
      BY <2>5, <3>1, RowFacts, AllOfThem, StepTypes DEF HowMany
  <2>8. at[c].need \in Nat /\ MaxMetrics \in Nat
    BY StepTypes, RetBounds
  <2>9. QED
    BY <2>2, <2>4, <2>5, <2>6, <2>7, <2>8
<1>14. RetTypes /\ at[c].step \in {"below", "equal"}
  BY <1>1, StepTypes
<1>15. GoesWell
  BY <1>3, <1>7, <1>11, <1>12, <1>13, <1>14, CutFacts
<1>16. QED
  BY <1>10, <1>15

LEMMA RecountIsSafe ==
    ASSUME RetIInv, NEW c \in Callers, Recount(c)
    PROVE  RetIInv' /\ GoesWell
<1> USE RetBounds, StepTypes
<1> DEFINE n == Count(Metrics)
           more == [at[c] EXCEPT !.step = "equal", !.need = n - MaxMetrics]
           enough == [at[c] EXCEPT !.step = "count"]
<1>1. n \in Nat /\ n <= MaxInserts
  BY CountBounds, AllOfThem
<1>2. at[c].step = "recount" /\ Keeps /\ Goes(c, rows, IF TooMany(n) THEN more ELSE enough)
  BY DEF Recount
<1>3. hour' = hour
  BY <1>2 DEF Keeps
<1>4. CASE TooMany(n)
  <2>1. n - MaxMetrics \in 0 .. MaxInserts /\ n - MaxMetrics >= 1
    BY <1>1, <1>4 DEF TooMany
  <2>2. /\ more \in CleanupStates /\ more.step = "equal" /\ more.need = n - MaxMetrics
        /\ more.cut = at[c].cut /\ more.begun = at[c].begun
    BY <2>1 DEF CleanupStates, CleanupSteps
  <2> HIDE DEF more, n
  <2>3. /\ rows' = rows /\ at'[c].step = "equal" /\ at'[c].need = n - MaxMetrics /\ at'[c].cut = at[c].cut
        /\ at'[c].begun = at[c].begun
    BY <1>2, <1>4, <2>2, GoesFacts DEF RetTypes
  <2>4. Count(Metrics)' = n
    BY <2>3, CountFacts DEF n
  <2>5. \A t \in Metrics, s \in RowTimes : s < at[c].cut => rows[t][s] = 0
    BY <1>2 DEF Own
  <2>6. at[c].cut <= hour /\ at[c].begun <= hour
    BY DEF Own
  <2>7. Exact(c)'
    BY <1>1, <2>1, <2>3, <2>4 DEF Exact
  <2>8. Own(c)'
    BY <1>3, <2>1, <2>3, <2>5, <2>6, <2>7 DEF Own, Emptied
  <2>9. QED
    BY <1>2, <1>4, <2>2, <2>3, <2>8, GoesKeeps, NothingGone
<1>5. CASE ~TooMany(n)
  <2>1. /\ enough \in CleanupStates /\ enough.step = "count"
        /\ enough.cut = at[c].cut /\ enough.begun = at[c].begun
    BY DEF CleanupStates, CleanupSteps
  <2> HIDE DEF enough, n
  <2>2. /\ rows' = rows /\ at'[c].step = "count" /\ at'[c].cut = at[c].cut
        /\ at'[c].begun = at[c].begun
    BY <1>2, <1>5, <2>1, GoesFacts DEF RetTypes
  <2>3. Own(c)'
    BY <1>3, <2>2 DEF Own, Exact, Emptied
  <2>4. QED
    BY <1>2, <1>5, <2>1, <2>2, <2>3, GoesKeeps, NothingGone
<1>6. QED
  BY <1>4, <1>5

\* Some rows of the two tables at one time, n at most.
LEMMA EqualFacts ==
    ASSUME RetTypes, NEW s \in RowTimes, NEW n \in Nat
    PROVE  \E p \in Nat, q \in Nat :
             /\ p + q <= n /\ EqualOf(s, n) \in Holding
             /\ rows["perf"][s] = EqualOf(s, n)["perf"][s] + p
             /\ rows["network"][s] = EqualOf(s, n)["network"][s] + q
             /\ \A t \in Tables, h \in RowTimes :
                  /\ EqualOf(s, n)[t][h] <= rows[t][h]
                  /\ h # s \/ t \notin Metrics => EqualOf(s, n)[t][h] = rows[t][h]
<1> USE RetBounds
<1> DEFINE a == rows["perf"][s]
           b == rows["network"][s]
           p == Lesser(n, a)
           q == Lesser(n - p, b)
<1>1. "perf" \in Tables /\ "network" \in Tables
  BY DEF Tables
<1>2. a \in Nat /\ b \in Nat /\ a <= MaxInserts /\ b <= MaxInserts
  BY <1>1 DEF RetTypes, Holding
<1>3. p \in Nat /\ p <= a /\ p <= n
  BY <1>2 DEF Lesser
<1>4. n - p \in Nat
  BY <1>3
<1>5. q \in Nat /\ q <= b /\ q <= n - p
  BY <1>2, <1>4 DEF Lesser
<1>6. p + q <= n /\ a - p \in 0 .. MaxInserts /\ b - q \in 0 .. MaxInserts
  BY <1>2, <1>3, <1>5
<1>7. EqualOf(s, n) = [rows EXCEPT !["perf"][s] = a - p, !["network"][s] = b - q]
  <2>1. rows \in [Tables -> [RowTimes -> 0 .. MaxInserts]]
    BY DEF RetTypes, Holding
  <2>2. EqualOf(s, n) = [rows EXCEPT !["perf"][s] = @ - p, !["network"][s] = @ - Lesser(n - p, @)]
    BY DEF EqualOf
  <2>3. QED
    BY <1>1, <2>1, <2>2
<1> HIDE DEF p, q
<1>8. EqualOf(s, n) \in Holding
  BY <1>1, <1>6, <1>7 DEF RetTypes, Holding
<1>9. /\ EqualOf(s, n)["perf"][s] = a - p /\ EqualOf(s, n)["network"][s] = b - q
      /\ \A t \in Tables, h \in RowTimes : h # s \/ t \notin Metrics => EqualOf(s, n)[t][h] = rows[t][h]
  BY <1>1, <1>7 DEF RetTypes, Holding, Metrics
<1>10. \A t \in Tables, h \in RowTimes : EqualOf(s, n)[t][h] <= rows[t][h]
  <2>1. ASSUME NEW t \in Tables, NEW h \in RowTimes
        PROVE  EqualOf(s, n)[t][h] <= rows[t][h]
    <3>1. rows[t][h] \in Nat
      BY DEF RetTypes, Holding
    <3>2. t \in Metrics => t = "perf" \/ t = "network"
      BY DEF Metrics
    <3>3. a - p <= a /\ b - q <= b
      BY <1>2, <1>3, <1>5
    <3>4. EqualOf(s, n)[t][h] = rows[t][h] \/ (h = s /\ t = "perf") \/ (h = s /\ t = "network")
      BY <1>9, <3>2
    <3>5. QED
      BY <1>9, <3>1, <3>3, <3>4
  <2>2. QED
    BY <2>1
<1>11. a = EqualOf(s, n)["perf"][s] + p /\ b = EqualOf(s, n)["network"][s] + q
  BY <1>2, <1>3, <1>5, <1>9
<1>12. QED
  BY <1>3, <1>5, <1>6, <1>8, <1>9, <1>10, <1>11

LEMMA EqualIsSafe ==
    ASSUME RetIInv, NEW c \in Callers, DeleteEqual(c)
    PROVE  RetIInv' /\ GoesWell
<1> USE StepTypes
<1> DEFINE enough == [at[c] EXCEPT !.step = "size", !.table = "perf"]
           again == [at[c] EXCEPT !.step = "count"]
<1>1. PICK left, cut, n : /\ left = Equal(at[c].cut, at[c].need) /\ cut = at[c].cut /\ n = at[c].need
  OBVIOUS
<1>2. at[c].step = "equal" /\ Keeps /\ Goes(c, left, IF left = rows THEN enough ELSE again)
  BY <1>1 DEF DeleteEqual
<1>3. hour' = hour
  BY <1>2 DEF Keeps
<1>4. cut \in Nat /\ cut \in 0 .. LastHour /\ n \in Nat
  BY <1>1 DEF CleanupStates
<1>5. \A t \in Metrics, s \in RowTimes : s < cut => rows[t][s] = 0
  BY <1>1, <1>2 DEF Own
<1>6. /\ enough \in CleanupStates /\ enough.step = "size" /\ enough.table = "perf"
      /\ enough.cut = cut /\ enough.begun = at[c].begun
  BY <1>1 DEF CleanupStates, CleanupSteps, Tables
<1>7. /\ again \in CleanupStates /\ again.step = "count"
      /\ again.cut = cut /\ again.begun = at[c].begun
  BY <1>1 DEF CleanupStates, CleanupSteps
<1> HIDE DEF enough, again
<1>8. at[c].cut <= hour /\ at[c].begun <= hour
  BY DEF Own
<1>9. CASE left = rows
  <2>1. /\ rows' = rows /\ at'[c].step = "size" /\ at'[c].table = "perf" /\ at'[c].cut = cut
        /\ at'[c].begun = at[c].begun
    BY <1>2, <1>6, <1>9, GoesFacts DEF RetTypes
  <2>2. Own(c)'
    BY <1>1, <1>3, <1>8, <2>1 DEF Own, Exact, Emptied, TrimmedBefore
  <2>3. QED
    BY <1>2, <1>6, <1>9, <2>1, <2>2, GoesKeeps, NothingGone
<1>10. CASE left # rows
  <2>1. cut # 0 /\ left = EqualOf(cut, n) /\ cut \in RowTimes
    BY <1>1, <1>4, <1>10 DEF Equal, RowTimes
  <2>2. PICK p \in Nat, q \in Nat :
          /\ p + q <= n /\ left \in Holding
          /\ rows["perf"][cut] = left["perf"][cut] + p
          /\ rows["network"][cut] = left["network"][cut] + q
          /\ \A t \in Tables, h \in RowTimes :
               /\ left[t][h] <= rows[t][h]
               /\ h # cut \/ t \notin Metrics => left[t][h] = rows[t][h]
    <3>1. \E p \in Nat, q \in Nat :
            /\ p + q <= n /\ EqualOf(cut, n) \in Holding
            /\ rows["perf"][cut] = EqualOf(cut, n)["perf"][cut] + p
            /\ rows["network"][cut] = EqualOf(cut, n)["network"][cut] + q
            /\ \A t \in Tables, h \in RowTimes :
                 /\ EqualOf(cut, n)[t][h] <= rows[t][h]
                 /\ h # cut \/ t \notin Metrics => EqualOf(cut, n)[t][h] = rows[t][h]
      BY <1>4, <2>1, EqualFacts, Zenon
    <3>2. QED
      BY <2>1, <3>1, Zenon
  <2>3. /\ rows' = left /\ at'[c].step = "count" /\ at'[c].cut = cut /\ at'[c].begun = at[c].begun
        /\ \A d \in Callers : d # c => at'[d] = at[d]
    BY <1>2, <1>7, <1>10, GoesFacts DEF RetTypes
  <2>4. Own(c)'
    BY <1>1, <1>3, <1>8, <2>3 DEF Own, Exact, Emptied
  <2>5. RetIInv'
    BY <1>2, <1>7, <1>10, <2>2, <2>4, GoesKeeps
  <2>6. \A t \in Tables, s \in RowTimes : Gone(t, s) => t \in Metrics /\ s <= cut
    <3>1. ASSUME NEW t \in Tables, NEW s \in RowTimes, Gone(t, s)
          PROVE  t \in Metrics /\ s <= cut
      <4>1. rows'[t][s] # rows[t][s]
        <5>1. rows[t][s] \in Nat
          OBVIOUS
        <5>2. QED
          BY <3>1, <5>1 DEF Gone
      <4>2. t \in Metrics /\ s = cut
        BY <2>2, <2>3, <4>1
      <4>3. QED
        BY <1>4, <4>2
    <3>2. QED
      BY <3>1
  <2>7. \A t \in Metrics, s \in RowTimes : StillThere(t, s) => s >= cut
    <3>1. ASSUME NEW t \in Metrics, NEW s \in RowTimes, s < cut
          PROVE  ~StillThere(t, s)
      <4>1. rows[t][s] = 0 /\ t \in Tables /\ s # cut
        BY <1>4, <1>5, <3>1, RetBounds
      <4>2. rows'[t][s] = 0
        BY <2>2, <2>3, <4>1
      <4>3. QED
        BY <4>2 DEF StillThere
    <3>2. \A s \in RowTimes : s < cut \/ s >= cut
      BY <1>4, RetBounds DEF RowTimes
    <3>3. QED
      BY <3>1, <3>2
  <2>8. ~together => Count(Metrics)' >= MaxMetrics
    <3> SUFFICES ASSUME ~together PROVE Count(Metrics)' >= MaxMetrics
      OBVIOUS
    <3>1. Exact(c)
      BY DEF Own
    <3>2. Count(Metrics) >= n + MaxMetrics
      BY <1>1, <1>2, <3>1 DEF Exact
    <3>3. \A t \in Metrics, h \in RowTimes : h # cut => left[t][h] = rows[t][h]
      BY <2>2, RetBounds
    <3>4. HowMany(left, Metrics, LastHour) >= HowMany(rows, Metrics, LastHour) - (p + q)
      BY <2>1, <2>2, <3>3, EqualLeaves
    <3>5. HowMany(left, Metrics, LastHour) = Count(Metrics)' /\ HowMany(rows, Metrics, LastHour) = Count(Metrics)
      BY <2>3, CountFacts
    <3>6. Count(Metrics) \in Nat /\ Count(Metrics)' \in Nat
      BY <2>2, <3>5, RowFacts, AllOfThem DEF HowMany
    <3>7. MaxMetrics \in Nat
      BY RetBounds
    <3>8. QED
      BY <1>4, <2>2, <3>2, <3>4, <3>5, <3>6, <3>7
  <2>9. GoesWell
    BY <1>2, <1>4, <2>3, <2>6, <2>7, <2>8, CutFacts
  <2>10. QED
    BY <2>5, <2>9
<1>11. QED
  BY <1>9, <1>10

LEMMA VacuumIsSafe ==
    ASSUME RetIInv, NEW c \in Callers, Vacuum(c)
    PROVE  RetIInv' /\ GoesWell
<1> USE RetBounds, StepTypes
<1>1. /\ at[c].step = "vacuum" /\ at' = [at EXCEPT ![c] = AtRest]
      /\ rows' = rows /\ hour' = hour /\ inserts' = inserts /\ failures' = failures /\ together' = together
      /\ alloc' = alloc \/ alloc' = Count(Tables)
  BY DEF Vacuum
<1>2. Count(Tables)' = Count(Tables) /\ Count(Tables) \in Nat
  BY <1>1, CountFacts, CountBounds, AllOfThem
<1>3. AtRest \in CleanupStates /\ AtRest.step = "idle" /\ AtRest.cut = 0 /\ AtRest.begun = 0
  BY RestFacts
<1>4. at' \in [Callers -> CleanupStates] /\ at'[c] = AtRest /\ \A d \in Callers : d # c => at'[d] = at[d]
  BY <1>1, <1>3 DEF RetTypes
<1>5. Own(c)'
  BY <1>1, <1>3, <1>4 DEF Own, Exact, Emptied
<1>6. failures' \in Nat /\ alloc' \in Nat
  BY <1>1, <1>2 DEF RetTypes
<1>7. RetIInv'
  BY <1>1, <1>2, <1>4, <1>5, <1>6, CleanKeeps
<1>8. QED
  BY <1>1, <1>7, NothingGone

LEMMA FailIsSafe ==
    ASSUME RetIInv, NEW c \in Callers, StepFails(c)
    PROVE  RetIInv' /\ GoesWell
<1> USE RetBounds, StepTypes
<1> DEFINE on == [at[c] EXCEPT !.step = NextStep(at[c].step), !.table = "perf", !.got = FALSE]
           new == IF at[c].step = "vacuum" THEN AtRest ELSE on
<1>1. /\ at[c].step # "idle" /\ at' = [at EXCEPT ![c] = new] /\ failures' = failures + 1
      /\ rows' = rows /\ hour' = hour /\ alloc' = alloc /\ inserts' = inserts /\ together' = together
  <2>1. at' = [at EXCEPT ![c] = new]
    BY Zenon DEF StepFails
  <2>2. QED
    BY <2>1 DEF StepFails
<1>2. AtRest \in CleanupStates /\ AtRest.step = "idle" /\ AtRest.cut = 0 /\ AtRest.begun = 0
  BY RestFacts
<1>3. at[c].step # "vacuum" => NextStep(at[c].step) \in {"old shell", "old metrics", "count", "size", "vacuum"}
  BY DEF NextStep
<1>4. at[c].step # "vacuum" =>
        /\ on \in CleanupStates /\ on.step \in {"old shell", "old metrics", "count", "size", "vacuum"}
        /\ on.table = "perf" /\ on.cut = at[c].cut /\ on.begun = at[c].begun
  <2>1. PICK to : to = NextStep(at[c].step)
    OBVIOUS
  <2>2. to \in {"old shell", "old metrics", "count", "size", "vacuum"} => to \in CleanupSteps
    BY DEF CleanupSteps
  <2>3. at[c] \in CleanupStates /\ "perf" \in Tables \cup {"end"}
    BY DEF Tables
  <2>4. on = [at[c] EXCEPT !.step = to, !.table = "perf", !.got = FALSE]
    BY <2>1
  <2> HIDE DEF on
  <2>5. to \in CleanupSteps => /\ on \in CleanupStates /\ on.step = to
                              /\ on.table = "perf" /\ on.cut = at[c].cut /\ on.begun = at[c].begun
    BY <2>3, <2>4 DEF CleanupStates
  <2>6. QED
    BY <1>3, <2>1, <2>2, <2>5
<1> HIDE DEF on
<1>5. /\ new \in CleanupStates /\ new.step \in {"idle", "old shell", "old metrics", "count", "size", "vacuum"}
      /\ new.step = "size" => new.table = "perf"
      /\ new.cut = 0 \/ new.cut = at[c].cut
      /\ new.begun = 0 \/ new.begun = at[c].begun
  BY <1>2, <1>4
<1> HIDE DEF new
<1>6. at' \in [Callers -> CleanupStates] /\ at'[c] = new /\ \A d \in Callers : d # c => at'[d] = at[d]
  BY <1>1, <1>5 DEF RetTypes
<1>7. at'[c].cut <= hour' /\ at'[c].begun <= hour'
  <2>1. at[c].cut <= hour /\ at[c].begun <= hour
    BY DEF Own
  <2>2. 0 <= hour /\ hour' = hour
    BY <1>1
  <2>3. new.cut <= hour /\ new.begun <= hour
    BY <1>5, <2>1, <2>2
  <2>4. QED
    BY <1>6, <2>2, <2>3
<1>8. Exact(c)' /\ Emptied(c)'
  BY <1>5, <1>6 DEF Exact, Emptied, TrimmedBefore
<1>9. Own(c)'
  BY <1>5, <1>6, <1>7, <1>8 DEF Own
<1>10. failures' \in Nat
  BY <1>1 DEF RetTypes
<1>11. RetIInv'
  BY <1>1, <1>6, <1>9, <1>10, CleanKeeps
<1>12. QED
  BY <1>1, <1>11, NothingGone

LEMMA AfterFacts ==
    ASSUME NEW t \in Tables
    PROVE  /\ After(t) \in Tables \cup {"end"}
           /\ \A u \in TrimmedBefore(After(t)) : u \in Tables /\ (u \in TrimmedBefore(t) \/ u = t)
<1>1. CASE t = "perf"
  BY <1>1 DEF After, TrimmedBefore, Tables
<1>2. CASE t = "network"
  BY <1>2 DEF After, TrimmedBefore, Tables, Metrics
<1>3. CASE t = "shell"
  BY <1>3 DEF After, TrimmedBefore, Tables, Metrics
<1>4. CASE t = "logs"
  BY <1>4 DEF After, TrimmedBefore, Tables
<1>5. QED
  BY <1>1, <1>2, <1>3, <1>4 DEF Tables

\* The oldest rows of the table go.
LEMMA BatchIsSafe ==
    ASSUME RetIInv, NEW c \in Callers, at[c].step = "size", Keeps, NEW t \in Tables, t = at[c].table,
           ~DoneWith(t), Goes(c, Without({t} \X {s \in RowTimes : s <= OldestBatch(t)}), at[c])
    PROVE  RetIInv' /\ GoesWell
<1> USE RetBounds
<1>1. PICK last, left : last = OldestBatch(t) /\ left = Without({t} \X {s \in RowTimes : s <= OldestBatch(t)})
  OBVIOUS
<1>2. last \in Nat
  <2>1. Count({t}) \in Nat /\ Count({t}) # 0
    BY CountBounds, StepTypes DEF DoneWith
  <2>2. PICK n : n = Lesser(BatchRows, Count({t}))
    OBVIOUS
  <2>3. n \in Nat /\ n >= 1 /\ n <= Count({t})
    BY <2>1, <2>2 DEF Lesser
  <2>4. Nth({t}, n) \in RowTimes
    BY <2>3, NthFacts, StepTypes
  <2>5. QED
    BY <1>1, <2>2, <2>4 DEF OldestBatch, RowTimes
<1> DEFINE dead == {t} \X {s \in RowTimes : s <= last}
<1>3. \A u \in Tables, s \in RowTimes : <<u, s>> \in dead <=> u = t /\ s <= last
  OBVIOUS
<1>4. /\ left \in Holding
      /\ \A u \in Tables, s \in RowTimes : /\ left[u][s] <= rows[u][s]
                                           /\ <<u, s>> \in dead => left[u][s] = 0
                                           /\ <<u, s>> \notin dead => left[u][s] = rows[u][s]
  BY <1>1, WithoutFacts, StepTypes
<1> HIDE DEF dead
<1>5. at[c] \in CleanupStates /\ Goes(c, left, at[c])
  BY <1>1, StepTypes
<1>6. /\ rows' = left /\ \A d \in Callers : d # c => at'[d] = at[d]
      /\ at'[c].step = "size" /\ at'[c].cut = at[c].cut /\ at'[c].begun = at[c].begun
      /\ at'[c].table = t /\ at'[c].grew = at[c].grew
  <2>1. at \in [Callers -> CleanupStates]
    BY StepTypes DEF RetTypes
  <2>2. QED
    BY <1>5, <2>1, GoesFacts
<1>7. hour' = hour
  BY DEF Keeps
<1>8. Emptied(c)
  BY StepTypes DEF Own
<1>9. \A u \in TrimmedBefore(t) : u \in Tables
  BY DEF TrimmedBefore, Tables, Metrics
<1>10. Own(c)'
  <2>1. at[c].cut <= hour /\ at[c].begun <= hour
    BY StepTypes DEF Own
  <2>2. \A u \in TrimmedBefore(t), r \in RowTimes : rows'[u][r] > 0 => rows[u][r] > 0
    <3>1. ASSUME NEW u \in TrimmedBefore(t), NEW r \in RowTimes, rows'[u][r] > 0
          PROVE  rows[u][r] > 0
      <4>1. rows'[u][r] = 0 \/ rows'[u][r] = rows[u][r]
        BY <1>4, <1>6, <1>9
      <4>2. QED
        BY <3>1, <4>1
    <3>2. QED
      BY <3>1
  <2>3. ~at[c].grew => \A u \in TrimmedBefore(t), r \in RowTimes : rows'[u][r] > 0 => r >= at[c].begun
    BY <1>8, <2>2, Zenon DEF Emptied
  <2>4. Emptied(c)'
    BY <1>6, <2>3 DEF Emptied, TrimmedBefore
  <2>5. Exact(c)'
    BY <1>6 DEF Exact
  <2>6. QED
    BY <1>6, <1>7, <2>1, <2>4, <2>5 DEF Own
<1>11. RetIInv'
  BY <1>4, <1>5, <1>10, GoesKeeps
<1>12. \A u \in Tables, s \in RowTimes : Gone(u, s) => u = t /\ s <= last
  <2>1. ASSUME NEW u \in Tables, NEW s \in RowTimes, Gone(u, s)
        PROVE  u = t /\ s <= last
    <3>1. rows'[u][s] # rows[u][s]
      <4>1. rows[u][s] \in Nat
        BY StepTypes
      <4>2. QED
        BY <2>1, <4>1 DEF Gone
    <3>2. QED
      BY <1>3, <1>4, <1>6, <3>1
  <2>2. QED
    BY <2>1
<1>13. \A s \in RowTimes : StillThere(t, s) => ~(s <= last)
  <2>1. ASSUME NEW s \in RowTimes, s <= last
        PROVE  ~StillThere(t, s)
    <3>1. rows'[t][s] = 0
      BY <1>3, <1>4, <1>6, <2>1
    <3>2. QED
      BY <3>1 DEF StillThere
  <2>2. QED
    BY <2>1
<1>14. \A u \in Tables, r, s \in RowTimes : Gone(u, r) /\ StillThere(u, s) => r <= s
  <2>1. ASSUME NEW u \in Tables, NEW r \in RowTimes, NEW s \in RowTimes, Gone(u, r), StillThere(u, s)
        PROVE  r <= s
    <3>1. u = t /\ r <= last
      BY <1>12, <2>1
    <3>2. ~(s <= last)
      BY <1>13, <2>1, <3>1
    <3>3. r \in Nat /\ s \in Nat
      BY DEF RowTimes
    <3>4. QED
      BY <1>2, <3>1, <3>2, <3>3
  <2>2. QED
    BY <2>1
<1>15. \A d \in Callers : at[d].step \in {"below", "equal"} => at'[d] = at[d]
  BY <1>6
<1>16. OldestGo /\ ExactGo
  BY <1>14, <1>15 DEF OldestGo, ExactGo
<1>17. LogsGo
  <2> SUFFICES ASSUME NEW s \in RowTimes, Gone("logs", s)
               PROVE  at[c].step = "size" /\ (~at[c].grew => \A u \in Tables \ {"logs"}, r \in RowTimes :
                                                               rows[u][r] > 0 => r >= at[c].begun)
    BY Zenon DEF LogsGo
  <2>1. "logs" \in Tables
    BY DEF Tables
  <2>2. t = "logs"
    BY <1>12, <2>1
  <2>3. TrimmedBefore(at[c].table) = Tables \ {"logs"}
    BY <2>2 DEF TrimmedBefore
  <2>4. QED
    BY <1>8, <2>3, Zenon DEF Emptied
<1>18. QED
  BY <1>11, <1>16, <1>17 DEF GoesWell

LEMMA SizeIsSafe ==
    ASSUME RetIInv, NEW c \in Callers, TrimSize(c)
    PROVE  RetIInv' /\ GoesWell
<1> USE RetBounds, StepTypes
<1>1. PICK t : t = at[c].table /\ t \in Tables \cup {"end"}
  BY DEF CleanupStates
<1>2. at[c].step = "size" /\ Keeps /\ hour' = hour
  BY DEF TrimSize, Keeps
<1>3. at[c].cut <= hour /\ at[c].begun <= hour /\ Emptied(c)
  BY DEF Own
<1>4. CASE t = "end"
  <2> DEFINE change == [at[c] EXCEPT !.step = "vacuum"]
  <2>1. Goes(c, rows, change)
    BY <1>1, <1>4 DEF TrimSize
  <2>2. /\ change \in CleanupStates /\ change.step = "vacuum" /\ change.cut = at[c].cut
        /\ change.begun = at[c].begun
    BY DEF CleanupStates, CleanupSteps
  <2> HIDE DEF change
  <2>3. /\ rows' = rows /\ at'[c].step = "vacuum" /\ at'[c].cut = at[c].cut
        /\ at'[c].begun = at[c].begun
    BY <2>1, <2>2, GoesFacts DEF RetTypes
  <2>4. Own(c)'
    BY <1>2, <1>3, <2>3 DEF Own, Exact, Emptied
  <2>5. QED
    BY <1>2, <2>1, <2>2, <2>3, <2>4, GoesKeeps, NothingGone
<1>5. CASE t \in Tables /\ DoneWith(t)
  <2> DEFINE grew == at[c].grew \/ Count({t}) # 0
             change == [at[c] EXCEPT !.table = After(t), !.grew = grew]
  <2>1. Goes(c, rows, change)
    <3>1. t # "end"
      BY <1>5 DEF Tables
    <3>2. Goes(c, rows, [at[c] EXCEPT !.table = After(t), !.grew = @ \/ Count({t}) # 0])
      BY <1>1, <1>5, <3>1 DEF TrimSize
    <3>3. QED
      BY <3>2
  <2>2. grew \in BOOLEAN
    BY Zenon
  <2>3. ~grew => ~at[c].grew /\ Count({t}) = 0
    BY Zenon
  <2> HIDE DEF grew
  <2>4. /\ change \in CleanupStates /\ change.step = "size" /\ change.cut = at[c].cut
        /\ change.begun = at[c].begun /\ change.table = After(t) /\ change.grew = grew
    BY <1>2, <1>5, <2>2, AfterFacts DEF CleanupStates
  <2> HIDE DEF change
  <2>5. /\ rows' = rows /\ at'[c].step = "size" /\ at'[c].cut = at[c].cut
        /\ at'[c].begun = at[c].begun /\ at'[c].table = After(t) /\ at'[c].grew = grew
    BY <2>1, <2>4, GoesFacts DEF RetTypes
  <2>6. ~grew => \A r \in RowTimes : rows[t][r] = 0
    <3> SUFFICES ASSUME ~grew PROVE \A r \in RowTimes : rows[t][r] = 0
      OBVIOUS
    <3>1. HowMany(rows, {t}, LastHour) = 0
      BY <2>3, CountFacts
    <3>2. {t} \in SUBSET Tables /\ rows \in Holding
      BY <1>5
    <3>3. \A u \in {t}, h \in 1 .. LastHour : rows[u][h] = 0
      BY <3>1, <3>2, NoRows, AllOfThem, Zenon
    <3>4. QED
      BY <3>3 DEF RowTimes
  <2>7. ~grew => \A u \in TrimmedBefore(After(t)), r \in RowTimes : rows[u][r] > 0 => r >= at[c].begun
    <3> SUFFICES ASSUME ~grew, NEW u \in TrimmedBefore(After(t)), NEW r \in RowTimes, rows[u][r] > 0
                 PROVE  r >= at[c].begun
      BY Zenon
    <3>1. u \in TrimmedBefore(t) \/ u = t
      BY <1>5, AfterFacts
    <3>2. u # t
      BY <2>6
    <3>3. ~at[c].grew /\ u \in TrimmedBefore(at[c].table)
      BY <1>1, <2>3, <3>1, <3>2
    <3>4. QED
      BY <1>2, <1>3, <3>3, Zenon DEF Emptied
  <2>8. Emptied(c)'
    BY <2>5, <2>7 DEF Emptied, TrimmedBefore
  <2>9. Own(c)'
    BY <1>2, <1>3, <2>5, <2>8 DEF Own, Exact
  <2>10. QED
    BY <1>2, <2>1, <2>4, <2>5, <2>9, GoesKeeps, NothingGone
<1>6. CASE t \in Tables /\ ~DoneWith(t)
  <2>1. t # "end"
    BY <1>6 DEF Tables
  <2>2. Goes(c, Without({t} \X {s \in RowTimes : s <= OldestBatch(t)}), at[c])
    BY <1>1, <1>6, <2>1 DEF TrimSize
  <2>3. QED
    BY <1>1, <1>2, <1>6, <2>2, BatchIsSafe
<1>7. QED
  BY <1>1, <1>4, <1>5, <1>6

LEMMA InsertIsSafe ==
    ASSUME RetIInv, NEW t \in Tables, Insert(t)
    PROVE  RetIInv' /\ GoesWell
<1> USE RetBounds
<1>1. RetTypes /\ Accounted /\ Alone /\ \A d \in Callers : Own(d)
  BY RetIInvIs
<1>2. /\ inserts < MaxInserts /\ inserts' = inserts + 1 /\ hour' = hour /\ at' = at
      /\ failures' = failures /\ together' = together
      /\ rows' = [rows EXCEPT ![t][hour] = @ + 1]
      /\ alloc' = IF alloc > Count(Tables) THEN alloc ELSE alloc + 1
  BY DEF Insert
<1>3. /\ inserts \in Nat /\ hour \in RowTimes /\ alloc \in Nat /\ hour \in Nat
      /\ \A u \in Tables, s \in RowTimes : rows[u][s] \in Nat /\ rows[u][s] <= inserts
  BY <1>1 DEF RetTypes, Accounted, Holding
<1>4. /\ rows'[t][hour] = rows[t][hour] + 1
      /\ \A u \in Tables, s \in RowTimes : u # t \/ s # hour => rows'[u][s] = rows[u][s]
  BY <1>1, <1>2, <1>3 DEF RetTypes, Holding
<1>5. rows' \in Holding
  <2>1. rows[t][hour] + 1 \in 0 .. MaxInserts
    BY <1>2, <1>3
  <2>2. QED
    BY <1>1, <1>2, <1>3, <2>1 DEF RetTypes, Holding
<1>6. Count(Tables)' = Count(Tables) + 1 /\ Count(Tables) \in Nat
  <2>1. HowMany(rows', Tables, LastHour) = HowMany(rows, Tables, LastHour) + 1
    BY <1>1, <1>2, <1>3, <1>5, OneMoreRow DEF RetTypes
  <2>2. QED
    BY <1>1, <2>1, CountFacts, CountBounds, AllOfThem
<1>7. Count(Tables) <= inserts /\ Count(Tables) <= alloc
  BY <1>1 DEF Accounted
<1>8. RetTypes'
  <2>1. alloc' \in Nat /\ inserts' \in 0 .. MaxInserts
    BY <1>2, <1>3, <1>6
  <2>2. QED
    BY <1>1, <1>2, <1>5, <2>1 DEF RetTypes
<1>9. \A u \in Tables, s \in RowTimes : rows'[u][s] >= rows[u][s] /\ rows'[u][s] <= rows[u][s] + 1
                                        /\ (s < hour => rows'[u][s] = rows[u][s])
  <2>1. ASSUME NEW u \in Tables, NEW s \in RowTimes
        PROVE  rows'[u][s] >= rows[u][s] /\ rows'[u][s] <= rows[u][s] + 1
               /\ (s < hour => rows'[u][s] = rows[u][s])
    <3>1. CASE u = t /\ s = hour
      BY <1>3, <1>4, <3>1
    <3>2. CASE u # t \/ s # hour
      <4>1. rows'[u][s] = rows[u][s] /\ rows[u][s] \in Nat
        BY <1>3, <1>4, <3>2
      <4>2. QED
        BY <4>1
    <3>3. QED
      BY <3>1, <3>2
  <2>2. QED
    BY <2>1
<1>10. Accounted'
  <2>1. ASSUME NEW u \in Tables, NEW s \in RowTimes
        PROVE  rows'[u][s] <= inserts' /\ (rows'[u][s] > 0 => s <= hour')
    <3>1. rows'[u][s] <= inserts'
      <4>1. rows'[u][s] \in Nat
        BY <1>5 DEF Holding
      <4>2. QED
        BY <1>2, <1>3, <1>9, <4>1
    <3>2. rows[u][s] > 0 => s <= hour
      BY <1>1 DEF Accounted
    <3>3. rows'[u][s] = rows[u][s] \/ s = hour
      BY <1>4
    <3>4. QED
      BY <1>2, <1>3, <3>1, <3>2, <3>3
  <2>2. Count(Tables)' <= inserts' /\ Count(Tables)' <= alloc'
    BY <1>2, <1>3, <1>6, <1>7
  <2>3. QED
    BY <2>1, <2>2 DEF Accounted
<1>11. Alone'
  BY <1>1, <1>2 DEF Alone
<1>12. ASSUME NEW d \in Callers
       PROVE  Own(d)'
  <2>1. Own(d)
    BY <1>1
  <2>2. PICK cut, need : cut = at[d].cut /\ need = at[d].need
    OBVIOUS
  <2>3. cut \in 0 .. LastHour /\ cut \in Nat /\ need \in Nat /\ at[d].begun \in Nat
    BY <1>1, <2>2 DEF RetTypes, CleanupStates
  <2>4. cut <= hour /\ at[d].begun <= hour
    BY <2>1, <2>2 DEF Own
  <2>5. \A u \in Metrics, s \in RowTimes : s < cut => rows'[u][s] = rows[u][s]
    BY <1>3, <1>9, <2>3, <2>4
  <2>6. Count(Metrics)' >= Count(Metrics)
    <3>1. \A u \in Metrics, h \in 1 .. LastHour : rows[u][h] <= rows'[u][h]
      BY <1>3, <1>5, <1>9 DEF RowTimes, Holding
    <3>2. rows \in Holding /\ Metrics \in SUBSET Metrics
      BY <1>1 DEF RetTypes
    <3>3. HowMany(rows, Metrics, LastHour) <= HowMany(rows', Metrics, LastHour)
      BY <1>5, <3>1, <3>2, FewerRows, AllOfThem
    <3>4. HowMany(rows, Metrics, LastHour) \in Nat /\ HowMany(rows', Metrics, LastHour) \in Nat
      BY <1>5, <3>2, RowFacts, AllOfThem DEF HowMany
    <3>5. QED
      BY <3>3, <3>4, CountFacts
  <2>7. HowMany(rows', Metrics, cut - 1) <= HowMany(rows, Metrics, cut - 1)
    <3>1. cut - 1 \in Int /\ cut - 1 <= LastHour /\ cut - 1 <= cut - 1
      BY <2>3
    <3>2. \A u \in Metrics, h \in 1 .. cut - 1 : rows'[u][h] <= rows[u][h]
      <4>1. ASSUME NEW u \in Metrics, NEW h \in 1 .. cut - 1
            PROVE  rows'[u][h] <= rows[u][h]
        <5>1. h \in RowTimes /\ h < cut /\ u \in Tables
          BY <2>3 DEF RowTimes
        <5>2. rows'[u][h] = rows[u][h] /\ rows[u][h] \in Nat
          BY <1>3, <2>5, <5>1
        <5>3. QED
          BY <5>2
      <4>2. QED
        BY <4>1
    <3>3. rows \in Holding /\ Metrics \in SUBSET Metrics
      BY <1>1 DEF RetTypes
    <3>4. QED
      BY <1>5, <3>1, <3>2, <3>3, FewerRows, AllOfThem
  <2>8. Older(Metrics, at[d].cut - 1)' <= Older(Metrics, at[d].cut - 1)
    <3>1. Older(Metrics, at[d].cut - 1)' = HowMany(rows', Metrics, cut - 1)
      BY <1>2, <2>2 DEF Older, RowsOf, HowMany, AllRows
    <3>2. Older(Metrics, at[d].cut - 1) = HowMany(rows, Metrics, cut - 1)
      BY <2>2, CountFacts
    <3>3. QED
      BY <2>7, <3>1, <3>2
  <2>9. /\ Older(Metrics, at[d].cut - 1)' \in Nat /\ Older(Metrics, at[d].cut - 1) \in Nat
        /\ Count(Metrics) \in Nat /\ Count(Metrics)' \in Nat
    <3>1. cut - 1 \in Int /\ cut - 1 <= LastHour
      BY <2>3
    <3>2. rows \in Holding
      BY <1>1 DEF RetTypes
    <3>3. /\ HowMany(rows', Metrics, cut - 1) \in Nat /\ HowMany(rows, Metrics, cut - 1) \in Nat
          /\ HowMany(rows', Metrics, LastHour) \in Nat /\ HowMany(rows, Metrics, LastHour) \in Nat
      BY <1>5, <3>1, <3>2, RowFacts, AllOfThem DEF HowMany
    <3>4. Older(Metrics, at[d].cut - 1)' = HowMany(rows', Metrics, cut - 1)
      BY <1>2, <2>2 DEF Older, RowsOf, HowMany, AllRows
    <3>5. Older(Metrics, at[d].cut - 1) = HowMany(rows, Metrics, cut - 1)
      BY <2>2, CountFacts
    <3>6. QED
      BY <3>3, <3>4, <3>5, CountFacts
  <2>10. Exact(d) => Exact(d)'
    <3> SUFFICES ASSUME Exact(d) PROVE Exact(d)'
      OBVIOUS
    <3>1. at'[d].step \in {"cut", "below", "equal"} => Count(Metrics)' >= at'[d].need + MaxMetrics
      <4>1. at[d].step \in {"cut", "below", "equal"} => Count(Metrics) >= need + MaxMetrics
        BY <2>2 DEF Exact
      <4>2. QED
        BY <1>2, <2>2, <2>3, <2>6, <2>9, <4>1
    <3>2. at'[d].step = "below" => Older(Metrics, at[d].cut - 1)' < at'[d].need
      <4>1. at[d].step = "below" => Older(Metrics, at[d].cut - 1) < need
        BY <2>2 DEF Exact
      <4>2. QED
        BY <1>2, <2>2, <2>3, <2>8, <2>9, <4>1
    <3>3. QED
      BY <3>1, <3>2 DEF Exact
  <2>11. Emptied(d)'
    <3>1. \A u \in TrimmedBefore(at[d].table) : u \in Tables
      BY DEF TrimmedBefore, Tables, Metrics
    <3>2. \A u \in TrimmedBefore(at[d].table), r \in RowTimes :
            rows'[u][r] > 0 => rows[u][r] > 0 \/ r >= at[d].begun
      <4>1. ASSUME NEW u \in TrimmedBefore(at[d].table), NEW r \in RowTimes, rows'[u][r] > 0
            PROVE  rows[u][r] > 0 \/ r >= at[d].begun
        <5>1. rows'[u][r] = rows[u][r] \/ r = hour
          BY <1>4, <3>1
        <5>2. hour >= at[d].begun
          BY <1>3, <2>3, <2>4
        <5>3. QED
          BY <4>1, <5>1, <5>2
      <4>2. QED
        BY <4>1
    <3>3. Emptied(d)
      BY <2>1 DEF Own
    <3>4. at[d].step = "size" /\ ~at[d].grew =>
            \A u \in TrimmedBefore(at[d].table), r \in RowTimes : rows'[u][r] > 0 => r >= at[d].begun
      BY <3>2, <3>3, Zenon DEF Emptied
    <3>5. QED
      BY <1>2, <3>4 DEF Emptied, TrimmedBefore
  <2>12. \A u \in Metrics, s \in RowTimes :
           at'[d].step \in {"recount", "equal"} /\ s < at'[d].cut => rows'[u][s] = 0
    BY <1>2, <2>1, <2>2, <2>5 DEF Own
  <2>13. QED
    BY <1>2, <2>1, <2>2, <2>4, <2>10, <2>11, <2>12 DEF Own
<1>13. \A d \in Callers : Own(d)'
  BY <1>12
<1>14. RetIInv'
  BY <1>8, <1>10, <1>11, <1>13, Zenon DEF RetIInv, CutIsClean, OneAtATime, LogsWait, Own, Alone
<1>15. \A u \in Tables, s \in RowTimes : ~Gone(u, s)
  <2>1. ASSUME NEW u \in Tables, NEW s \in RowTimes
        PROVE  ~Gone(u, s)
    <3>1. rows'[u][s] \in Nat
      BY <1>5 DEF Holding
    <3>2. rows'[u][s] >= rows[u][s] /\ rows[u][s] \in Nat
      BY <1>3, <1>9
    <3>3. QED
      BY <3>1, <3>2 DEF Gone
  <2>2. QED
    BY <2>1
<1>16. GoesWell
  <2>1. "logs" \in Tables
    BY DEF Tables
  <2>2. QED
    BY <1>2, <1>15, <2>1 DEF GoesWell, OldestGo, ExactGo, LogsGo
<1>17. QED
  BY <1>14, <1>16

LEMMA TimeIsSafe ==
    ASSUME RetIInv, TimeGoesOn
    PROVE  RetIInv' /\ GoesWell
<1> USE RetBounds
<1>1. RetTypes /\ Accounted /\ Alone /\ \A d \in Callers : Own(d)
  BY RetIInvIs
<1>2. /\ hour < LastHour /\ hour' = hour + 1 /\ rows' = rows /\ at' = at
      /\ inserts' = inserts /\ failures' = failures /\ together' = together /\ alloc' = alloc
  BY DEF TimeGoesOn
<1>3. hour \in Nat /\ hour' \in RowTimes
  BY <1>1, <1>2 DEF RetTypes, RowTimes
<1>4. RetTypes'
  BY <1>1, <1>2, <1>3 DEF RetTypes
<1>5. Count(Tables)' = Count(Tables)
  BY <1>2, CountFacts
<1>6. Accounted'
  <2>1. ASSUME NEW u \in Tables, NEW s \in RowTimes
        PROVE  rows[u][s] <= inserts /\ (rows[u][s] > 0 => s <= hour')
    <3>1. rows[u][s] <= inserts /\ (rows[u][s] > 0 => s <= hour)
      BY <1>1 DEF Accounted
    <3>2. s \in Nat
      BY DEF RowTimes
    <3>3. QED
      BY <1>2, <1>3, <3>1, <3>2
  <2>2. Count(Tables) <= inserts /\ Count(Tables) <= alloc
    BY <1>1 DEF Accounted
  <2>3. QED
    BY <1>2, <1>5, <2>1, <2>2 DEF Accounted
<1>7. Alone'
  BY <1>1, <1>2 DEF Alone
<1>8. ASSUME NEW d \in Callers
      PROVE  Own(d)'
  <2>1. Own(d)
    BY <1>1
  <2>2. at[d].cut \in Nat /\ at[d].begun \in Nat
    BY <1>1 DEF RetTypes, CleanupStates
  <2>3. at'[d].cut <= hour' /\ at'[d].begun <= hour'
    <3>1. at[d].cut <= hour /\ at[d].begun <= hour
      BY <2>1 DEF Own
    <3>2. QED
      BY <1>2, <1>3, <2>2, <3>1
  <2>4. (Exact(d) => Exact(d)') /\ (Emptied(d) => Emptied(d)')
    BY <1>2 DEF Exact, Emptied, TrimmedBefore, Count, Older, RowsOf
  <2>5. QED
    BY <1>2, <2>1, <2>3, <2>4 DEF Own
<1>9. \A d \in Callers : Own(d)'
  BY <1>8
<1>10. RetIInv'
  BY <1>4, <1>6, <1>7, <1>9, Zenon DEF RetIInv, CutIsClean, OneAtATime, LogsWait, Own, Alone
<1>11. QED
  BY <1>1, <1>2, <1>10, NothingGone

\* Nothing that counts changes.
LEMMA RestIsSafe ==
    ASSUME RetIInv, UNCHANGED <<rows, hour, alloc, at, inserts, failures, together>>
    PROVE  RetIInv' /\ GoesWell
<1>1. /\ rows' = rows /\ hour' = hour /\ alloc' = alloc /\ at' = at /\ inserts' = inserts
      /\ failures' = failures /\ together' = together
  OBVIOUS
<1>2. RetTypes /\ Accounted /\ CutIsClean /\ OneAtATime /\ LogsWait
  BY DEF RetIInv
<1>3. RetTypes'
  BY <1>1, <1>2 DEF RetTypes
<1>4. Accounted'
  BY <1>1, <1>2 DEF Accounted, Count, Older, RowsOf
<1>5. CutIsClean'
  BY <1>1, <1>2 DEF CutIsClean
<1>6. OneAtATime'
  <2>1. \A d \in Callers : Exact(d) => Exact(d)'
    BY <1>1 DEF Exact, Count, Older, RowsOf
  <2>2. QED
    BY <1>1, <1>2, <2>1 DEF OneAtATime
<1>7. LogsWait'
  BY <1>1, <1>2 DEF LogsWait, Emptied, TrimmedBefore
<1>8. GoesWell
  BY <1>1, <1>2, NothingGone
<1>9. QED
  BY <1>3, <1>4, <1>5, <1>6, <1>7, <1>8 DEF RetIInv

LEMMA RetIInvInit ==
    ASSUME RetentionInit
    PROVE  RetIInv
<1> USE RetBounds
<1>1. /\ rows = [t \in Tables |-> [s \in RowTimes |-> 0]] /\ hour = 1 /\ alloc = 0
      /\ at = [c \in Callers |-> AtRest] /\ inserts = 0 /\ failures = 0 /\ together = FALSE
  BY DEF RetentionInit
<1>2. 0 \in 0 .. MaxInserts /\ 1 \in RowTimes
  BY DEF RowTimes
<1>3. RetTypes
  <2>1. rows \in Holding
    BY <1>1, <1>2 DEF Holding
  <2>2. at \in [Callers -> CleanupStates]
    BY <1>1, RestFacts
  <2>3. QED
    BY <1>1, <1>2, <2>1, <2>2 DEF RetTypes
<1>4. \A c \in Callers : at[c].step = "idle" /\ at[c].cut = 0 /\ at[c].begun = 0
  BY <1>1, RestFacts
<1>5. Accounted
  <2>1. \A t \in Tables, h \in 1 .. LastHour : rows[t][h] = 0
    BY <1>1 DEF RowTimes
  <2>2. HowMany(rows, Tables, LastHour) = 0
    BY <1>3, <2>1, NoRows, AllOfThem DEF RetTypes
  <2>3. Count(Tables) = 0
    BY <2>2, CountFacts
  <2>4. \A t \in Tables, s \in RowTimes : rows[t][s] = 0
    BY <1>1
  <2>5. QED
    BY <1>1, <2>3, <2>4 DEF Accounted
<1>6. CutIsClean
  BY <1>1, <1>4 DEF CutIsClean
<1>7. OneAtATime
  BY <1>4 DEF OneAtATime, Exact
<1>8. LogsWait
  BY <1>4 DEF LogsWait, Emptied
<1>9. QED
  BY <1>3, <1>5, <1>6, <1>7, <1>8 DEF RetIInv

LEMMA RetIInvStep ==
    ASSUME RetIInv, [RetentionNext]_retentionVars
    PROVE  RetIInv' /\ GoesWell
<1>1. ASSUME NEW c \in Callers, BeginCleanup(c) \/ Cleans(c) \/ StepFails(c)
      PROVE  RetIInv' /\ GoesWell
  <2>1. CASE BeginCleanup(c)
    BY <2>1, BeginIsSafe
  <2>2. CASE DeleteOld(c)
    BY <2>2, DeleteOldIsSafe
  <2>3. CASE CountRows(c)
    BY <2>3, CountIsSafe
  <2>4. CASE FindCut(c)
    BY <2>4, FindIsSafe
  <2>5. CASE DeleteBelow(c)
    BY <2>5, BelowIsSafe
  <2>6. CASE Recount(c)
    BY <2>6, RecountIsSafe
  <2>7. CASE DeleteEqual(c)
    BY <2>7, EqualIsSafe
  <2>8. CASE TrimSize(c)
    BY <2>8, SizeIsSafe
  <2>9. CASE Vacuum(c)
    BY <2>9, VacuumIsSafe
  <2>10. CASE StepFails(c)
    BY <2>10, FailIsSafe
  <2>11. QED
    BY <1>1, <2>1, <2>2, <2>3, <2>4, <2>5, <2>6, <2>7, <2>8, <2>9, <2>10 DEF Cleans
<1>2. ASSUME NEW t \in Written, Insert(t)
      PROVE  RetIInv' /\ GoesWell
  <2>1. t \in Tables
    BY RetBounds
  <2>2. QED
    BY <1>2, <2>1, InsertIsSafe
<1>3. CASE TimeGoesOn
  BY <1>3, TimeIsSafe
<1>4. CASE Checkpoint
  BY <1>4, RestIsSafe DEF Checkpoint
<1>5. CASE UNCHANGED retentionVars
  BY <1>5, RestIsSafe DEF retentionVars
<1>6. QED
  BY <1>1, <1>2, <1>3, <1>4, <1>5 DEF RetentionNext

LEMMA RetIInvTypes ==
    ASSUME RetIInv
    PROVE  RetentionTypeOK
<1>1. RetTypes /\ Accounted
  BY DEF RetIInv
<1>2. \A c \in Callers : at[c].cut \in 0 .. LastHour /\ at[c].need \in 0 .. MaxInserts
  BY <1>1 DEF RetTypes, CleanupStates
<1>3. Count(Tables) \in Nat /\ alloc \in Nat /\ Count(Tables) <= alloc
  BY <1>1, CountBounds, AllOfThem DEF Accounted, RetTypes
<1>4. QED
  BY <1>1, <1>2, <1>3 DEF RetentionTypeOK, RetTypes, Holding

(* A cleanup deletes the oldest rows, no more of the metrics than the limit   *)
(* asks for as long as one runs at a time, and takes logs for the size of the *)
(* file only when what is older is gone from the other tables; whatever is    *)
(* written meanwhile and whichever step fails.                                *)
THEOREM TheOldestGoFirst == RetentionSpec => TrimHolds
<1>1. RetentionInit => RetIInv
  BY RetIInvInit
<1>2. RetIInv /\ [RetentionNext]_retentionVars => RetIInv'
  BY RetIInvStep
<1>3. RetIInv => RetentionTypeOK
  BY RetIInvTypes
<1>4. RetIInv /\ [RetentionNext]_retentionVars =>
        [/\ \A t \in Tables, r, s \in RowTimes : Gone(t, r) /\ StillThere(t, s) => r <= s
         /\ (\E c \in Callers : at[c].step \in {"below", "equal"} /\ at'[c] # at[c]) =>
               \A t, u \in Metrics, r, s \in RowTimes : Gone(t, r) /\ StillThere(u, s) => r <= s]_retentionVars
  BY RetIInvStep, Zenon DEF GoesWell, OldestGo
<1>5. RetIInv /\ [RetentionNext]_retentionVars =>
        [\A c \in Callers : at[c].step \in {"below", "equal"} /\ at'[c] # at[c] /\ rows' # rows /\ ~together
           => Count(Metrics)' >= MaxMetrics]_retentionVars
  BY RetIInvStep, Zenon DEF GoesWell, ExactGo
<1>6. RetIInv /\ [RetentionNext]_retentionVars =>
        [\A s \in RowTimes : Gone("logs", s) /\ s + Keep["logs"] >= hour =>
           \E c \in Callers : /\ at[c].step = "size"
                              /\ ~at[c].grew => \A t \in Tables \ {"logs"}, r \in RowTimes :
                                                   rows[t][r] > 0 => r >= at[c].begun]_retentionVars
  BY RetIInvStep, Zenon DEF GoesWell, LogsGo
<1>7. QED
  BY <1>1, <1>2, <1>3, <1>4, <1>5, <1>6, PTL DEF RetentionSpec, TrimHolds, OldestFirst, TrimIsExact, LogsGoLast

=============================================================================
