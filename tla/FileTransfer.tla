---------------------------- MODULE FileTransfer ----------------------------
(* Transfers of files to and from one device: the slot that lets one run at a *)
(* time, the table of jobs with its lazy sweep, and the work directories.     *)
(* A download ends after its response, in a background task that is skipped   *)
(* when the connection breaks; a pull of many files may outlast the grace.    *)
EXTENDS Naturals, FiniteSets

CONSTANTS
    MaxJobs,   \* bound: transfers begun
    Grace,     \* TRANSFER_TIMEOUT + 120
    TTL,       \* JOB_TTL_SECONDS
    Stale      \* STALE_TMPDIR_MINUTES

ASSUME FileAssumption == MaxJobs \in Nat /\ Grace \in Nat /\ TTL \in Nat /\ Stale \in Nat

VARIABLES
    jobs,     \* every transfer begun: its entry in _jobs while listed, its directory, its coroutine
    made,     \* transfers begun
    busy,     \* _busy holds the device
    forced,   \* history: transfers the sweep failed while they were still at work
    asked     \* history: flips when a transfer is refused

fileVars == <<jobs, made, busy, forced, asked>>

Ids == 1..MaxJobs
Cap(limit, n) == IF n > limit THEN limit ELSE n
NotYet == [phase |-> "none", status |-> "none", listed |-> FALSE,
           age |-> 0, ended |-> 0, ref |-> FALSE, tmp |-> FALSE]

FileInit == /\ jobs = [j \in Ids |-> NotYet] /\ made = 0 /\ busy = FALSE
            /\ forced = {} /\ asked = FALSE

Working(j) == j.phase \in {"pull", "http", "push"}

(* _sweep: what has run too long is failed and gives the slot back, what has  *)
(* ended long ago leaves the table, and old directories of nobody are removed *)
TooLong(j) == j.listed /\ j.status = "running" /\ j.age > Grace
EndedLong(j) == j.listed /\ j.status # "running" /\ j.ended > TTL
\* faulty variant: the directories in use are not spared
OldDirAny(j) == j.tmp /\ j.age > Stale
OldDir(j) == j.tmp /\ ~j.ref /\ j.age > Stale

GivenUp(j) == [j EXCEPT !.status = "failed", !.ended = 0, !.ref = FALSE, !.tmp = FALSE]

Swept(j) ==
    LET f == IF TooLong(j) THEN GivenUp(j)
             ELSE IF EndedLong(j) THEN [j EXCEPT !.listed = FALSE, !.ref = FALSE, !.tmp = @ /\ ~j.ref]
             ELSE j
    IN  IF OldDir(f) THEN [f EXCEPT !.tmp = FALSE] ELSE f

Late == {j \in DOMAIN jobs : TooLong(jobs[j])}
\* faulty variant: the sweep fails the transfer and keeps the slot
FreedNot == FALSE
Freed == Late # {}
Sweep == forced' = forced \union {j \in Late : Working(jobs[j])} /\ UNCHANGED asked

\* get_job of a page, or a transfer of another device.
PollJob == /\ jobs' = [j \in Ids |-> Swept(jobs[j])]
        /\ busy' = (busy /\ ~Freed)
        /\ Sweep /\ UNCHANGED made

\* prepare_download, upload: the slot is taken first, and only then _new_job sweeps.
\* Where no directory can be made (mkdtemp stands before the try) the request fails,
\* its job runs on in the table, and the slot stays taken.
Begins(entry) ==
    /\ made < MaxJobs /\ ~busy
    /\ made' = made + 1 /\ busy' = ~Freed
    /\ jobs' = [j \in Ids |-> IF j = made + 1 THEN entry ELSE Swept(jobs[j])]
    /\ Sweep
NewJob(kind, placed) == [NotYet EXCEPT !.phase = kind, !.status = "running", !.listed = TRUE,
                                      !.ref = placed, !.tmp = placed]
BeginTransfer(kind) == Begins(NewJob(kind, TRUE)) \/ Begins(NewJob("over", FALSE))

Refused == /\ busy /\ asked' = ~asked /\ UNCHANGED <<jobs, made, busy, forced>>

KeepsCount == UNCHANGED <<made, forced, asked>>
Release == busy' = FALSE

Pulled(j) == /\ jobs[j].phase = "pull" /\ jobs[j].tmp
             /\ jobs' = [jobs EXCEPT ![j].phase = "http"]
             /\ UNCHANGED busy /\ KeepsCount

\* The except of a download, and both ends of an upload.
EndsWith(j, status) ==
    /\ jobs' = [jobs EXCEPT ![j] = [@ EXCEPT !.phase = "over", !.status = status, !.ended = 0,
                                             !.ref = FALSE, !.tmp = FALSE]]
    /\ Release /\ KeepsCount

PullFails(j) == jobs[j].phase = "pull" /\ EndsWith(j, "failed")
PushEnds(j) == jobs[j].phase = "push" /\ \E s \in {"done", "failed"} :
                   (s = "done" => jobs[j].tmp) /\ EndsWith(j, s)

Finished(j) == [j EXCEPT !.phase = "over", !.ended = 0, !.ref = FALSE, !.tmp = @ /\ ~j.ref,
                         !.status = IF @ = "running" THEN "done" ELSE @]

\* finalize_download, after the response; nothing for a job that left the table.
Finalize(j) ==
    /\ jobs[j].phase = "http"
    /\ IF jobs[j].listed
       THEN jobs' = [jobs EXCEPT ![j] = Finished(@)] /\ Release
       ELSE jobs' = [jobs EXCEPT ![j].phase = "over"] /\ UNCHANGED busy
    /\ KeepsCount

\* The connection breaks in the response: finalize_download is never called.
ResponseBreaks(j) == /\ jobs[j].phase = "http"
                     /\ jobs' = [jobs EXCEPT ![j].phase = "over"]
                     /\ UNCHANGED busy /\ KeepsCount

Aged(j) == IF j.phase = "none" THEN j
            ELSE [j EXCEPT !.age = Cap((IF Grace > Stale THEN Grace ELSE Stale) + 1, @ + 1),
                           !.ended = IF j.status = "running" THEN 0 ELSE Cap(TTL + 1, @ + 1)]
TimePasses == jobs' = [j \in Ids |-> Aged(jobs[j])] /\ UNCHANGED busy /\ KeepsCount

\* The server ends and starts again: table, references and slot are gone, directories are not.
Restart == /\ \E j \in Ids : jobs[j].listed
           /\ jobs' = [j \in Ids |-> IF jobs[j].phase = "none" THEN jobs[j]
                          ELSE [jobs[j] EXCEPT !.phase = "over", !.status = "failed",
                                               !.listed = FALSE, !.ref = FALSE]]
           /\ busy' = FALSE /\ KeepsCount

Works(j) == Pulled(j) \/ PullFails(j) \/ PushEnds(j) \/ Finalize(j) \/ ResponseBreaks(j)

FileNext == \/ PollJob \/ TimePasses \/ Restart \/ Refused
            \/ \E kind \in {"pull", "push"} : BeginTransfer(kind)
            \/ \E j \in Ids : Works(j)

FileSpec == FileInit /\ [][FileNext]_fileVars

\* Transfers end, time passes, and a caller who is refused asks again. That anybody
\* looks at a job, nothing sees to: no page does, and a refused transfer sweeps nothing.
FileFairness == /\ WF_fileVars(TimePasses) /\ WF_fileVars(Refused)
                /\ \A j \in Ids : WF_fileVars(Works(j))
-----------------------------------------------------------------------------
(* The entries, directories and references of the transfers are those of the  *)
(* code: what left the table is referenced by none, and what is referenced    *)
(* is there.                                                                  *)
FileTypeOK ==
    /\ made \in 0..MaxJobs /\ busy \in BOOLEAN /\ forced \subseteq 1..made
    /\ \A j \in Ids : /\ j > made <=> jobs[j] = NotYet
                      /\ jobs[j].ref => jobs[j].listed /\ jobs[j].tmp
                      /\ jobs[j].listed => jobs[j].status # "none"

(* One transfer runs at a time, and the slot is taken exactly while the table *)
(* has one running, as long as the sweep never fails a transfer that is still *)
(* at work (_acquire, _release and their callers, file_service.py:175-326).   *)
OneTransfer ==
    forced = {} => /\ Cardinality({j \in Ids : Working(jobs[j])}) <= 1
                   /\ busy <=> \E j \in Ids : jobs[j].listed /\ jobs[j].status = "running"

(* The directory of a transfer at work stays until the sweep fails it: the    *)
(* limit for old directories is shorter than the grace of a transfer          *)
(* (file_service.py:413-424).                                                 *)
WorkHasPlace == \A j \in Ids \ forced : Working(jobs[j]) => jobs[j].tmp

(* A device becomes free again, or its transfer ended and nobody was told:    *)
(* the response broke off, or no directory could be made. Whoever is refused  *)
(* meanwhile changes nothing (file_service.py:175-326).                       *)
Stuck(j) == j.listed /\ j.status = "running" /\ j.phase = "over"
SlotIsFreed == busy ~> ~busy \/ \E j \in Ids : Stuck(jobs[j])

(* Where somebody looks at jobs again and again, or transfers with another    *)
(* device, no device stays busy, and nothing is left on the disk by a broken  *)
(* response or by a server that ended (file_service.py:391-426).              *)
StuckIsFreed == busy ~> ~busy
DirsGo == \A j \in Ids : jobs[j].phase = "over" ~> ~jobs[j].tmp
LooksHelp == WF_fileVars(PollJob) => StuckIsFreed /\ DirsGo

(* One transfer at a time, with its directory, and a table that says so       *)
(* (file_service.py:175-426).                                                 *)
FileInv == FileTypeOK /\ OneTransfer /\ WorkHasPlace

(* test_file_service.py:555 names the sweep of a new job as what frees a      *)
(* device that would be busy for ever: StuckIsFreed alone. A caller who is    *)
(* refused never gets to it, and under the fairness above it does not hold.   *)
=============================================================================
