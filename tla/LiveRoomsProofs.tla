--------------------------- MODULE LiveRoomsProofs ---------------------------
(***************************************************************************)
(* Theorems about the summary jobs of archived rooms, the stage of a live  *)
(* room and the room of a scheduled event, for every number of rooms,      *)
(* replicas, members and requests and all bounds.                          *)
(***************************************************************************)
EXTENDS SummaryJobs, RoomStage, ScheduledParty, TLAPS

(***************************************************************************)
(* Summary jobs.  OneWorkerPerAttempt is not inductive: a claim must not   *)
(* produce the attempt of somebody who is at work.  SummaryInv adds that a *)
(* worker's attempt is not ahead of the row's, unless the host's retry has *)
(* set the row back; a claim goes one beyond the row, which is beyond all. *)
(***************************************************************************)
JobsOK ==
    /\ job \in [Room -> Job]
    /\ \A m \in Room : job[m].status = "none" => job[m].attempts = 0

WorkersOK ==
    /\ stage \in [Proc -> {"idle", "load", "claim", "work"}]
    /\ saw \in [Proc -> [status : Status, attempts : 0..MaxAttempts]]
    /\ \A p \in Proc : stage[p] = "claim" => saw[p].attempts < MaxAttempts

NotAhead ==
    \A p \in Proc :
        stage[p] = "work" =>
            p \in outdated \/ saw[p].attempts <= job[RoomOf(p)].attempts

SummaryInv == JobsOK /\ WorkersOK /\ NotAhead /\ OneWorkerPerAttempt

LEMMA RoomOfType == \A p \in Proc : RoomOf(p) \in Room
  BY DEF Proc, RoomOf

LEMMA InitSummaryInv == SummaryInit => SummaryInv
  BY SummaryAssumption
  DEF SummaryInit, SummaryInv, JobsOK, WorkersOK, NotAhead, OneWorkerPerAttempt,
      NoJob, Job, Status

\* Nobody begins to work, and rows are set back only under outdated workers.
Onward ==
    \A p \in Proc :
        stage'[p] = "work" =>
            /\ stage[p] = "work"
            /\ saw'[p] = saw[p]
            /\ p \in outdated => p \in outdated'
            /\ \/ p \in outdated'
               \/ job'[RoomOf(p)].attempts >= job[RoomOf(p)].attempts

LEMMA OnwardKeeps ==
    ASSUME SummaryInv, JobsOK', WorkersOK', Onward
    PROVE  SummaryInv'
  <1> USE DEF SummaryInv
  <1>1. NotAhead'
    <2> SUFFICES ASSUME NEW p \in Proc, stage'[p] = "work", p \notin outdated'
                 PROVE  saw'[p].attempts <= job'[RoomOf(p)].attempts
      BY DEF NotAhead
    <2>1. /\ saw'[p] = saw[p]
          /\ saw[p].attempts <= job[RoomOf(p)].attempts
          /\ job'[RoomOf(p)].attempts >= job[RoomOf(p)].attempts
      BY DEF Onward, NotAhead
    <2>2. /\ saw[p].attempts \in Int
          /\ job[RoomOf(p)].attempts \in Int
          /\ job'[RoomOf(p)].attempts \in Int
      BY RoomOfType, SummaryAssumption DEF JobsOK, WorkersOK, Job
    <2>3. QED
      BY <2>1, <2>2
  <1>2. OneWorkerPerAttempt'
    BY DEF OneWorkerPerAttempt, Onward
  <1>3. QED
    BY <1>1, <1>2

\* Starting fills idle workers only.
LEMMA StartKeeps ==
    ASSUME WorkersOK, NEW S, Start(S), UNCHANGED saw
    PROVE  /\ WorkersOK'
           /\ \A p \in Proc : stage'[p] \in {"work", "claim"} => stage'[p] = stage[p]
  BY DEF WorkersOK, Start

LEMMA ScheduleKeeps ==
    ASSUME WorkersOK, NEW m \in Room, Schedule(m), UNCHANGED saw
    PROVE  /\ WorkersOK'
           /\ \A p \in Proc : stage'[p] \in {"work", "claim"} => stage'[p] = stage[p]
  BY StartKeeps DEF Schedule

LEMMA LeaveKeeps ==
    ASSUME WorkersOK, NEW p \in Proc, Leave(p)
    PROVE  /\ WorkersOK'
           /\ \A q \in Proc : stage'[q] = "work" =>
                 stage[q] = "work" /\ saw'[q] = saw[q]
                 /\ (q \in outdated => q \in outdated')
  BY SummaryAssumption DEF WorkersOK, Leave, Status

LEMMA PutKeeps ==
    ASSUME JobsOK, NEW m \in Room, NEW j \in Job, Put(m, j),
           j.status = "none" => j.attempts = 0,
           j.attempts >= job[m].attempts
    PROVE  /\ JobsOK'
           /\ \A n \in Room : job'[n].attempts >= job[n].attempts
  <1>1. \A n \in Room : job[n].attempts \in Int
    BY SummaryAssumption DEF JobsOK, Job
  <1>2. job' = [job EXCEPT ![m] = j]
    BY DEF Put
  <1>3. QED
    BY <1>1, <1>2 DEF JobsOK

LEMMA SameJobs ==
    ASSUME JobsOK, UNCHANGED job
    PROVE  JobsOK' /\ \A n \in Room : job'[n].attempts >= job[n].attempts
  BY SummaryAssumption DEF JobsOK, Job

LEMMA ClaimWrites ==
    ASSUME SummaryInv, NEW p \in Proc, stage[p] = "claim", Unchanged(p),
           WriteClaim(p)
    PROVE  /\ JobsOK'
           /\ \A n \in Room : job'[n].attempts >= job[n].attempts
           /\ job'[RoomOf(p)].attempts = saw[p].attempts + 1
           /\ saw[p].attempts = job[RoomOf(p)].attempts
           /\ saw[p].attempts + 1 \in 0..MaxAttempts
  <1> DEFINE j == [status |-> "processing", attempts |-> saw[p].attempts + 1,
                   due |-> FALSE, abandoned |-> FALSE]
  <1>1. /\ saw[p].attempts \in 0..MaxAttempts
        /\ saw[p].attempts < MaxAttempts
        /\ saw[p].attempts = job[RoomOf(p)].attempts
    BY DEF SummaryInv, WorkersOK, Unchanged
  <1>2. saw[p].attempts + 1 \in 0..MaxAttempts
    BY <1>1, SummaryAssumption
  <1>3. j \in Job
    BY <1>2 DEF Job, Status
  <1>4. Put(RoomOf(p), j)
    BY DEF WriteClaim
  <1>5. j.attempts >= job[RoomOf(p)].attempts
    BY <1>1
  <1>6. j.status = "none" => j.attempts = 0
    OBVIOUS
  <1>7. JobsOK' /\ \A n \in Room : job'[n].attempts >= job[n].attempts
    <2> HIDE DEF j
    <2> QED
      BY <1>3, <1>4, <1>5, <1>6, PutKeeps, RoomOfType DEF SummaryInv
  <1>8. job'[RoomOf(p)] = j
    BY <1>4, RoomOfType DEF Put, SummaryInv, JobsOK
  <1>9. QED
    BY <1>1, <1>2, <1>7, <1>8

LEMMA ClaimKeeps ==
    ASSUME SummaryInv, NEW p \in Proc, Claim(p)
    PROVE  SummaryInv'
  <1> DEFINE n == saw[p].attempts + 1
  <1>1. /\ JobsOK'
        /\ \A m \in Room : job'[m].attempts >= job[m].attempts
        /\ job'[RoomOf(p)].attempts = n
        /\ saw[p].attempts = job[RoomOf(p)].attempts
        /\ n \in 0..MaxAttempts
    BY ClaimWrites DEF Claim
  <1>2. /\ stage' = [stage EXCEPT ![p] = "work"]
        /\ saw' = [saw EXCEPT ![p] = [status |-> "processing", attempts |-> n]]
        /\ outdated' = outdated
    BY DEF Claim
  <1>3. WorkersOK'
    BY <1>1, <1>2 DEF SummaryInv, WorkersOK, Status
  <1>4. /\ stage'[p] = "work"
        /\ saw'[p].attempts = n
        /\ \A q \in Proc \ {p} : stage'[q] = stage[q] /\ saw'[q] = saw[q]
    BY <1>2 DEF SummaryInv, WorkersOK
  <1>5. \A q \in Proc : /\ saw[q].attempts \in Int
                        /\ job[RoomOf(q)].attempts \in Int
                        /\ job'[RoomOf(q)].attempts \in Int
    BY <1>1, RoomOfType, SummaryAssumption DEF SummaryInv, WorkersOK, JobsOK, Job
  <1>6. NotAhead'
    <2> SUFFICES ASSUME NEW q \in Proc, stage'[q] = "work", q \notin outdated
                 PROVE  saw'[q].attempts <= job'[RoomOf(q)].attempts
      BY <1>2 DEF NotAhead
    <2>1. CASE q = p
      BY <2>1, <1>1, <1>4, <1>5
    <2>2. CASE q # p
      <3>1. saw[q].attempts <= job[RoomOf(q)].attempts
        BY <2>2, <1>4 DEF SummaryInv, NotAhead
      <3>2. job'[RoomOf(q)].attempts >= job[RoomOf(q)].attempts
        BY <1>1, RoomOfType
      <3>3. QED
        BY <2>2, <3>1, <3>2, <1>4, <1>5
    <2>3. QED
      BY <2>1, <2>2
  <1>7. ASSUME NEW q \in Proc \ {p}, RoomOf(q) = RoomOf(p), stage'[q] = "work",
               q \notin outdated
        PROVE  saw'[q].attempts # n
    <2>1. saw[q].attempts <= saw[p].attempts
      BY <1>1, <1>4, <1>7 DEF SummaryInv, NotAhead
    <2>2. saw'[q] = saw[q]
      BY <1>4
    <2>3. QED
      BY <2>1, <2>2, <1>5
  <1>8. OneWorkerPerAttempt'
    <2> SUFFICES ASSUME NEW q \in Proc, NEW r \in Proc, q # r,
                        RoomOf(q) = RoomOf(r),
                        stage'[q] = "work", stage'[r] = "work",
                        saw'[q].attempts = saw'[r].attempts
                 PROVE  q \in outdated \/ r \in outdated
      BY <1>2 DEF OneWorkerPerAttempt
    <2>1. CASE q = p
      BY <2>1, <1>4, <1>7
    <2>2. CASE r = p
      BY <2>2, <1>4, <1>7
    <2>3. CASE q # p /\ r # p
      BY <2>3, <1>4 DEF SummaryInv, OneWorkerPerAttempt
    <2>4. QED
      BY <2>1, <2>2, <2>3
  <1>9. QED
    BY <1>1, <1>3, <1>6, <1>8 DEF SummaryInv

LEMMA LoadKeeps ==
    ASSUME SummaryInv, NEW p \in Proc, Load(p)
    PROVE  SummaryInv'
  <1>1. JobsOK' /\ \A n \in Room : job'[n].attempts >= job[n].attempts
    BY SameJobs DEF Load, rows, SummaryInv
  <1>2. /\ job[RoomOf(p)] \in Job
        /\ job[RoomOf(p)].attempts < MaxAttempts
    BY RoomOfType, SummaryAssumption DEF Load, Refused, SummaryInv, JobsOK, Job
  <1>3. WorkersOK'
    BY <1>2 DEF Load, SummaryInv, WorkersOK, Job
  <1>4. Onward
    BY <1>1, RoomOfType DEF Load, Onward, SummaryInv, WorkersOK
  <1>5. QED
    BY <1>1, <1>3, <1>4, OnwardKeeps

\* A worker that gives up, or has written its result.
LEMMA LeavingKeeps ==
    ASSUME SummaryInv, NEW p \in Proc, Leave(p), JobsOK',
           \A n \in Room : job'[n].attempts >= job[n].attempts
    PROVE  SummaryInv'
  <1>1. Onward
    BY LeaveKeeps, RoomOfType DEF Onward, SummaryInv
  <1>2. QED
    BY <1>1, LeaveKeeps, OnwardKeeps DEF SummaryInv

\* A write that leaves the attempts alone.
LEMMA Rewritten ==
    ASSUME JobsOK, NEW m \in Room, NEW j \in Job, Put(m, j),
           j.attempts = job[m].attempts, j.status # "none"
    PROVE  JobsOK' /\ \A n \in Room : job'[n].attempts >= job[n].attempts
  <1>1. j.attempts >= job[m].attempts
    BY SummaryAssumption DEF JobsOK, Job
  <1>2. QED
    BY <1>1, PutKeeps

LEMMA MarkKeeps ==
    ASSUME SummaryInv, NEW p \in Proc, MarkReady(p) \/ MarkFailed(p)
    PROVE  SummaryInv'
  <1> DEFINE m == RoomOf(p)
             ready == [job[m] EXCEPT !.status = "ready", !.due = FALSE]
             failed == [job[m] EXCEPT !.status = "failed", !.due = FALSE]
  <1>1. job[m] \in Job /\ JobsOK
    BY RoomOfType DEF SummaryInv, JobsOK
  <1>2. Leave(p)
    BY DEF MarkReady, MarkFailed
  <1>3. Put(m, ready) \/ Put(m, failed) \/ UNCHANGED job
    BY DEF MarkReady, MarkFailed
  <1>4. /\ ready \in Job /\ ready.attempts = job[m].attempts /\ ready.status # "none"
        /\ failed \in Job /\ failed.attempts = job[m].attempts /\ failed.status # "none"
    BY <1>1 DEF Job, Status
  <1>5. JobsOK' /\ \A n \in Room : job'[n].attempts >= job[n].attempts
    <2> HIDE DEF ready, failed
    <2> QED
      BY <1>1, <1>3, <1>4, Rewritten, SameJobs, RoomOfType
  <1>6. QED
    BY <1>2, <1>5, LeavingKeeps

LEMMA WorkerKeeps ==
    ASSUME SummaryInv, NEW p \in Proc, WorkerStep(p)
    PROVE  SummaryInv'
  <1>1. CASE Load(p)
    BY <1>1, LoadKeeps
  <1>2. CASE Claim(p)
    BY <1>2, ClaimKeeps
  <1>3. CASE ClaimUnheard(p)
    BY <1>3, ClaimWrites, LeavingKeeps DEF ClaimUnheard
  <1>4. CASE MarkReady(p) \/ MarkFailed(p)
    BY <1>4, MarkKeeps
  <1>5. CASE LoadReturns(p) \/ ClaimLost(p) \/ MarkLost(p)
    BY <1>5, SameJobs, LeavingKeeps
    DEF LoadReturns, ClaimLost, MarkLost, rows, SummaryInv
  <1>6. QED
    BY <1>1, <1>2, <1>3, <1>4, <1>5 DEF WorkerStep

LEMMA StopKeeps ==
    ASSUME SummaryInv, NEW r \in Replica, Stop(r)
    PROVE  SummaryInv'
  <1>1. JobsOK' /\ \A n \in Room : job'[n].attempts >= job[n].attempts
    BY SameJobs DEF Stop, rows, SummaryInv
  <1>2. WorkersOK'
    BY SummaryAssumption DEF Stop, SummaryInv, WorkersOK, Status
  <1>3. Onward
    BY <1>1, RoomOfType DEF Stop, Onward
  <1>4. QED
    BY <1>1, <1>2, <1>3, OnwardKeeps

\* Rows that change without a number, while workers may be started.
LEMMA StartingKeeps ==
    ASSUME SummaryInv, JobsOK', WorkersOK', UNCHANGED <<saw, outdated>>,
           \A n \in Room : job'[n].attempts >= job[n].attempts,
           \A p \in Proc : stage'[p] = "work" => stage[p] = "work"
    PROVE  SummaryInv'
  <1>1. Onward
    BY RoomOfType DEF Onward
  <1>2. QED
    BY <1>1, OnwardKeeps

LEMMA PollKeeps ==
    ASSUME SummaryInv, NEW r \in Replica, Poll(r)
    PROVE  SummaryInv'
  <1>1. JobsOK' /\ \A n \in Room : job'[n].attempts >= job[n].attempts
    BY SameJobs DEF Poll, rows, SummaryInv
  <1>2. WorkersOK' /\ \A p \in Proc : stage'[p] = "work" => stage[p] = "work"
    BY StartKeeps DEF Poll, SummaryInv
  <1>3. UNCHANGED <<saw, outdated>>
    BY DEF Poll
  <1>4. QED
    BY <1>1, <1>2, <1>3, StartingKeeps

LEMMA ClockKeeps ==
    ASSUME SummaryInv, Recover \/ \E m \in Room : Lapse(m) \/ Abandon(m)
    PROVE  SummaryInv'
  <1>1. UNCHANGED <<stage, saw, outdated>>
    BY DEF Recover, Lapse, Abandon, workers
  <1>2. \A n \in Room : job[n] \in Job /\ job[n].attempts \in Int
    BY SummaryAssumption DEF SummaryInv, JobsOK, Job
  <1>3. JobsOK' /\ \A n \in Room : job'[n].attempts = job[n].attempts
    <2>1. JobsOK
      BY DEF SummaryInv
    <2>2. CASE Recover
      <3>1. \A n \in Room :
                job'[n] = IF n \in Abandoned
                          THEN [job[n] EXCEPT !.status = "failed", !.due = TRUE,
                                              !.abandoned = FALSE]
                          ELSE job[n]
        BY <2>2 DEF Recover
      <3>2. \A n \in Room : /\ job'[n] \in Job
                            /\ job'[n].attempts = job[n].attempts
                            /\ job'[n].status = "none" => job[n].status = "none"
        BY <1>2, <3>1 DEF Job, Status
      <3>3. job' \in [Room -> Job]
        BY <2>2, <3>2 DEF Recover
      <3>4. QED
        BY <2>1, <3>2, <3>3 DEF JobsOK
    <2>3. ASSUME NEW m \in Room, Lapse(m) \/ Abandon(m)
          PROVE  JobsOK' /\ \A n \in Room : job'[n].attempts = job[n].attempts
      <3>1. \/ job' = [job EXCEPT ![m] = [@ EXCEPT !.due = TRUE]]
            \/ job' = [job EXCEPT ![m] = [@ EXCEPT !.abandoned = TRUE]]
        BY <2>3 DEF Lapse, Abandon
      <3>2. /\ [job[m] EXCEPT !.due = TRUE] \in Job
            /\ [job[m] EXCEPT !.abandoned = TRUE] \in Job
        BY <1>2 DEF Job
      <3>3. job' \in [Room -> Job]
        BY <2>1, <3>1, <3>2 DEF JobsOK
      <3>4. \A n \in Room : /\ job'[n].attempts = job[n].attempts
                            /\ job'[n].status = job[n].status
        BY <1>2, <2>1, <3>1 DEF JobsOK, Job
      <3>5. QED
        BY <2>1, <3>3, <3>4 DEF JobsOK
    <2>4. QED
      BY <2>2, <2>3
  <1>4. WorkersOK'
    BY <1>1 DEF SummaryInv, WorkersOK
  <1>5. \A n \in Room : job'[n].attempts >= job[n].attempts
    BY <1>2, <1>3
  <1>6. QED
    BY <1>1, <1>3, <1>4, <1>5, StartingKeeps

LEMMA PendingType ==
    \A n \in 0..MaxAttempts :
        Pending(n) \in Job /\ Pending(n).attempts = n /\ Pending(n).status # "none"
  BY DEF Pending, Job, Status

LEMMA FinalizeKeeps ==
    ASSUME SummaryInv, NEW m \in Room,
           Finalize(m) \/ FinalizeInsert(m) \/ FinalizeRequeue(m) \/ ArchiveRoom(m)
    PROVE  SummaryInv'
  <1> DEFINE archived == [job[m] EXCEPT !.status = "ready", !.due = FALSE,
                                        !.abandoned = FALSE]
  <1>1. /\ JobsOK /\ WorkersOK
        /\ job[m] \in Job
        /\ job[m].attempts \in 0..MaxAttempts
        /\ job[m].status = "none" => job[m].attempts = 0
    BY DEF SummaryInv, JobsOK, Job
  <1>2. UNCHANGED <<saw, outdated>>
    BY DEF Finalize, FinalizeInsert, FinalizeRequeue, ArchiveRoom, workers
  <1>3. Schedule(m) \/ UNCHANGED stage
    BY DEF Finalize, FinalizeInsert, FinalizeRequeue, ArchiveRoom, workers
  <1>4. WorkersOK' /\ \A p \in Proc : stage'[p] = "work" => stage[p] = "work"
    <2>1. CASE Schedule(m)
      BY <2>1, <1>1, <1>2, ScheduleKeeps
    <2>2. CASE UNCHANGED stage
      BY <2>2, <1>1, <1>2 DEF WorkersOK
    <2>3. QED
      BY <2>1, <2>2, <1>3
  <1>5. archived \in Job /\ archived.attempts = job[m].attempts
        /\ archived.status # "none"
    BY <1>1 DEF Job, Status
  <1>6. \/ UNCHANGED job
        \/ job[m].status = "none" /\ Put(m, Pending(0))
        \/ Put(m, Pending(job[m].attempts))
        \/ Put(m, archived)
    BY DEF Finalize, FinalizeInsert, FinalizeRequeue, ArchiveRoom, rows
  <1>7. JobsOK' /\ \A n \in Room : job'[n].attempts >= job[n].attempts
    <2> HIDE DEF archived
    <2>1. CASE UNCHANGED job
      BY <2>1, <1>1, SameJobs
    <2>2. CASE Put(m, archived)
      BY <2>2, <1>1, <1>5, Rewritten
    <2>3. CASE Put(m, Pending(job[m].attempts))
      BY <2>3, <1>1, PendingType, Rewritten
    <2>4. CASE job[m].status = "none" /\ Put(m, Pending(0))
      BY <2>4, <2>3, <1>1
    <2>5. QED
      BY <1>6, <2>1, <2>2, <2>3, <2>4
  <1>8. QED
    BY <1>2, <1>4, <1>7, StartingKeeps

\* The only write that sets the attempts back; whoever is at work is outdated.
LEMMA RetryKeeps ==
    ASSUME SummaryInv, NEW m \in Room, Retry(m)
    PROVE  SummaryInv'
  <1>1. /\ JobsOK /\ WorkersOK
        /\ UNCHANGED saw /\ Schedule(m)
        /\ Put(m, Pending(0))
        /\ outdated' = outdated \cup {p \in Proc : RoomOf(p) = m /\ stage[p] = "work"}
    BY DEF Retry, SummaryInv
  <1>2. Pending(0) \in Job /\ Pending(0).status # "none"
    BY PendingType, SummaryAssumption
  <1>3. JobsOK' /\ \A n \in Room \ {m} : job'[n] = job[n]
    BY <1>1, <1>2 DEF JobsOK, Put
  <1>4. WorkersOK' /\ \A p \in Proc : stage'[p] = "work" => stage[p] = "work"
    BY <1>1, ScheduleKeeps
  <1>5. Onward
    <2> SUFFICES ASSUME NEW p \in Proc, stage'[p] = "work"
                 PROVE  p \in outdated' \/
                        job'[RoomOf(p)].attempts >= job[RoomOf(p)].attempts
      BY <1>1, <1>4 DEF Onward
    <2>1. CASE RoomOf(p) = m
      BY <2>1, <1>1, <1>4
    <2>2. CASE RoomOf(p) # m
      BY <2>2, <1>3, RoomOfType, SummaryAssumption DEF JobsOK, Job
    <2>3. QED
      BY <2>1, <2>2
  <1>6. QED
    BY <1>3, <1>4, <1>5, OnwardKeeps

LEMMA NextSummaryInv == SummaryInv /\ [SummaryNext]_summaryVars => SummaryInv'
  <1> SUFFICES ASSUME SummaryInv, [SummaryNext]_summaryVars PROVE SummaryInv'
    OBVIOUS
  <1>1. ASSUME NEW p \in Proc, WorkerStep(p) PROVE SummaryInv'
    BY <1>1, WorkerKeeps
  <1>2. ASSUME NEW r \in Replica, Poll(r) \/ Stop(r) PROVE SummaryInv'
    BY <1>2, PollKeeps, StopKeeps
  <1>3. CASE Recover
    BY <1>3, ClockKeeps
  <1>4. ASSUME NEW m \in Room, Lapse(m) \/ Abandon(m) PROVE SummaryInv'
    BY <1>4, ClockKeeps
  <1>5. ASSUME NEW m \in Room, HostStep(m) PROVE SummaryInv'
    BY <1>5, FinalizeKeeps, RetryKeeps DEF HostStep
  <1>6. CASE UNCHANGED summaryVars
    BY <1>6 DEF summaryVars, rows, workers, SummaryInv, JobsOK, WorkersOK,
                NotAhead, OneWorkerPerAttempt
  <1>7. QED
    BY <1>1, <1>2, <1>3, <1>4, <1>5, <1>6 DEF SummaryNext

\* No two workers are on the same attempt at a job, in whatever number of
\* replicas and however slow they are, unless the host has set it back.
THEOREM SummaryOneWorker == SummarySpec => []OneWorkerPerAttempt
  <1>1. SummaryInv => OneWorkerPerAttempt
    BY DEF SummaryInv
  <1>2. QED
    BY <1>1, InitSummaryInv, NextSummaryInv, PTL DEF SummarySpec

-----------------------------------------------------------------------------
(***************************************************************************)
(* Types of the summary jobs, and the queue: every write puts its rows     *)
(* behind all others, so updated_at stays one order of exactly the rows    *)
(* there are.                                                              *)
(***************************************************************************)
QueueOK == older \in Orders(Listed)

HostsOK ==
    /\ recorded \in [Room -> BOOLEAN]
    /\ host \in [Room -> {"idle", "insert", "requeue"}]
    /\ outdated \subseteq Proc
    /\ retries \in 0..RetryBound
    /\ losses \in 0..LossBound

\* The rows of S behind those of L.
LEMMA Appended ==
    ASSUME NEW L, NEW S, NEW R \in Orders(L), NEW Q \in Orders(S)
    PROVE  (R \cap (L \ S) \X (L \ S)) \cup ((L \ S) \X S) \cup Q \in Orders(L \cup S)
  <1> DEFINE A == L \ S
             N == (R \cap A \X A) \cup (A \X S) \cup Q
  <1>1. /\ \A m \in L : <<m, m>> \notin R
        /\ \A m, n \in L : m = n \/ <<m, n>> \in R \/ <<n, m>> \in R
        /\ \A m, n, k \in L : <<m, n>> \in R /\ <<n, k>> \in R => <<m, k>> \in R
    BY DEF Orders
  <1>2. /\ Q \subseteq S \X S
        /\ \A m \in S : <<m, m>> \notin Q
        /\ \A m, n \in S : m = n \/ <<m, n>> \in Q \/ <<n, m>> \in Q
        /\ \A m, n, k \in S : <<m, n>> \in Q /\ <<n, k>> \in Q => <<m, k>> \in Q
    BY DEF Orders
  <1>3. \A m, n : <<m, n>> \in N <=> \/ m \in A /\ n \in A /\ <<m, n>> \in R
                                     \/ m \in A /\ n \in S
                                     \/ m \in S /\ n \in S /\ <<m, n>> \in Q
    BY <1>2
  <1>4. A \cap S = {} /\ A \subseteq L /\ L \cup S = A \cup S
    OBVIOUS
  <1>5. N \in SUBSET ((L \cup S) \X (L \cup S))
    BY <1>2, <1>4
  <1> HIDE DEF A, N
  <1>6. \A m \in L \cup S : <<m, m>> \notin N
    BY <1>1, <1>2, <1>3, <1>4
  <1>7. \A m, n \in L \cup S : m = n \/ <<m, n>> \in N \/ <<n, m>> \in N
    BY <1>1, <1>2, <1>3, <1>4
  <1>8. ASSUME NEW m \in L \cup S, NEW n \in L \cup S, NEW k \in L \cup S,
               <<m, n>> \in N, <<n, k>> \in N
        PROVE  <<m, k>> \in N
    <2>1. CASE m \in A /\ k \in S
      BY <2>1, <1>3
    <2>2. CASE m \in A /\ k \in A
      BY <2>2, <1>1, <1>3, <1>4, <1>8
    <2>3. CASE m \in S
      BY <2>3, <1>2, <1>3, <1>4, <1>8
    <2>4. QED
      BY <2>1, <2>2, <2>3, <1>4
  <1>9. N \in Orders(L \cup S)
    BY <1>5, <1>6, <1>7, <1>8 DEF Orders
  <1>10. QED
    BY <1>9 DEF A, N

\* What a step does to the queue: nothing, or it writes the rows of a set S.
QueueMoves ==
    \/ older' = older /\ Listed' = Listed
    \/ \E S \in SUBSET Room : Requeue(S) /\ Listed' = Listed \cup S

LEMMA QueueKeeps ==
    ASSUME QueueOK, QueueMoves
    PROVE  QueueOK'
  <1>1. CASE older' = older /\ Listed' = Listed
    BY <1>1 DEF QueueOK
  <1>2. ASSUME NEW S \in SUBSET Room, Requeue(S), Listed' = Listed \cup S
        PROVE  QueueOK'
    <2>1. PICK Q \in Orders(S) :
              older' = (older \cap (Listed \ S) \X (Listed \ S))
                          \cup ((Listed \ S) \X S) \cup Q
      BY <1>2 DEF Requeue
    <2>2. older' \in Orders(Listed \cup S)
      BY <2>1, Appended DEF QueueOK
    <2>3. QED
      BY <1>2, <2>2 DEF QueueOK
  <1>3. QED
    BY <1>1, <1>2 DEF QueueMoves

LEMMA PutMoves ==
    ASSUME JobsOK, NEW m \in Room, NEW j, j.status # "none", Put(m, j)
    PROVE  QueueMoves
  <1>1. job' = [job EXCEPT ![m] = j] /\ Requeue({m})
    BY DEF Put
  <1>2. Listed' = Listed \cup {m}
    BY <1>1 DEF Listed, JobsOK
  <1>3. QED
    BY <1>1, <1>2 DEF QueueMoves

LEMMA RowsStay ==
    ASSUME UNCHANGED <<job, older>>
    PROVE  QueueMoves
  BY DEF QueueMoves, Listed

LEMMA LossCounts ==
    ASSUME losses \in 0..LossBound, Loss \/ UNCHANGED losses
    PROVE  losses' \in 0..LossBound
  BY SummaryAssumption DEF Loss

LEMMA WorkerTypes ==
    ASSUME JobsOK, QueueOK, HostsOK, NEW p \in Proc, WorkerStep(p)
    PROVE  QueueOK' /\ HostsOK'
  <1> DEFINE m == RoomOf(p)
             claimed == [status |-> "processing", attempts |-> saw[p].attempts + 1,
                         due |-> FALSE, abandoned |-> FALSE]
             ready == [job[m] EXCEPT !.status = "ready", !.due = FALSE]
             failed == [job[m] EXCEPT !.status = "failed", !.due = FALSE]
  <1>1. m \in Room /\ job[m] \in Job
    BY RoomOfType DEF JobsOK
  <1>2. \/ UNCHANGED <<job, older>>
        \/ Put(m, claimed) \/ Put(m, ready) \/ Put(m, failed)
    BY DEF WorkerStep, Load, LoadReturns, Claim, ClaimLost, ClaimUnheard, MarkReady,
           MarkFailed, MarkLost, WriteClaim, rows
  <1>3. claimed.status # "none" /\ ready.status # "none" /\ failed.status # "none"
    BY <1>1 DEF Job
  <1>4. QueueMoves
    <2> HIDE DEF m, claimed, ready, failed
    <2> QED
      BY <1>1, <1>2, <1>3, PutMoves, RowsStay
  <1>5. /\ UNCHANGED <<recorded, host, retries>>
        /\ outdated' \subseteq outdated
        /\ Loss \/ UNCHANGED losses
    BY DEF WorkerStep, Load, LoadReturns, Claim, ClaimLost, ClaimUnheard, MarkReady,
           MarkFailed, MarkLost, Leave, rows, bounds
  <1>6. HostsOK'
    BY <1>5, LossCounts DEF HostsOK
  <1>7. QED
    BY <1>4, <1>6, QueueKeeps

LEMMA CronTypes ==
    ASSUME JobsOK, QueueOK, HostsOK,
           \/ Recover
           \/ \E r \in Replica : Poll(r) \/ Stop(r)
           \/ \E m \in Room : Lapse(m) \/ Abandon(m)
    PROVE  QueueOK' /\ HostsOK'
  <1>1. CASE Recover
    <2>1. \A m \in Room : job'[m].status # "none" <=> job[m].status # "none"
      BY <1>1 DEF Recover, Abandoned, JobsOK, Job
    <2>2. Listed' = Listed \cup Abandoned /\ Abandoned \in SUBSET Room
      BY <2>1 DEF Listed, Abandoned
    <2>3. Requeue(Abandoned)
      BY <1>1 DEF Recover
    <2>4. QueueMoves
      BY <2>2, <2>3 DEF QueueMoves
    <2>5. HostsOK'
      BY <1>1 DEF Recover, HostsOK, workers, bounds
    <2>6. QED
      BY <2>4, <2>5, QueueKeeps
  <1>2. ASSUME NEW r \in Replica, Poll(r) \/ Stop(r)
        PROVE  QueueOK' /\ HostsOK'
    <2>1. UNCHANGED <<job, older, recorded, host, retries>>
      BY <1>2 DEF Poll, Stop, rows, bounds
    <2>2. outdated' \subseteq outdated /\ (Loss \/ UNCHANGED losses)
      BY <1>2 DEF Poll, Stop, bounds
    <2>3. QED
      BY <2>1, <2>2, LossCounts, RowsStay, QueueKeeps DEF HostsOK
  <1>3. ASSUME NEW m \in Room, Lapse(m) \/ Abandon(m)
        PROVE  QueueOK' /\ HostsOK'
    <2>1. \/ job' = [job EXCEPT ![m].due = TRUE]
          \/ job' = [job EXCEPT ![m].abandoned = TRUE]
      BY <1>3 DEF Lapse, Abandon
    <2>2. Listed' = Listed
      BY <2>1 DEF Listed, JobsOK, Job
    <2>3. QueueMoves
      BY <1>3, <2>2 DEF QueueMoves, Lapse, Abandon
    <2>4. HostsOK'
      BY <1>3 DEF Lapse, Abandon, HostsOK, workers, bounds
    <2>5. QED
      BY <2>3, <2>4, QueueKeeps
  <1>4. QED
    BY <1>1, <1>2, <1>3

LEMMA HostTypes ==
    ASSUME JobsOK, QueueOK, HostsOK, NEW m \in Room, HostStep(m)
    PROVE  QueueOK' /\ HostsOK'
  <1> DEFINE archived == [job[m] EXCEPT !.status = "ready", !.due = FALSE,
                                        !.abandoned = FALSE]
  <1>1. \/ UNCHANGED <<job, older>>
        \/ Put(m, Pending(0)) \/ Put(m, Pending(job[m].attempts)) \/ Put(m, archived)
    BY DEF HostStep, Finalize, FinalizeInsert, FinalizeRequeue, Retry, ArchiveRoom, rows
  <1>2. /\ archived.status # "none"
        /\ \A n : Pending(n).status # "none"
    BY DEF Pending, JobsOK, Job
  <1>3. QueueMoves
    <2> HIDE DEF archived
    <2> QED
      BY <1>1, <1>2, PutMoves, RowsStay
  <1>4. recorded' \in [Room -> BOOLEAN]
    BY DEF HostStep, Finalize, FinalizeInsert, FinalizeRequeue, Retry, ArchiveRoom,
           rows, HostsOK
  <1>5. host' \in [Room -> {"idle", "insert", "requeue"}]
    BY DEF HostStep, Finalize, FinalizeInsert, FinalizeRequeue, Retry, ArchiveRoom,
           HostsOK
  <1>6. outdated' \subseteq Proc
    BY DEF HostStep, Finalize, FinalizeInsert, FinalizeRequeue, Retry, ArchiveRoom,
           workers, HostsOK
  <1>7. retries' \in 0..RetryBound
    <2>1. \/ retries' = retries
          \/ retries < RetryBound /\ retries' = retries + 1
      BY DEF HostStep, Finalize, FinalizeInsert, FinalizeRequeue, Retry, ArchiveRoom,
             bounds
    <2>2. QED
      BY <2>1, SummaryAssumption DEF HostsOK
  <1>8. losses' \in 0..LossBound
    <2>1. Loss \/ UNCHANGED losses
      BY DEF HostStep, Finalize, FinalizeInsert, FinalizeRequeue, Retry, ArchiveRoom,
             bounds
    <2>2. QED
      BY <2>1, LossCounts DEF HostsOK
  <1>9. QED
    BY <1>3, <1>4, <1>5, <1>6, <1>7, <1>8, QueueKeeps DEF HostsOK

\* No number of writers, crashes and retries makes a job exceed its attempts,
\* and rows recovered, requeued or archived keep their one place in the queue.
THEOREM SummaryTypes == SummarySpec => []SummaryTypeOK
  <1> DEFINE Inv == QueueOK /\ HostsOK
  <1>1. SummaryInit => Inv
    BY SummaryAssumption
    DEF SummaryInit, QueueOK, HostsOK, Orders, Listed, NoJob
  <1>2. SummaryInv /\ Inv /\ [SummaryNext]_summaryVars => Inv'
    <2> SUFFICES ASSUME JobsOK, QueueOK, HostsOK, [SummaryNext]_summaryVars
                 PROVE  QueueOK' /\ HostsOK'
      BY DEF SummaryInv
    <2>1. CASE UNCHANGED summaryVars
      BY <2>1 DEF summaryVars, rows, workers, bounds, QueueOK, HostsOK, Listed
    <2>2. QED
      BY <2>1, WorkerTypes, CronTypes, HostTypes DEF SummaryNext
  <1>3. SummaryInv /\ Inv => SummaryTypeOK
    BY DEF SummaryInv, JobsOK, WorkersOK, QueueOK, HostsOK, SummaryTypeOK
  <1>4. QED
    BY <1>1, <1>2, <1>3, InitSummaryInv, NextSummaryInv, PTL DEF SummarySpec

-----------------------------------------------------------------------------
(***************************************************************************)
(* The rooms of scheduled events: the history counts what the table, with  *)
(* its unique names, can hold.                                             *)
(***************************************************************************)
PartyPoint == {"idle", "create", "link", "reconcile", "find"}

PartyInv ==
    /\ party \in [PartyEvent -> {"none", "created", "linked"}]
    /\ parties \in [PartyEvent -> Nat]
    /\ step \in [Server -> [PartyEvent -> PartyPoint]]
    /\ \A e \in PartyEvent : parties[e] = IF party[e] = "none" THEN 0 ELSE 1
    /\ \A r \in Server, e \in PartyEvent :
          step[r][e] \in {"link", "reconcile"} => party[e] # "none"

\* A tick goes on with one event; all its others, and other ticks, stay.
LEMMA TurnTaken ==
    ASSUME PartyInv, NEW r \in Server, NEW e \in PartyEvent,
           NEW s \in PartyPoint, Turn(r, e, s)
    PROVE  /\ step' \in [Server -> [PartyEvent -> PartyPoint]]
           /\ step'[r][e] = s
           /\ \A q \in Server, d \in PartyEvent :
                 q # r \/ d # e => step'[q][d] = step[q][d]
  BY DEF PartyInv, Turn

\* What keeps PartyInv where a tick goes on with event e.
LEMMA EventTurn ==
    ASSUME PartyInv, NEW r \in Server, NEW e \in PartyEvent,
           NEW s \in PartyPoint, Turn(r, e, s),
           NEW p \in {"none", "created", "linked"},
           party' = [party EXCEPT ![e] = p],
           party[e] # "none" => p # "none",
           s \in {"link", "reconcile"} => p # "none",
           \/ parties' = parties /\ (p = "none" <=> party[e] = "none")
           \/ /\ parties' = [parties EXCEPT ![e] = @ + 1]
              /\ party[e] = "none" /\ p # "none"
    PROVE  PartyInv'
  <1>1. \A q \in Server, d \in PartyEvent :
          step'[q][d] \in {"link", "reconcile"} => party'[d] # "none"
    BY TurnTaken DEF PartyInv
  <1>2. /\ party' \in [PartyEvent -> {"none", "created", "linked"}]
        /\ parties' \in [PartyEvent -> Nat]
        /\ \A d \in PartyEvent : parties'[d] = IF party'[d] = "none" THEN 0 ELSE 1
    BY DEF PartyInv
  <1>3. QED
    BY <1>1, <1>2, TurnTaken DEF PartyInv

LEMMA NextPartyInv == PartyInv /\ [PartyNext]_partyVars => PartyInv'
  <1> SUFFICES ASSUME PartyInv, [PartyNext]_partyVars PROVE PartyInv'
    OBVIOUS
  <1>1. CASE ClockTicks
    BY <1>1 DEF ClockTicks, PartyInv
  <1>2. ASSUME NEW r \in Server, Scan(r) PROVE PartyInv'
    BY <1>2 DEF Scan, PartyInv, PartyPoint
  <1>3. ASSUME NEW r \in Server, NEW e \in PartyEvent,
               Create(r, e) \/ Link(r, e) \/ Find(r, e)
        PROVE  PartyInv'
    <2>1. /\ party[e] \in {"none", "created", "linked"}
          /\ party = [party EXCEPT ![e] = party[e]]
          /\ step[r][e] \in {"link", "reconcile"} => party[e] # "none"
          /\ {"idle", "find", "link", "reconcile"} \subseteq PartyPoint
      BY DEF PartyInv, PartyPoint
    <2>2. CASE Create(r, e)
      BY <2>1, <2>2, EventTurn DEF Create, NameFree
    <2>3. CASE Link(r, e)
      BY <2>1, <2>3, EventTurn DEF Link
    <2>4. CASE Find(r, e)
      <3>1. PICK s \in {"idle", "reconcile"} :
              Turn(r, e, s) /\ (s = "reconcile" => party[e] = "created")
        BY <2>4 DEF Find
      <3>2. QED
        BY <2>1, <2>4, <3>1, EventTurn DEF Find
    <2>5. QED
      BY <1>3, <2>2, <2>3, <2>4
  <1>4. ASSUME NEW r \in Server, StopServer(r) PROVE PartyInv'
    BY <1>4 DEF StopServer, AllIdle, PartyInv, PartyPoint
  <1>5. CASE UNCHANGED partyVars
    BY <1>5 DEF partyVars, PartyInv
  <1>6. QED
    BY <1>1, <1>2, <1>3, <1>4, <1>5 DEF PartyNext, ServerStep

\* An event has at most one room, for any number of replicas and failures.
THEOREM PartyOneRoom == PartySpec => []OneRoomPerEvent
  <1>1. PartyInit => PartyInv
    BY DEF PartyInit, PartyInv, PartyPoint, AllIdle
  <1>2. PartyInv => OneRoomPerEvent
    BY DEF PartyInv, OneRoomPerEvent
  <1>3. QED
    BY <1>1, <1>2, NextPartyInv, PTL DEF PartySpec

-----------------------------------------------------------------------------
(***************************************************************************)
(* The stage                                                               *)
(***************************************************************************)

Request == [op : Operation \cup {"none"}, target : Member \cup {none},
            copy : RoomType, dirty : SUBSET Column,
            at : {"idle", "revoke", "demote", "notify", "write"}]

Personal == {"raise", "approve", "demote", "kick", "dismiss", "invite"}

\* A request that writes the speakers has read a stage the host is on, and is
\* never about the host.
RequestOK(r) ==
    /\ r \in Request
    /\ owner \in r.copy.speakers
    /\ r.op \in Personal => r.target \in Member

StageInv ==
    /\ room \in RoomType
    /\ owner \in room.speakers
    /\ call \in [Call -> Request]
    /\ \A c \in Call : RequestOK(call[c])
    /\ publishing \subseteq Member
    /\ slipped \subseteq publishing

LEMMA NoCallOK == RequestOK(NoCall)
  BY DEF RequestOK, Request, NoCall, NewRoom, RoomType, Column, Personal

LEMMA InitStageInv == StageInit => StageInv
  BY NoCallOK DEF StageInit, StageInv, NewRoom, RoomType, RequestOK

LEMMA StageInvNow ==
    ASSUME StageInv, NEW c \in Call
    PROVE  /\ Copy(c) \in RoomType /\ owner \in Copy(c).speakers
           /\ Previous(c) \in Member \cup {none}
           /\ Previous(c) # owner
           /\ Target(c) \in Member \cup {none}
           /\ Target(c) # owner
           /\ call[c].op \in Personal => Target(c) \in Member
  BY StageAssumption
  DEF StageInv, RequestOK, Request, Previous, Copy, Target, RoomType

LEMMA ReadKeeps ==
    ASSUME StageInv, NEW c \in Call, NEW op \in Operation,
           NEW t \in Targets(op), Read(c, op, t)
    PROVE  StageInv'
  <1> DEFINE copy == [col \in Column |->
                        IF col \in Uses(op) THEN room[col] ELSE NewRoom[col]]
             new == [op |-> op, target |-> t, dirty |-> {}, copy |-> copy,
                     at |-> IF op = "invite" /\ Replaces(room, t)
                            THEN "revoke" ELSE "write"]
  <1>1. copy \in RoomType /\ owner \in copy.speakers
    <2>1. /\ room \in RoomType /\ owner \in room.speakers
          /\ NewRoom \in RoomType /\ owner \in NewRoom.speakers
      BY DEF StageInv, NewRoom, RoomType
    <2>2. copy = [speakers |-> copy.speakers, hands |-> copy.hands,
                  coHost |-> copy.coHost]
      BY DEF Column
    <2>3. /\ copy.speakers \in {room.speakers, NewRoom.speakers}
          /\ copy.hands \in {room.hands, NewRoom.hands}
          /\ copy.coHost \in {room.coHost, NewRoom.coHost}
      BY DEF Column
    <2>4. QED
      BY <2>1, <2>2, <2>3 DEF RoomType
  <1>2. t \in Member \cup {none} /\ (op \in Personal => t \in Member)
    BY DEF Targets, Personal
  <1>3. RequestOK(new)
    <2> HIDE DEF copy
    <2> QED
      BY <1>1, <1>2 DEF RequestOK, Request
  <1>4. call' = [call EXCEPT ![c] = new]
    BY DEF Read
  <1>5. UNCHANGED <<room, publishing, slipped>>
    BY DEF Read
  <1>6. new \in Request
    BY <1>3 DEF RequestOK
  <1>7. QED
    <2> HIDE DEF new
    <2> QED
      BY <1>3, <1>4, <1>5, <1>6 DEF StageInv

LEMMA SaveKeeps ==
    ASSUME StageInv, NEW c \in Call, NEW cols \in SUBSET Column,
           NEW new \in RoomType, NEW meant, NEW next,
           Save(c, cols, new, meant, next), owner \in new.speakers,
           RequestOK(next),
           publishing' \subseteq Member, slipped' \subseteq publishing'
    PROVE  StageInv'
  <1>1. /\ room' = new
        /\ call' = [d \in Call |->
              IF d = c THEN next
              ELSE IF call[d].op = "none" THEN call[d]
              ELSE [call[d] EXCEPT !.dirty = @ \cup (cols \cap Uses(call[d].op))]]
    BY DEF Save
  <1>2. \A d \in Call : RequestOK(call'[d])
    <2> SUFFICES ASSUME NEW d \in Call PROVE RequestOK(call'[d])
      OBVIOUS
    <2>1. CASE d = c
      BY <2>1, <1>1
    <2>2. CASE d # c /\ call[d].op = "none"
      BY <2>2, <1>1 DEF StageInv
    <2>3. CASE d # c /\ call[d].op # "none"
      <3>1. RequestOK(call[d])
        BY DEF StageInv
      <3>2. call'[d] = [call[d] EXCEPT !.dirty =
                            call[d].dirty \cup (cols \cap Uses(call[d].op))]
        BY <2>3, <1>1
      <3>3. call[d].dirty \cup (cols \cap Uses(call[d].op)) \in SUBSET Column
        BY <3>1 DEF RequestOK, Request
      <3>4. QED
        BY <3>1, <3>2, <3>3 DEF RequestOK, Request
    <2>4. QED
      BY <2>1, <2>2, <2>3
  <1>3. call' \in [Call -> Request]
    <2>1. \A d \in Call : call'[d] \in Request
      BY <1>2 DEF RequestOK
    <2>2. QED
      BY <1>1, <2>1
  <1>4. QED
    BY <1>1, <1>2, <1>3 DEF StageInv

\* Requests that write the speakers or the hands and leave the co-host alone.
LEMMA ColumnsKeep ==
    ASSUME StageInv, NEW c \in Call,
           \/ RaiseHand(c) \/ ApproveSpeaker(c) \/ DemoteSpeaker(c)
           \/ DismissRaisedHand(c) \/ ReorderSpeakers(c) \/ ClearStage(c)
    PROVE  StageInv'
  <1>1. publishing' \subseteq Member /\ slipped' \subseteq publishing'
    BY DEF RaiseHand, ApproveSpeaker, DemoteSpeaker, DismissRaisedHand,
           ReorderSpeakers, ClearStage, StageInv
  <1>2. {{"hands"}, {"speakers"}, {"hands", "speakers"}} \subseteq SUBSET Column
    BY DEF Column
  <1>3. CASE RaiseHand(c)
    <2> DEFINE new == [room EXCEPT !.hands = Copy(c).hands \cup {Target(c)}]
               m == [intended EXCEPT !.hands = @ \cup {Target(c)}]
    <2>1. Save(c, {"hands"}, new, m, NoCall)
      BY <1>3 DEF RaiseHand
    <2>2. new \in RoomType /\ owner \in new.speakers
      BY <1>3, StageInvNow DEF RaiseHand, Writes, Personal, StageInv, RoomType
    <2>3. QED
      <3> HIDE DEF new, m
      <3> QED
        BY <1>1, <1>2, <2>1, <2>2, NoCallOK, SaveKeeps
  <1>4. CASE ApproveSpeaker(c)
    <2> DEFINE new == [room EXCEPT !.hands = Copy(c).hands \ {Target(c)},
                               !.speakers = Copy(c).speakers \cup {Target(c)}]
               m == [intended EXCEPT !.hands = @ \ {Target(c)},
                                 !.speakers = @ \cup {Target(c)}]
    <2>1. Save(c, {"hands", "speakers"}, new, m, NoCall)
      BY <1>4 DEF ApproveSpeaker
    <2>2. new \in RoomType /\ owner \in new.speakers
      BY <1>4, StageInvNow DEF ApproveSpeaker, Writes, Personal, StageInv, RoomType
    <2>3. QED
      <3> HIDE DEF new, m
      <3> QED
        BY <1>1, <1>2, <2>1, <2>2, NoCallOK, SaveKeeps
  <1>5. CASE DemoteSpeaker(c)
    <2> DEFINE new == [room EXCEPT !.speakers = Copy(c).speakers \ {Target(c)}]
               m == [intended EXCEPT !.speakers = @ \ {Target(c)}]
    <2>1. Save(c, {"speakers"}, new, m, NoCall)
      BY <1>5 DEF DemoteSpeaker
    <2>2. new \in RoomType /\ owner \in new.speakers
      BY <1>5, StageInvNow DEF StageInv, RoomType
    <2>3. QED
      <3> HIDE DEF new, m
      <3> QED
        BY <1>1, <1>2, <2>1, <2>2, NoCallOK, SaveKeeps
  <1>6. CASE DismissRaisedHand(c)
    <2> DEFINE new == [room EXCEPT !.hands = Copy(c).hands \ {Target(c)}]
               m == [intended EXCEPT !.hands = @ \ {Target(c)}]
    <2>1. Save(c, {"hands"}, new, m, NoCall)
      BY <1>6 DEF DismissRaisedHand
    <2>2. new \in RoomType /\ owner \in new.speakers
      BY <1>6, StageInvNow DEF StageInv, RoomType
    <2>3. QED
      <3> HIDE DEF new, m
      <3> QED
        BY <1>1, <1>2, <2>1, <2>2, NoCallOK, SaveKeeps
  <1>7. CASE ReorderSpeakers(c)
    <2> DEFINE new == [room EXCEPT !.speakers = Copy(c).speakers]
               m == intended
    <2>1. Save(c, {"speakers"}, new, m, NoCall)
      BY <1>7 DEF ReorderSpeakers
    <2>2. new \in RoomType /\ owner \in new.speakers
      BY <1>7, StageInvNow DEF StageInv, RoomType
    <2>3. QED
      <3> HIDE DEF new, m
      <3> QED
        BY <1>1, <1>2, <2>1, <2>2, NoCallOK, SaveKeeps
  <1>8. CASE ClearStage(c)
    <2> DEFINE new == [room EXCEPT !.speakers = {owner}, !.hands = {}]
               m == [intended EXCEPT !.speakers = {owner}, !.hands = {}]
    <2>1. Save(c, {"hands", "speakers"}, new, m, NoCall)
      BY <1>8 DEF ClearStage
    <2>2. new \in RoomType /\ owner \in new.speakers
      BY <1>8, StageInvNow DEF StageInv, RoomType
    <2>3. QED
      <3> HIDE DEF new, m
      <3> QED
        BY <1>1, <1>2, <2>1, <2>2, NoCallOK, SaveKeeps
  <1>9. QED
    BY <1>3, <1>4, <1>5, <1>6, <1>7, <1>8

\* Whoever is dismissed as a co-host is told; the history follows.
LEMMA DismissedKeeps ==
    ASSUME StageInv, NEW c \in Call, Dismissed(c)
    PROVE  publishing' \subseteq Member /\ slipped' \subseteq publishing'
  BY DEF StageInv, Dismissed

LEMMA RemovalKeeps ==
    ASSUME StageInv, NEW c \in Call, KickSpeaker(c) \/ RemoveCoHost(c)
    PROVE  StageInv'
  <1>1. publishing' \subseteq Member /\ slipped' \subseteq publishing'
    <2>1. Dismissed(c) \/ UNCHANGED <<publishing, slipped>>
      BY DEF KickSpeaker, RemoveCoHost
    <2>2. QED
      BY <2>1, DismissedKeeps DEF StageInv
  <1>2. {"speakers", "coHost"} \in SUBSET Column /\ {"speakers"} \in SUBSET Column
    BY DEF Column
  <1>3. CASE KickSpeaker(c) /\ Previous(c) = Target(c)
    <2> DEFINE new == [room EXCEPT !.speakers = Copy(c).speakers \ {Target(c)},
                               !.coHost = none]
               m == [intended EXCEPT !.speakers = @ \ {Target(c)}, !.coHost = none]
    <2>1. Save(c, {"speakers", "coHost"}, new, m, NoCall)
      BY <1>3 DEF KickSpeaker
    <2>2. new \in RoomType /\ owner \in new.speakers
      BY <1>3, StageInvNow DEF StageInv, RoomType
    <2>3. QED
      <3> HIDE DEF new, m
      <3> QED
        BY <1>1, <1>2, <2>1, <2>2, NoCallOK, SaveKeeps
  <1>4. CASE KickSpeaker(c) /\ Previous(c) # Target(c)
    <2> DEFINE new == [room EXCEPT !.speakers = Copy(c).speakers \ {Target(c)}]
               m == [intended EXCEPT !.speakers = @ \ {Target(c)},
                                 !.coHost = IF @ = Target(c) THEN none ELSE @]
    <2>1. Save(c, {"speakers"}, new, m, NoCall)
      BY <1>4 DEF KickSpeaker
    <2>2. new \in RoomType /\ owner \in new.speakers
      BY <1>4, StageInvNow DEF StageInv, RoomType
    <2>3. QED
      <3> HIDE DEF new, m
      <3> QED
        BY <1>1, <1>2, <2>1, <2>2, NoCallOK, SaveKeeps
  <1>5. CASE RemoveCoHost(c)
    <2> DEFINE new == [room EXCEPT !.speakers = Copy(c).speakers \ {Previous(c)},
                               !.coHost = none]
               m == [intended EXCEPT !.speakers = @ \ {intended.coHost},
                                 !.coHost = none]
    <2>1. Save(c, {"speakers", "coHost"}, new, m, NoCall)
      BY <1>5 DEF RemoveCoHost
    <2>2. new \in RoomType /\ owner \in new.speakers
      BY <1>5, StageInvNow DEF StageInv, RoomType
    <2>3. QED
      <3> HIDE DEF new, m
      <3> QED
        BY <1>1, <1>2, <2>1, <2>2, NoCallOK, SaveKeeps
  <1>6. QED
    BY <1>3, <1>4, <1>5

\* revoke and notify only move the invitation on.
LEMMA StepOnKeeps ==
    ASSUME StageInv, NEW c \in Call, NEW at \in {"demote", "notify", "write"},
           call' = [call EXCEPT ![c].at = at], UNCHANGED room,
           publishing' \subseteq Member, slipped' \subseteq publishing'
    PROVE  StageInv'
  <1>1. RequestOK(call[c])
    BY DEF StageInv
  <1>2. RequestOK([call[c] EXCEPT !.at = at]) /\ [call[c] EXCEPT !.at = at] \in Request
    BY <1>1 DEF RequestOK, Request
  <1>3. QED
    BY <1>2 DEF StageInv

LEMMA DemotionKeeps ==
    ASSUME StageInv, NEW c \in Call, Demote(c)
    PROVE  StageInv'
  <1> DEFINE new == [room EXCEPT !.speakers = Copy(c).speakers \ {Previous(c)},
                                 !.coHost = none]
             meant == [intended EXCEPT !.speakers = @ \ {Previous(c)},
                                       !.coHost = none]
             next == [call[c] EXCEPT !.at = "notify"]
  <1>1. Save(c, {"speakers", "coHost"}, new, meant, next)
    BY DEF Demote
  <1>2. new \in RoomType /\ owner \in new.speakers
    BY StageInvNow DEF StageInv, RoomType
  <1>3. RequestOK(next)
    BY DEF StageInv, RequestOK, Request
  <1>4. publishing' \subseteq Member /\ slipped' \subseteq publishing'
    BY DEF Demote, StageInv
  <1>5. {"speakers", "coHost"} \in SUBSET Column
    BY DEF Column
  <1>6. QED
    <2> HIDE DEF new, meant, next
    <2> QED
      BY <1>1, <1>2, <1>3, <1>4, <1>5, SaveKeeps

LEMMA AssignKeeps ==
    ASSUME StageInv, NEW c \in Call, Assign(c)
    PROVE  StageInv'
  <1> DEFINE new == [speakers |-> (Copy(c).speakers \
                        IF Previous(c) = Target(c) THEN {} ELSE {Previous(c)})
                            \cup {Target(c)},
                     hands |-> Copy(c).hands \ {Target(c)},
                     coHost |-> Target(c)]
             meant == [speakers |-> intended.speakers \cup {Target(c)},
                       hands |-> intended.hands \ {Target(c)},
                       coHost |-> Target(c)]
  <1>1. Target(c) \in Member
    BY StageInvNow DEF Assign, Writes, Personal
  <1>2. Save(c, Column, new, meant, NoCall)
    BY DEF Assign
  <1>3. new \in RoomType /\ owner \in new.speakers
    BY <1>1, StageInvNow DEF RoomType
  <1>4. publishing' \subseteq Member /\ slipped' \subseteq publishing'
    BY <1>1 DEF Assign, StageInv
  <1>5. QED
    <2> HIDE DEF new, meant
    <2> QED
      BY <1>2, <1>3, <1>4, NoCallOK, SaveKeeps

LEMMA NextStageInv == StageInv /\ [StageNext]_stageVars => StageInv'
  <1> SUFFICES ASSUME StageInv, [StageNext]_stageVars PROVE StageInv'
    OBVIOUS
  <1>1. ASSUME NEW c \in Call, NEW op \in Operation, NEW t \in Targets(op),
               Read(c, op, t)
        PROVE  StageInv'
    BY <1>1, ReadKeeps
  <1>2. ASSUME NEW c \in Call, CallStep(c) PROVE StageInv'
    <2>1. CASE \/ RaiseHand(c) \/ ApproveSpeaker(c) \/ DemoteSpeaker(c)
               \/ DismissRaisedHand(c) \/ ReorderSpeakers(c) \/ ClearStage(c)
      BY <2>1, ColumnsKeep
    <2>2. CASE KickSpeaker(c) \/ RemoveCoHost(c)
      BY <2>2, RemovalKeeps
    <2>3. CASE Revoke(c) \/ Notify(c)
      <3>1. publishing' \subseteq Member /\ slipped' \subseteq publishing'
        BY <2>3 DEF Revoke, Notify, StageInv
      <3>2. QED
        BY <2>3, <3>1, StepOnKeeps DEF Revoke, Notify
    <2>4. CASE Demote(c) \/ Assign(c)
      BY <2>4, DemotionKeeps, AssignKeeps
    <2>5. QED
      BY <1>2, <2>1, <2>2, <2>3, <2>4 DEF CallStep
  <1>3. ASSUME NEW c \in Call, Abort(c) PROVE StageInv'
    BY <1>3, NoCallOK DEF Abort, StageInv, RequestOK
  <1>4. CASE UNCHANGED stageVars
    BY <1>4 DEF stageVars, StageInv
  <1>5. QED
    BY <1>1, <1>2, <1>3, <1>4 DEF StageNext, StageStep

\* The host stays on the stage, whatever requests overlap and wherever they
\* stop, for any number of members and requests.
THEOREM StageTypes == StageSpec => []StageTypeOK
  <1>1. StageInv => StageTypeOK
    BY DEF StageInv, StageTypeOK, Request
  <1>2. QED
    BY <1>1, InitStageInv, NextStageInv, PTL DEF StageSpec

(***************************************************************************)
(* Co-hosts.  CoHostsStepDown is not inductive: an invitation may be about *)
(* to take the role from a co-host.  It has revoked her rights before, and *)
(* if somebody has given them back since, the history knows.               *)
(***************************************************************************)
RevokedFirst ==
    \A c \in Call :
        call[c].at = "demote" =>
            Previous(c) \notin publishing \/ Previous(c) \in slipped

CoHostInv == StageInv /\ RevokedFirst /\ CoHostsStepDown

LEMMA SaveMoves ==
    ASSUME StageInv, NEW c \in Call, NEW cols, NEW new, NEW meant, NEW next,
           Save(c, cols, new, meant, next)
    PROVE  /\ room' = new
           /\ call'[c] = next
           /\ \A d \in Call \ {c} :
                 call'[d].at = call[d].at /\ Previous(d)' = Previous(d)
  <1>1. \A d \in Call : call[d] \in Request
    BY DEF StageInv
  <1>2. /\ room' = new
        /\ call'[c] = next
        /\ \A d \in Call \ {c} :
              \/ call'[d] = call[d]
              \/ call'[d] = [call[d] EXCEPT !.dirty =
                                @ \cup (cols \cap Uses(call[d].op))]
    BY DEF Save
  <1>3. QED
    BY <1>1, <1>2 DEF Previous, Copy, Request

\* A request that leaves publishers and co-host alone.
LEMMA NobodyMoves ==
    ASSUME CoHostInv, UNCHANGED <<publishing, slipped>>,
           room'.coHost = room.coHost,
           \A d \in Call : call'[d].at = "demote" =>
               call[d].at = "demote" /\ Previous(d)' = Previous(d)
    PROVE  RevokedFirst' /\ CoHostsStepDown'
  BY DEF CoHostInv, RevokedFirst, CoHostsStepDown

LEMMA CoHostColumn ==
    ASSUME NEW r \in RoomType, NEW s, NEW h
    PROVE  /\ [r EXCEPT !.speakers = s, !.hands = h].coHost = r.coHost
           /\ [r EXCEPT !.hands = h, !.speakers = s].coHost = r.coHost
  BY DEF RoomType

LEMMA ColumnsMoveNobody ==
    ASSUME CoHostInv, NEW c \in Call,
           \/ RaiseHand(c) \/ ApproveSpeaker(c) \/ DemoteSpeaker(c)
           \/ DismissRaisedHand(c) \/ ReorderSpeakers(c) \/ ClearStage(c)
           \/ KickSpeaker(c) /\ Previous(c) # Target(c)
    PROVE  RevokedFirst' /\ CoHostsStepDown'
  <1>1. UNCHANGED <<publishing, slipped>>
    BY DEF RaiseHand, ApproveSpeaker, DemoteSpeaker, DismissRaisedHand,
           ReorderSpeakers, ClearStage, KickSpeaker
  <1>2. StageInv /\ room \in RoomType
    BY DEF CoHostInv, StageInv
  <1> DEFINE Others == \A d \in Call \ {c} :
                          call'[d].at = call[d].at /\ Previous(d)' = Previous(d)
  <1>3. room'.coHost = room.coHost /\ call'[c] = NoCall /\ Others
    <2>1. CASE RaiseHand(c)
      BY <2>1, <1>2, SaveMoves DEF RaiseHand, RoomType
    <2>2. CASE ApproveSpeaker(c)
      <3> DEFINE new == [room EXCEPT !.hands = Copy(c).hands \ {Target(c)},
                                 !.speakers = Copy(c).speakers \cup {Target(c)}]
                 m == [intended EXCEPT !.hands = @ \ {Target(c)},
                                   !.speakers = @ \cup {Target(c)}]
      <3>1. Save(c, {"hands", "speakers"}, new, m, NoCall)
        BY <2>2 DEF ApproveSpeaker
      <3>2. new.coHost = room.coHost
        BY <1>2, CoHostColumn
      <3>3. QED
        <4> HIDE DEF new, m
        <4> QED
          BY <3>1, <3>2, <1>2, SaveMoves
    <2>3. CASE DemoteSpeaker(c)
      BY <2>3, <1>2, SaveMoves DEF DemoteSpeaker, RoomType
    <2>4. CASE DismissRaisedHand(c)
      BY <2>4, <1>2, SaveMoves DEF DismissRaisedHand, RoomType
    <2>5. CASE ReorderSpeakers(c)
      BY <2>5, <1>2, SaveMoves DEF ReorderSpeakers, RoomType
    <2>6. CASE ClearStage(c)
      <3> DEFINE new == [room EXCEPT !.speakers = {owner}, !.hands = {}]
                 m == [intended EXCEPT !.speakers = {owner}, !.hands = {}]
      <3>1. Save(c, {"hands", "speakers"}, new, m, NoCall)
        BY <2>6 DEF ClearStage
      <3>2. new.coHost = room.coHost
        BY <1>2, CoHostColumn
      <3>3. QED
        <4> HIDE DEF new, m
        <4> QED
          BY <3>1, <3>2, <1>2, SaveMoves
    <2>7. CASE KickSpeaker(c) /\ Previous(c) # Target(c)
      BY <2>7, <1>2, SaveMoves DEF KickSpeaker, RoomType
    <2>8. QED
      BY <2>1, <2>2, <2>3, <2>4, <2>5, <2>6, <2>7
  <1>4. NoCall.at # "demote"
    BY DEF NoCall
  <1>5. QED
    BY <1>1, <1>3, <1>4, NobodyMoves

\* A removal on whatever copy: all it takes the role from are told or slipped.
LEMMA RemovalTells ==
    ASSUME CoHostInv, NEW c \in Call,
           \/ KickSpeaker(c) /\ Previous(c) = Target(c)
           \/ RemoveCoHost(c)
    PROVE  RevokedFirst' /\ CoHostsStepDown'
  <1>1. StageInv /\ room \in RoomType
    BY DEF CoHostInv, StageInv
  <1>2. Dismissed(c)
    BY DEF KickSpeaker, RemoveCoHost
  <1>3. /\ call'[c] = NoCall
        /\ \A d \in Call \ {c} :
              call'[d].at = call[d].at /\ Previous(d)' = Previous(d)
    <2>1. CASE KickSpeaker(c) /\ Previous(c) = Target(c)
      BY <2>1, <1>1, SaveMoves DEF KickSpeaker
    <2>2. CASE RemoveCoHost(c)
      BY <2>2, <1>1, SaveMoves DEF RemoveCoHost
    <2>3. QED
      BY <2>1, <2>2
  <1>4. none \notin publishing
    BY <1>1, StageAssumption DEF StageInv
  <1>5. \A u \in publishing' : u \in publishing /\ u \in slipped'
    BY <1>2, <1>4 DEF CoHostInv, CoHostsStepDown, Dismissed
  <1>6. CoHostsStepDown'
    BY <1>5 DEF CoHostsStepDown
  <1>7. RevokedFirst'
    <2>1. NoCall.at # "demote"
      BY DEF NoCall
    <2>2. QED
      BY <1>5 DEF RevokedFirst
  <1>8. QED
    BY <1>6, <1>7

LEMMA InvitationTells ==
    ASSUME CoHostInv, NEW c \in Call,
           Revoke(c) \/ Demote(c) \/ Notify(c) \/ Assign(c)
    PROVE  RevokedFirst' /\ CoHostsStepDown'
  <1>1. StageInv /\ room \in RoomType /\ call \in [Call -> Request]
    BY DEF CoHostInv, StageInv
  <1>2. none \notin publishing
    BY <1>1, StageAssumption DEF StageInv
  <1>3. CASE Revoke(c) \/ Notify(c)
    <2>1. /\ room' = room
          /\ publishing' = publishing \ {Previous(c)}
          /\ slipped' = slipped \ {Previous(c)}
      BY <1>3 DEF Revoke, Notify
    <2>2. \A d \in Call : /\ Previous(d)' = Previous(d)
                          /\ d # c => call'[d].at = call[d].at
      BY <1>1, <1>3 DEF Revoke, Notify, Previous, Copy, Request
    <2>3. CoHostsStepDown'
      BY <2>1 DEF CoHostInv, CoHostsStepDown
    <2>4. RevokedFirst'
      BY <2>1, <2>2 DEF CoHostInv, RevokedFirst
    <2>5. QED
      BY <2>3, <2>4
  <1>4. CASE Demote(c)
    <2>1. /\ UNCHANGED <<publishing, slipped>>
          /\ call[c].at = "demote" /\ room.coHost = Previous(c)
      BY <1>4 DEF Demote
    <2>2. /\ call'[c] = [call[c] EXCEPT !.at = "notify"]
          /\ \A d \in Call \ {c} :
                call'[d].at = call[d].at /\ Previous(d)' = Previous(d)
      BY <1>4, <1>1, SaveMoves DEF Demote
    <2>3. call'[c].at # "demote"
      BY <1>1, <2>2 DEF Request
    <2>4. CoHostsStepDown'
      BY <2>1 DEF CoHostInv, CoHostsStepDown, RevokedFirst
    <2>5. RevokedFirst'
      BY <2>1, <2>2, <2>3 DEF CoHostInv, RevokedFirst
    <2>6. QED
      BY <2>4, <2>5
  <1>5. CASE Assign(c)
    <2> DEFINE t == Target(c)
    <2>1. /\ room.coHost \in {none, t}
          /\ publishing' = publishing \cup {t}
          /\ slipped' = IF Awaited(t) THEN slipped \cup {t} ELSE slipped \ {t}
      BY <1>5 DEF Assign, Assignable
    <2>2. /\ room'.coHost = t
          /\ call'[c] = NoCall
          /\ \A d \in Call \ {c} :
                call'[d].at = call[d].at /\ Previous(d)' = Previous(d)
      BY <1>5, <1>1, SaveMoves DEF Assign
    <2>3. \A u \in publishing : u = t \/ u \in slipped
      BY <2>1, <1>2 DEF CoHostInv, CoHostsStepDown
    <2>4. CoHostsStepDown'
      BY <2>1, <2>2, <2>3 DEF CoHostsStepDown
    <2>5. RevokedFirst'
      <3> SUFFICES ASSUME NEW d \in Call, call'[d].at = "demote"
                   PROVE  \/ Previous(d)' \notin publishing'
                          \/ Previous(d)' \in slipped'
        BY DEF RevokedFirst
      <3>1. d # c
        BY <2>2 DEF NoCall
      <3>2. call[d].at = "demote" /\ Previous(d)' = Previous(d)
        BY <3>1, <2>2
      <3>3. CASE Previous(d) = t
        BY <3>2, <3>3, <2>1 DEF Awaited
      <3>4. CASE Previous(d) # t
        BY <3>2, <3>4, <2>1 DEF CoHostInv, RevokedFirst
      <3>5. QED
        BY <3>3, <3>4
    <2>6. QED
      BY <2>4, <2>5
  <1>6. QED
    BY <1>3, <1>4, <1>5

LEMMA NextCoHostInv == CoHostInv /\ [StageNext]_stageVars => CoHostInv'
  <1> SUFFICES ASSUME CoHostInv, [StageNext]_stageVars PROVE CoHostInv'
    OBVIOUS
  <1>1. StageInv'
    BY NextStageInv DEF CoHostInv
  <1>2. call \in [Call -> Request]
    BY DEF CoHostInv, StageInv
  <1>3. ASSUME NEW c \in Call, NEW op \in Operation, NEW t \in Targets(op),
               Read(c, op, t)
        PROVE  RevokedFirst' /\ CoHostsStepDown'
    <2>1. /\ UNCHANGED <<room, publishing, slipped>>
          /\ \A d \in Call \ {c} : call'[d] = call[d]
          /\ call'[c].at # "demote"
      BY <1>2, <1>3 DEF Read
    <2>2. QED
      BY <2>1, NobodyMoves DEF Previous, Copy
  <1>4. ASSUME NEW c \in Call, CallStep(c)
        PROVE  RevokedFirst' /\ CoHostsStepDown'
    BY <1>4, ColumnsMoveNobody, RemovalTells, InvitationTells DEF CallStep
  <1>5. ASSUME NEW c \in Call, Abort(c)
        PROVE  RevokedFirst' /\ CoHostsStepDown'
    <2>1. /\ UNCHANGED <<room, publishing, slipped>>
          /\ \A d \in Call \ {c} : call'[d] = call[d]
          /\ call'[c].at # "demote"
      BY <1>2, <1>5 DEF Abort, NoCall
    <2>2. QED
      BY <2>1, NobodyMoves DEF Previous, Copy
  <1>6. ASSUME UNCHANGED stageVars
        PROVE  RevokedFirst' /\ CoHostsStepDown'
    BY <1>6, NobodyMoves DEF stageVars, Previous, Copy
  <1>7. QED
    BY <1>1, <1>3, <1>4, <1>5, <1>6 DEF CoHostInv, StageNext, StageStep

\* Whoever lost the role of co-host cannot publish or was told to stop, save
\* the two cases the history names, for any number of members and requests.
THEOREM StageCoHosts == StageSpec => []CoHostsStepDown
  <1>1. StageInit => CoHostInv
    BY InitStageInv
    DEF StageInit, CoHostInv, RevokedFirst, CoHostsStepDown, NoCall
  <1>2. CoHostInv => CoHostsStepDown
    BY DEF CoHostInv
  <1>3. QED
    BY <1>1, <1>2, NextCoHostInv, PTL DEF StageSpec

(***************************************************************************)
(* What requests mean.  A column of its copy that nobody else has written  *)
(* is the column of the row, but for what an invitation has taken from the *)
(* co-host it replaces; and whoever has written the co-host has written    *)
(* the speakers.                                                           *)
(***************************************************************************)
Clean(r, col) == col \in Uses(r.op) /\ col \notin r.dirty

HasDemoted(r) == r.at \in {"notify", "write"} /\ Replaces(r.copy, r.target)

Faithful(r, now) ==
    /\ r.at \in {"revoke", "demote", "notify"} =>
          r.op = "invite" /\ Replaces(r.copy, r.target)
    /\ Clean(r, "speakers") => now.speakers = r.copy.speakers \
          (IF r.op = "invite" /\ HasDemoted(r) THEN {r.copy.coHost} ELSE {})
    /\ Clean(r, "hands") => now.hands = r.copy.hands
    /\ Clean(r, "coHost") => now.coHost =
          IF r.op = "invite" /\ HasDemoted(r) THEN none ELSE r.copy.coHost
    /\ "coHost" \in r.dirty => "speakers" \in r.dirty

MeantInv ==
    /\ room = intended
    /\ \A c \in Call : IF call[c].op = "none" THEN call[c].at = "idle"
                                             ELSE Faithful(call[c], room)

\* Somebody else's write, seen from a request that is under way.
LEMMA FaithfulStays ==
    ASSUME NEW r \in Request, r.op # "none", NEW now \in RoomType, Faithful(r, now),
           NEW cols \in SUBSET Column, "coHost" \in cols => "speakers" \in cols,
           NEW new \in RoomType,
           "speakers" \in cols \/ new.speakers = now.speakers,
           "hands" \in cols \/ new.hands = now.hands,
           "coHost" \in cols \/ new.coHost = now.coHost
    PROVE  Faithful([r EXCEPT !.dirty = @ \cup (cols \cap Uses(r.op))], new)
  <1> DEFINE s == [r EXCEPT !.dirty = @ \cup (cols \cap Uses(r.op))]
  <1>1. /\ s.at = r.at /\ s.op = r.op /\ s.target = r.target /\ s.copy = r.copy
        /\ s.dirty = r.dirty \cup (cols \cap Uses(r.op))
    BY DEF Request
  <1>2. \A col \in Column : Clean(s, col) <=> Clean(r, col) /\ col \notin cols
    BY <1>1 DEF Clean
  <1>3. HasDemoted(s) <=> HasDemoted(r)
    BY <1>1 DEF HasDemoted
  <1>4. "coHost" \in s.dirty => "speakers" \in s.dirty
    <2>1. "coHost" \in Uses(r.op) => "speakers" \in Uses(r.op)
      BY DEF Uses, Request, Operation, Column
    <2>2. QED
      BY <1>1, <2>1 DEF Faithful
  <1>5. Faithful(s, new)
    <2> HIDE DEF s
    <2>1. {"speakers", "hands", "coHost"} = Column
      BY DEF Column
    <2>2. /\ Clean(s, "speakers") => Clean(r, "speakers") /\ new.speakers = now.speakers
          /\ Clean(s, "hands") => Clean(r, "hands") /\ new.hands = now.hands
          /\ Clean(s, "coHost") => Clean(r, "coHost") /\ new.coHost = now.coHost
      BY <1>2, <2>1
    <2>3. QED
      BY <1>1, <1>3, <1>4, <2>2 DEF Faithful
  <1>6. QED
    BY <1>5

\* A write touches cols only, and comes out as m where r's copy is the row.
Touches(cols, new, now) ==
    /\ "coHost" \in cols => "speakers" \in cols
    /\ "speakers" \in cols \/ new.speakers = now.speakers
    /\ "hands" \in cols \/ new.hands = now.hands
    /\ "coHost" \in cols \/ new.coHost = now.coHost

AsMeant(r, new, m) ==
    /\ "speakers" \in r.dirty \/ m.speakers = new.speakers
    /\ "hands" \in r.dirty \/ m.hands = new.hands
    /\ "coHost" \in r.dirty \/ m.coHost = new.coHost

EndsOrHolds(next, new) ==
    \/ next = NoCall
    \/ next.op # "none" /\ Faithful(next, new)

\* A write whose clean columns come out as they are meant.
LEMMA SaveMeant ==
    ASSUME StageInv, MeantInv, NEW c \in Call, NEW cols \in SUBSET Column,
           room' \in RoomType, NEW new, NEW meant, NEW next,
           Save(c, cols, new, meant, next),
           Touches(cols, new, room), AsMeant(call[c], new, meant),
           EndsOrHolds(next, new)
    PROVE  MeantInv'
  <1>1. /\ room' = new /\ new \in RoomType
        /\ call' = [d \in Call |->
              IF d = c THEN next
              ELSE IF call[d].op = "none" THEN call[d]
              ELSE [call[d] EXCEPT !.dirty = @ \cup (cols \cap Uses(call[d].op))]]
    BY DEF Save
  <1>2. intended' = new
    <2>1. intended' = [col \in Column |->
              IF col \in call[c].dirty THEN new[col] ELSE meant[col]]
      BY DEF Save
    <2>2. \A col \in Column : intended'[col] = new[col]
      BY <2>1 DEF Column, AsMeant
    <2>3. new = [speakers |-> new.speakers, hands |-> new.hands, coHost |-> new.coHost]
      BY <1>1 DEF RoomType
    <2>4. intended' = [speakers |-> intended'.speakers, hands |-> intended'.hands,
                       coHost |-> intended'.coHost]
      BY <2>1 DEF Column
    <2>5. QED
      BY <2>2, <2>3, <2>4 DEF Column
  <1>3. ASSUME NEW d \in Call
        PROVE  IF call'[d].op = "none" THEN call'[d].at = "idle"
                                       ELSE Faithful(call'[d], new)
    <2>1. CASE d = c
      BY <1>1, <2>1 DEF NoCall, EndsOrHolds
    <2>2. CASE d # c /\ call[d].op = "none"
      BY <1>1, <2>2 DEF MeantInv
    <2>3. CASE d # c /\ call[d].op # "none"
      <3>1. call[d] \in Request /\ room \in RoomType
        BY DEF StageInv
      <3>2. call'[d] = [call[d] EXCEPT !.dirty = @ \cup (cols \cap Uses(call[d].op))]
        BY <1>1, <2>3
      <3>3. Faithful(call[d], room)
        BY <2>3 DEF MeantInv
      <3>4. Faithful(call'[d], new)
        BY <1>1, <2>3, <3>1, <3>2, <3>3, FaithfulStays DEF Touches
      <3>5. call'[d].op = call[d].op
        BY <3>1, <3>2 DEF Request
      <3>6. QED
        BY <2>3, <3>4, <3>5
    <2>4. QED
      BY <2>1, <2>2, <2>3
  <1>4. QED
    BY <1>1, <1>2, <1>3 DEF MeantInv

\* What a request that is about to write knows of the row.
LEMMA CopyNow ==
    ASSUME StageInv, MeantInv, NEW c \in Call, call[c].op # "none",
           call[c].op # "invite"
    PROVE  /\ "speakers" \in Uses(call[c].op) =>
                 "speakers" \in call[c].dirty \/ room.speakers = Copy(c).speakers
           /\ "hands" \in Uses(call[c].op) =>
                 "hands" \in call[c].dirty \/ room.hands = Copy(c).hands
           /\ "coHost" \in Uses(call[c].op) =>
                 "coHost" \in call[c].dirty \/ room.coHost = Previous(c)
           /\ "coHost" \in call[c].dirty => "speakers" \in call[c].dirty
  <1>1. call[c] \in Request /\ room \in RoomType /\ Copy(c) \in RoomType
    BY StageInvNow DEF StageInv
  <1>2. Faithful(call[c], room)
    BY DEF MeantInv
  <1>3. QED
    BY <1>1, <1>2 DEF Faithful, Clean, Copy, Previous, RoomType

\* The fields of a row some of whose columns are written.
LEMMA Fields ==
    ASSUME NEW r \in RoomType, NEW s, NEW h, NEW u
    PROVE  /\ [r EXCEPT !.speakers = s].speakers = s
           /\ [r EXCEPT !.speakers = s].hands = r.hands
           /\ [r EXCEPT !.speakers = s].coHost = r.coHost
           /\ [r EXCEPT !.hands = h].speakers = r.speakers
           /\ [r EXCEPT !.hands = h].hands = h
           /\ [r EXCEPT !.hands = h].coHost = r.coHost
           /\ [r EXCEPT !.hands = h, !.speakers = s].speakers = s
           /\ [r EXCEPT !.hands = h, !.speakers = s].hands = h
           /\ [r EXCEPT !.hands = h, !.speakers = s].coHost = r.coHost
           /\ [r EXCEPT !.speakers = s, !.hands = h].speakers = s
           /\ [r EXCEPT !.speakers = s, !.hands = h].hands = h
           /\ [r EXCEPT !.speakers = s, !.hands = h].coHost = r.coHost
           /\ [r EXCEPT !.speakers = s, !.coHost = u].speakers = s
           /\ [r EXCEPT !.speakers = s, !.coHost = u].hands = r.hands
           /\ [r EXCEPT !.speakers = s, !.coHost = u].coHost = u
  BY DEF RoomType

LEMMA ColumnsAsMeant ==
    ASSUME StageInv, StageInv', MeantInv, NEW c \in Call,
           \/ RaiseHand(c) \/ ApproveSpeaker(c) \/ DemoteSpeaker(c)
           \/ DismissRaisedHand(c) \/ ReorderSpeakers(c) \/ ClearStage(c)
    PROVE  MeantInv'
  <1>1. room \in RoomType /\ intended \in RoomType /\ room = intended /\ room' \in RoomType
    BY DEF StageInv, MeantInv
  <1>2. /\ {{"hands"}, {"speakers"}, {"hands", "speakers"}} \subseteq SUBSET Column
    BY DEF Column
  <1>3. CASE RaiseHand(c)
    <2> DEFINE new == [room EXCEPT !.hands = Copy(c).hands \cup {Target(c)}]
               m == [intended EXCEPT !.hands = @ \cup {Target(c)}]
    <2>1. Save(c, {"hands"}, new, m, NoCall) /\ call[c].op = "raise"
      BY <1>3 DEF RaiseHand, Writes
    <2>2. /\ new.speakers = room.speakers
          /\ new.hands = Copy(c).hands \cup {Target(c)}
          /\ new.coHost = room.coHost
      BY <1>1, Fields
    <2>3. /\ m.speakers = intended.speakers
          /\ m.hands = intended.hands \cup {Target(c)}
          /\ m.coHost = intended.coHost
      BY <1>1, Fields
    <2>4. QED
      <3> HIDE DEF new, m
      <3>1. AsMeant(call[c], new, m)
        BY <1>1, <2>1, <2>2, <2>3, CopyNow DEF Uses, AsMeant
      <3>2. Touches({"hands"}, new, room)
        BY <2>2 DEF Touches
      <3>3. EndsOrHolds(NoCall, new)
        BY DEF EndsOrHolds
      <3>4. QED
        BY <1>1, <1>2, <2>1, <3>1, <3>2, <3>3, SaveMeant
  <1>4. CASE ApproveSpeaker(c)
    <2> DEFINE new == [room EXCEPT !.hands = Copy(c).hands \ {Target(c)},
                             !.speakers = Copy(c).speakers \cup {Target(c)}]
               m == [intended EXCEPT !.hands = @ \ {Target(c)},
                               !.speakers = @ \cup {Target(c)}]
    <2>1. Save(c, {"hands", "speakers"}, new, m, NoCall) /\ call[c].op = "approve"
      BY <1>4 DEF ApproveSpeaker, Writes
    <2>2. /\ new.speakers = Copy(c).speakers \cup {Target(c)}
          /\ new.hands = Copy(c).hands \ {Target(c)}
          /\ new.coHost = room.coHost
      BY <1>1, Fields
    <2>3. /\ m.speakers = intended.speakers \cup {Target(c)}
          /\ m.hands = intended.hands \ {Target(c)}
          /\ m.coHost = intended.coHost
      BY <1>1, Fields
    <2>4. QED
      <3> HIDE DEF new, m
      <3>1. AsMeant(call[c], new, m)
        BY <1>1, <2>1, <2>2, <2>3, CopyNow DEF Uses, AsMeant
      <3>2. Touches({"hands", "speakers"}, new, room)
        BY <2>2 DEF Touches
      <3>3. EndsOrHolds(NoCall, new)
        BY DEF EndsOrHolds
      <3>4. QED
        BY <1>1, <1>2, <2>1, <3>1, <3>2, <3>3, SaveMeant
  <1>5. CASE DemoteSpeaker(c)
    <2> DEFINE new == [room EXCEPT !.speakers = Copy(c).speakers \ {Target(c)}]
               m == [intended EXCEPT !.speakers = @ \ {Target(c)}]
    <2>1. Save(c, {"speakers"}, new, m, NoCall) /\ call[c].op = "demote"
      BY <1>5 DEF DemoteSpeaker, Writes
    <2>2. /\ new.speakers = Copy(c).speakers \ {Target(c)}
          /\ new.hands = room.hands
          /\ new.coHost = room.coHost
      BY <1>1, Fields
    <2>3. /\ m.speakers = intended.speakers \ {Target(c)}
          /\ m.hands = intended.hands
          /\ m.coHost = intended.coHost
      BY <1>1, Fields
    <2>4. QED
      <3> HIDE DEF new, m
      <3>1. AsMeant(call[c], new, m)
        BY <1>1, <2>1, <2>2, <2>3, CopyNow DEF Uses, AsMeant
      <3>2. Touches({"speakers"}, new, room)
        BY <2>2 DEF Touches
      <3>3. EndsOrHolds(NoCall, new)
        BY DEF EndsOrHolds
      <3>4. QED
        BY <1>1, <1>2, <2>1, <3>1, <3>2, <3>3, SaveMeant
  <1>6. CASE DismissRaisedHand(c)
    <2> DEFINE new == [room EXCEPT !.hands = Copy(c).hands \ {Target(c)}]
               m == [intended EXCEPT !.hands = @ \ {Target(c)}]
    <2>1. Save(c, {"hands"}, new, m, NoCall) /\ call[c].op = "dismiss"
      BY <1>6 DEF DismissRaisedHand, Writes
    <2>2. /\ new.speakers = room.speakers
          /\ new.hands = Copy(c).hands \ {Target(c)}
          /\ new.coHost = room.coHost
      BY <1>1, Fields
    <2>3. /\ m.speakers = intended.speakers
          /\ m.hands = intended.hands \ {Target(c)}
          /\ m.coHost = intended.coHost
      BY <1>1, Fields
    <2>4. QED
      <3> HIDE DEF new, m
      <3>1. AsMeant(call[c], new, m)
        BY <1>1, <2>1, <2>2, <2>3, CopyNow DEF Uses, AsMeant
      <3>2. Touches({"hands"}, new, room)
        BY <2>2 DEF Touches
      <3>3. EndsOrHolds(NoCall, new)
        BY DEF EndsOrHolds
      <3>4. QED
        BY <1>1, <1>2, <2>1, <3>1, <3>2, <3>3, SaveMeant
  <1>7. CASE ReorderSpeakers(c)
    <2> DEFINE new == [room EXCEPT !.speakers = Copy(c).speakers]
               m == intended
    <2>1. Save(c, {"speakers"}, new, m, NoCall) /\ call[c].op = "reorder"
      BY <1>7 DEF ReorderSpeakers, Writes
    <2>2. /\ new.speakers = Copy(c).speakers
          /\ new.hands = room.hands
          /\ new.coHost = room.coHost
      BY <1>1, Fields
    <2>3. /\ m.speakers = intended.speakers
          /\ m.hands = intended.hands
          /\ m.coHost = intended.coHost
      BY <1>1, Fields
    <2>4. QED
      <3> HIDE DEF new, m
      <3>1. AsMeant(call[c], new, m)
        BY <1>1, <2>1, <2>2, <2>3, CopyNow DEF Uses, AsMeant
      <3>2. Touches({"speakers"}, new, room)
        BY <2>2 DEF Touches
      <3>3. EndsOrHolds(NoCall, new)
        BY DEF EndsOrHolds
      <3>4. QED
        BY <1>1, <1>2, <2>1, <3>1, <3>2, <3>3, SaveMeant
  <1>8. CASE ClearStage(c)
    <2> DEFINE new == [room EXCEPT !.speakers = {owner}, !.hands = {}]
               m == [intended EXCEPT !.speakers = {owner}, !.hands = {}]
    <2>1. Save(c, {"hands", "speakers"}, new, m, NoCall) /\ call[c].op = "clear"
      BY <1>8 DEF ClearStage, Writes
    <2>2. /\ new.speakers = {owner}
          /\ new.hands = {}
          /\ new.coHost = room.coHost
      BY <1>1, Fields
    <2>3. /\ m.speakers = {owner}
          /\ m.hands = {}
          /\ m.coHost = intended.coHost
      BY <1>1, Fields
    <2>4. QED
      <3> HIDE DEF new, m
      <3>1. AsMeant(call[c], new, m)
        BY <1>1, <2>1, <2>2, <2>3, CopyNow DEF Uses, AsMeant
      <3>2. Touches({"hands", "speakers"}, new, room)
        BY <2>2 DEF Touches
      <3>3. EndsOrHolds(NoCall, new)
        BY DEF EndsOrHolds
      <3>4. QED
        BY <1>1, <1>2, <2>1, <3>1, <3>2, <3>3, SaveMeant
  <1>9. QED
    BY <1>3, <1>4, <1>5, <1>6, <1>7, <1>8

LEMMA RemovalsAsMeant ==
    ASSUME StageInv, StageInv', MeantInv, NEW c \in Call,
           KickSpeaker(c) \/ RemoveCoHost(c)
    PROVE  MeantInv'
  <1>1. room \in RoomType /\ intended \in RoomType /\ room = intended /\ room' \in RoomType
    BY DEF StageInv, MeantInv
  <1>2. /\ {{"speakers"}, {"speakers", "coHost"}} \subseteq SUBSET Column
    BY DEF Column
  <1>3. CASE KickSpeaker(c) /\ Previous(c) = Target(c)
    <2> DEFINE new == [room EXCEPT !.speakers = Copy(c).speakers \ {Target(c)},
                             !.coHost = none]
               m == [intended EXCEPT !.speakers = @ \ {Target(c)}, !.coHost = none]
    <2>1. Save(c, {"speakers", "coHost"}, new, m, NoCall) /\ call[c].op = "kick"
      BY <1>3 DEF KickSpeaker, Writes
    <2>2. /\ new.speakers = Copy(c).speakers \ {Target(c)}
          /\ new.hands = room.hands
          /\ new.coHost = none
      BY <1>1, Fields
    <2>3. /\ m.speakers = intended.speakers \ {Target(c)}
          /\ m.hands = intended.hands
          /\ m.coHost = none
      BY <1>1, Fields
    <2>4. QED
      <3> HIDE DEF new, m
      <3>1. AsMeant(call[c], new, m)
        BY <1>1, <2>1, <2>2, <2>3, CopyNow DEF Uses, AsMeant
      <3>2. Touches({"speakers", "coHost"}, new, room)
        BY <2>2 DEF Touches
      <3>3. EndsOrHolds(NoCall, new)
        BY DEF EndsOrHolds
      <3>4. QED
        BY <1>1, <1>2, <2>1, <3>1, <3>2, <3>3, SaveMeant
  <1>4. CASE KickSpeaker(c) /\ Previous(c) # Target(c)
    <2> DEFINE new == [room EXCEPT !.speakers = Copy(c).speakers \ {Target(c)}]
               m == [intended EXCEPT !.speakers = @ \ {Target(c)},
                               !.coHost = IF @ = Target(c) THEN none ELSE @]
    <2>1. Save(c, {"speakers"}, new, m, NoCall) /\ call[c].op = "kick"
      BY <1>4 DEF KickSpeaker, Writes
    <2>2. /\ new.speakers = Copy(c).speakers \ {Target(c)}
          /\ new.hands = room.hands
          /\ new.coHost = room.coHost
      BY <1>1, Fields
    <2>3. /\ m.speakers = intended.speakers \ {Target(c)}
          /\ m.hands = intended.hands
          /\ m.coHost = IF intended.coHost = Target(c) THEN none
                                                  ELSE intended.coHost
      BY <1>1, Fields
    <2>4. QED
      <3> HIDE DEF new, m
      <3>1. AsMeant(call[c], new, m)
        BY <1>1, <1>4, <2>1, <2>2, <2>3, CopyNow DEF Uses, AsMeant
      <3>2. Touches({"speakers"}, new, room)
        BY <2>2 DEF Touches
      <3>3. EndsOrHolds(NoCall, new)
        BY DEF EndsOrHolds
      <3>4. QED
        BY <1>1, <1>2, <2>1, <3>1, <3>2, <3>3, SaveMeant
  <1>5. CASE RemoveCoHost(c)
    <2> DEFINE new == [room EXCEPT !.speakers = Copy(c).speakers \ {Previous(c)},
                             !.coHost = none]
               m == [intended EXCEPT !.speakers = @ \ {intended.coHost},
                               !.coHost = none]
    <2>1. Save(c, {"speakers", "coHost"}, new, m, NoCall) /\ call[c].op = "remove"
      BY <1>5 DEF RemoveCoHost, Writes
    <2>2. /\ new.speakers = Copy(c).speakers \ {Previous(c)}
          /\ new.hands = room.hands
          /\ new.coHost = none
      BY <1>1, Fields
    <2>3. /\ m.speakers = intended.speakers \ {intended.coHost}
          /\ m.hands = intended.hands
          /\ m.coHost = none
      BY <1>1, Fields
    <2>4. QED
      <3> HIDE DEF new, m
      <3>1. AsMeant(call[c], new, m)
        BY <1>1, <2>1, <2>2, <2>3, CopyNow DEF Uses, AsMeant
      <3>2. Touches({"speakers", "coHost"}, new, room)
        BY <2>2 DEF Touches
      <3>3. EndsOrHolds(NoCall, new)
        BY DEF EndsOrHolds
      <3>4. QED
        BY <1>1, <1>2, <2>1, <3>1, <3>2, <3>3, SaveMeant
  <1>6. QED
    BY <1>3, <1>4, <1>5

\* Before its own demotion an invitation's copy is the row; after it, the row
\* less the co-host it replaces.
LEMMA InvitationNow ==
    ASSUME StageInv, MeantInv, NEW c \in Call, call[c].op # "none", Faithful(call[c], room)
    PROVE  /\ call[c].at \in {"revoke", "demote", "notify"} =>
                 call[c].op = "invite" /\ Replaces(Copy(c), Target(c))
           /\ call[c].op = "invite" =>
                 /\ "speakers" \in call[c].dirty
                    \/ room.speakers = Copy(c).speakers \
                          IF HasDemoted(call[c]) THEN {Previous(c)} ELSE {}
                 /\ "hands" \in call[c].dirty \/ room.hands = Copy(c).hands
                 /\ "coHost" \in call[c].dirty
                    \/ room.coHost = IF HasDemoted(call[c]) THEN none ELSE Previous(c)
           /\ "coHost" \in call[c].dirty => "speakers" \in call[c].dirty
  <1>1. call[c].op = "invite" => Uses(call[c].op) = {"speakers", "hands", "coHost"}
    BY DEF Uses, Column
  <1>2. QED
    BY <1>1 DEF Faithful, Clean, Copy, Previous, Target

LEMMA DemotionAsMeant ==
    ASSUME StageInv, StageInv', MeantInv, NEW c \in Call, Demote(c)
    PROVE  MeantInv'
  <1>1. room \in RoomType /\ intended \in RoomType /\ room = intended /\ room' \in RoomType
    BY DEF StageInv, MeantInv
  <1>2. {"speakers", "coHost"} \in SUBSET Column
    BY DEF Column
  <1> DEFINE new == [room EXCEPT !.speakers = Copy(c).speakers \ {Previous(c)},
                                 !.coHost = none]
             m == [intended EXCEPT !.speakers = @ \ {Previous(c)}, !.coHost = none]
             next == [call[c] EXCEPT !.at = "notify"]
  <1>3. Save(c, {"speakers", "coHost"}, new, m, next) /\ call[c].at = "demote"
    BY DEF Demote
  <1>4. /\ new.speakers = Copy(c).speakers \ {Previous(c)}
        /\ new.hands = room.hands
        /\ new.coHost = none
    BY <1>1, Fields
  <1>5. /\ m.speakers = intended.speakers \ {Previous(c)}
        /\ m.hands = intended.hands
        /\ m.coHost = none
    BY <1>1, Fields
  <1>6. call[c] \in Request /\ call[c].op # "none" /\ Faithful(call[c], room)
    BY <1>3 DEF StageInv, MeantInv
  <1>7. /\ call[c].op = "invite" /\ Replaces(Copy(c), Target(c))
        /\ ~HasDemoted(call[c])
        /\ "speakers" \in call[c].dirty \/ room.speakers = Copy(c).speakers
        /\ "hands" \in call[c].dirty \/ room.hands = Copy(c).hands
        /\ "coHost" \in call[c].dirty => "speakers" \in call[c].dirty
    <2>1. ~HasDemoted(call[c])
      BY <1>3 DEF HasDemoted
    <2>2. call[c].op = "invite" /\ Replaces(Copy(c), Target(c))
      BY <1>3, <1>6, InvitationNow
    <2>3. QED
      BY <1>6, <2>1, <2>2, InvitationNow
  <1>8. /\ next.at = "notify" /\ next.op = "invite" /\ next.dirty = call[c].dirty
        /\ next.copy = Copy(c) /\ next.target = Target(c)
    BY <1>6, <1>7 DEF Request, Copy, Target
  <1>9. Faithful(next, new)
    <2> HIDE DEF next, new
    <2>1. HasDemoted(next)
      BY <1>7, <1>8 DEF HasDemoted
    <2>2. QED
      BY <1>4, <1>7, <1>8, <2>1 DEF Faithful, Clean, Previous
  <1>10. QED
    <2> HIDE DEF new, m, next
    <2>1. Touches({"speakers", "coHost"}, new, room)
      BY <1>4 DEF Touches
    <2>2. AsMeant(call[c], new, m)
      BY <1>1, <1>4, <1>5, <1>7 DEF AsMeant
    <2>3. EndsOrHolds(next, new)
      BY <1>8, <1>9 DEF EndsOrHolds
    <2>4. QED
      BY <1>1, <1>2, <1>3, <2>1, <2>2, <2>3, SaveMeant

LEMMA AssignmentAsMeant ==
    ASSUME StageInv, StageInv', MeantInv, NEW c \in Call, Assign(c)
    PROVE  MeantInv'
  <1>1. room \in RoomType /\ intended \in RoomType /\ room = intended /\ room' \in RoomType
    BY DEF StageInv, MeantInv
  <1> DEFINE new == [speakers |-> (Copy(c).speakers \
                        IF Previous(c) = Target(c) THEN {} ELSE {Previous(c)})
                            \cup {Target(c)},
                     hands |-> Copy(c).hands \ {Target(c)},
                     coHost |-> Target(c)]
             m == [speakers |-> intended.speakers \cup {Target(c)},
                   hands |-> intended.hands \ {Target(c)},
                   coHost |-> Target(c)]
  <1>2. Save(c, Column, new, m, NoCall) /\ call[c].op = "invite" /\ call[c].at = "write"
    BY DEF Assign, Writes
  <1>3. /\ Column \in SUBSET Column /\ {"speakers", "hands", "coHost"} = Column
    BY DEF Column
  <1>4. call[c] \in Request /\ Faithful(call[c], room)
    BY <1>2 DEF StageInv, MeantInv
  <1>5. HasDemoted(call[c]) <=> Previous(c) \notin {none, Target(c)}
    BY <1>2 DEF HasDemoted, Replaces, Previous, Copy, Target
  <1>6. Copy(c).speakers \subseteq Member \cup {owner}
    BY StageInvNow DEF RoomType
  <1>7. "speakers" \in call[c].dirty \/ m.speakers = new.speakers
    <2>1. "speakers" \in call[c].dirty
          \/ room.speakers = Copy(c).speakers \
                IF HasDemoted(call[c]) THEN {Previous(c)} ELSE {}
      BY <1>2, <1>4, InvitationNow
    <2>2. none \notin Copy(c).speakers
      BY <1>6, StageAssumption
    <2>3. QED
      BY <1>1, <1>5, <2>1, <2>2
  <1>8. "hands" \in call[c].dirty \/ m.hands = new.hands
    BY <1>1, <1>2, <1>4, InvitationNow
  <1>9. m.coHost = new.coHost
    OBVIOUS
  <1>10. QED
    <2> HIDE DEF new, m
    <2>1. Touches(Column, new, room)
      BY <1>3 DEF Touches
    <2>2. AsMeant(call[c], new, m)
      BY <1>7, <1>8, <1>9 DEF AsMeant
    <2>3. EndsOrHolds(NoCall, new)
      BY DEF EndsOrHolds
    <2>4. QED
      BY <1>1, <1>2, <1>3, <2>1, <2>2, <2>3, SaveMeant

LEMMA NextMeantInv ==
    StageInv /\ StageInv' /\ MeantInv /\ [StageNext]_stageVars => MeantInv'
  <1> SUFFICES ASSUME StageInv, StageInv', MeantInv, [StageNext]_stageVars
               PROVE  MeantInv'
    OBVIOUS
  <1>1. ASSUME NEW c \in Call, NEW op \in Operation, NEW t \in Targets(op),
               Read(c, op, t)
        PROVE  MeantInv'
    <2>1. /\ UNCHANGED <<room, intended>>
          /\ \A d \in Call \ {c} : call'[d] = call[d]
          /\ call'[c].op = op /\ call'[c].target = t /\ call'[c].dirty = {}
          /\ call'[c].at = IF op = "invite" /\ Replaces(room, t) THEN "revoke" ELSE "write"
          /\ \A col \in Uses(op) : col \in Column => call'[c].copy[col] = room[col]
      BY <1>1 DEF Read, StageInv
    <2>2. Faithful(call'[c], room)
      <3>1. /\ "speakers" \in Uses(op) => call'[c].copy.speakers = room.speakers
            /\ "hands" \in Uses(op) => call'[c].copy.hands = room.hands
            /\ "coHost" \in Uses(op) => call'[c].copy.coHost = room.coHost
        BY <2>1 DEF Column
      <3>2. op = "invite" => "coHost" \in Uses(op)
        BY DEF Uses, Column
      <3>3. op = "invite" => (Replaces(call'[c].copy, t) <=> Replaces(room, t))
        BY <3>1, <3>2 DEF Replaces
      <3>4. op = "invite" => ~HasDemoted(call'[c])
        BY <2>1, <3>3 DEF HasDemoted
      <3>5. room.speakers \ {} = room.speakers
        OBVIOUS
      <3>6. QED
        BY <2>1, <3>1, <3>3, <3>4 DEF Faithful, Clean
    <2>3. QED
      BY <2>1, <2>2 DEF MeantInv, Operation
  <1>2. ASSUME NEW c \in Call, CallStep(c) PROVE MeantInv'
    <2>1. CASE Revoke(c) \/ Notify(c)
      <3>1. /\ UNCHANGED <<room, intended>>
            /\ call[c].at \in {"revoke", "notify"}
            /\ call' = [call EXCEPT ![c].at =
                           IF call[c].at = "revoke" THEN "demote" ELSE "write"]
        BY <2>1 DEF Revoke, Notify
      <3>2. call[c] \in Request /\ call[c].op # "none" /\ Faithful(call[c], room)
        BY <3>1 DEF StageInv, MeantInv
      <3>3. /\ \A d \in Call \ {c} : call'[d] = call[d]
            /\ call'[c].op = call[c].op /\ call'[c].target = call[c].target
            /\ call'[c].dirty = call[c].dirty /\ call'[c].copy = call[c].copy
            /\ call'[c].at = IF call[c].at = "revoke" THEN "demote" ELSE "write"
        BY <3>1, <3>2 DEF Request, StageInv
      <3>4. call[c].op = "invite" /\ Replaces(call[c].copy, call[c].target)
        BY <3>1, <3>2 DEF Faithful
      <3>5. HasDemoted(call'[c]) <=> HasDemoted(call[c])
        BY <3>1, <3>3, <3>4 DEF HasDemoted
      <3>6. Faithful(call'[c], room)
        BY <3>2, <3>3, <3>4, <3>5 DEF Faithful, Clean
      <3>7. QED
        BY <3>1, <3>2, <3>3, <3>6 DEF MeantInv
    <2>2. QED
      BY <1>2, <2>1, ColumnsAsMeant, RemovalsAsMeant, DemotionAsMeant,
         AssignmentAsMeant
      DEF CallStep
  <1>3. ASSUME NEW c \in Call, Abort(c) PROVE MeantInv'
    BY <1>3 DEF Abort, MeantInv, NoCall, StageInv
  <1>4. CASE UNCHANGED stageVars
    BY <1>4 DEF stageVars, MeantInv
  <1>5. QED
    BY <1>1, <1>2, <1>3, <1>4 DEF StageNext, StageStep

\* However many requests overlap, a column comes out as they mean it unless
\* somebody wrote that very column between a request's read and its write.
THEOREM StageMeant == StageSpec => []StageAsIntended
  <1>1. StageInit => MeantInv
    BY DEF StageInit, MeantInv, NoCall
  <1>2. StageInv /\ MeantInv /\ [StageNext]_stageVars => StageInv' /\ MeantInv'
    BY NextStageInv, NextMeantInv
  <1>3. MeantInv => StageAsIntended
    BY DEF MeantInv, StageAsIntended
  <1>4. QED
    BY <1>1, <1>2, <1>3, InitStageInv, PTL DEF StageSpec

=============================================================================
