----------------------------- MODULE SummaryJobs -----------------------------
(***************************************************************************)
(* AI summaries of archived audio rooms (AudioRoomArchivesService).  A row *)
(* of audio_room_transcripts is a job; every replica's cron tick looks for *)
(* due jobs and starts processRoom.  Nobody holds a lock: a worker claims  *)
(* a job by an update that still finds the status and the number of        *)
(* attempts it read, and its result is written only where it still finds   *)
(* "processing" and its own attempt number.                                *)
(*                                                                         *)
(* What disturbs this are the writes that do not compare: the recovery of  *)
(* jobs ten minutes old, whose worker may only be slow, the host's retry,  *)
(* which sets the attempts back to 0, and the second finalisation of a     *)
(* room, which makes the job pending again from whatever it is.            *)
(***************************************************************************)
EXTENDS Integers, FiniteSets

CONSTANTS
    Room,           \* archived rooms, each with at most one job
    Replica,        \* backend processes
    MaxAttempts,    \* maxAttempts, 4 by default
    QueueBatch,     \* QUEUE_BATCH_SIZE, 5
    RetryBound,     \* bound: retries by hosts
    LossBound       \* bound: crashes and calls that fail

ASSUME SummaryAssumption ==
    /\ MaxAttempts \in Nat \ {0}
    /\ QueueBatch \in Nat \ {0}
    /\ RetryBound \in Nat
    /\ LossBound \in Nat

VARIABLES
    job,        \* audio_room_transcripts: status, attempts, due, abandoned
    older,      \* the order of the rows by updated_at: pairs of rooms
    recorded,   \* the row has a recording_url
    stage,      \* where processRoom of a replica stands; idle: not inFlight
    saw,        \* the attempts and status a worker read, or its own attempt
    host,       \* where finalizeRoom stands after it has loaded the job
    outdated,   \* history: workers whose attempt number was set back under them
    retries, losses

rows == <<job, older, recorded>>
workers == <<stage, saw, outdated>>
bounds == <<retries, losses>>
summaryVars == <<rows, workers, host, bounds>>

\* inFlight: a replica works on a room at most once at a time.
Proc == Replica \X Room
RoomOf(p) == p[2]

Status == {"none", "pending", "processing", "ready", "failed"}

Job == [status : Status, attempts : 0..MaxAttempts,
        due : BOOLEAN,          \* summary_next_retry_at has passed
        abandoned : BOOLEAN]    \* claimed more than ten minutes ago

NoJob == [status |-> "none", attempts |-> 0, due |-> FALSE, abandoned |-> FALSE]

Pending(n) ==
    [status |-> "pending", attempts |-> n, due |-> TRUE, abandoned |-> FALSE]

-----------------------------------------------------------------------------
SummaryInit ==
    /\ job = [m \in Room |-> NoJob]
    /\ older = {}
    /\ recorded = [m \in Room |-> FALSE]
    /\ stage = [p \in Proc |-> "idle"]
    /\ saw = [p \in Proc |-> [status |-> "none", attempts |-> 0]]
    /\ host = [m \in Room |-> "idle"]
    /\ outdated = {}
    /\ retries = 0
    /\ losses = 0

\* The rooms that have a row.
Listed == {m \in Room : job[m].status # "none"}

\* The orders in which the rows of S can come.
Orders(S) ==
    {R \in SUBSET (S \X S) :
        /\ \A m \in S : <<m, m>> \notin R
        /\ \A m, n \in S : m = n \/ <<m, n>> \in R \/ <<n, m>> \in R
        /\ \A m, n, k \in S : <<m, n>> \in R /\ <<n, k>> \in R => <<m, k>> \in R}

\* Rows written now are the last ones by updated_at.
Requeue(S) ==
    LET before == Listed \ S
    IN  \E R \in Orders(S) :
            older' = (older \cap before \X before) \cup (before \X S) \cup R

\* Writes the row of m.
Put(m, j) ==
    /\ job' = [job EXCEPT ![m] = j]
    /\ Requeue({m})

\* processRoom returns where the room is already in flight.
Start(S) ==
    stage' = [p \in Proc |-> IF p \in S /\ stage[p] = "idle" THEN "load"
                                                             ELSE stage[p]]

\* scheduleProcessing, in the replica that serves the host's request.
Schedule(m) == \E r \in Replica : Start({<<r, m>>})

Leave(p) ==
    /\ stage' = [stage EXCEPT ![p] = "idle"]
    /\ saw' = [saw EXCEPT ![p] = [status |-> "none", attempts |-> 0]]
    /\ outdated' = outdated \ {p}

Loss ==
    /\ losses < LossBound
    /\ losses' = losses + 1

-----------------------------------------------------------------------------
(***************************************************************************)
(* The worker                                                              *)
(***************************************************************************)

\* Defect variant: the attempts are left to the queue's query.
RefusedStatus(j) ==
    \/ j.status \in {"none", "ready"}
    \/ j.status = "processing" /\ ~j.abandoned

\* Jobs processRoom does not take.
Refused(j) ==
    \/ j.status \in {"none", "ready"}
    \/ j.attempts >= MaxAttempts
    \/ j.status = "processing" /\ ~j.abandoned

Load(p) ==
    /\ stage[p] = "load"
    /\ ~Refused(job[RoomOf(p)])
    /\ stage' = [stage EXCEPT ![p] = "claim"]
    /\ saw' = [saw EXCEPT ![p] = [status |-> job[RoomOf(p)].status,
                                  attempts |-> job[RoomOf(p)].attempts]]
    /\ UNCHANGED <<rows, outdated, host, bounds>>

LoadReturns(p) ==
    /\ stage[p] = "load"
    /\ \/ Refused(job[RoomOf(p)]) /\ UNCHANGED losses
       \/ Loss
    /\ Leave(p)
    /\ UNCHANGED <<rows, host, retries>>

\* Defect variant: the claim compares the status only.
UnchangedStatus(p) == job[RoomOf(p)].status = saw[p].status

\* The row is still as p read it.
Unchanged(p) ==
    /\ job[RoomOf(p)].status = saw[p].status
    /\ job[RoomOf(p)].attempts = saw[p].attempts

WriteClaim(p) ==
    Put(RoomOf(p), [status |-> "processing", attempts |-> saw[p].attempts + 1,
                    due |-> FALSE, abandoned |-> FALSE])

Claim(p) ==
    /\ stage[p] = "claim"
    /\ Unchanged(p)
    /\ WriteClaim(p)
    /\ stage' = [stage EXCEPT ![p] = "work"]
    /\ saw' = [saw EXCEPT ![p] = [status |-> "processing",
                                  attempts |-> saw[p].attempts + 1]]
    /\ UNCHANGED <<recorded, outdated, host, bounds>>

ClaimLost(p) ==
    /\ stage[p] = "claim"
    /\ ~Unchanged(p)
    /\ Leave(p)
    /\ UNCHANGED <<rows, host, bounds>>

\* The claim is written but the answer is an error: nobody works on the job.
ClaimUnheard(p) ==
    /\ stage[p] = "claim"
    /\ Loss
    /\ Unchanged(p)
    /\ WriteClaim(p)
    /\ Leave(p)
    /\ UNCHANGED <<recorded, host, retries>>

\* markReady and markFailed compare status and attempt.
StillMine(p) ==
    /\ job[RoomOf(p)].status = "processing"
    /\ job[RoomOf(p)].attempts = saw[p].attempts

\* Stores the summary; a failed markReady ends in markFailed.
MarkReady(p) ==
    /\ stage[p] = "work"
    /\ IF StillMine(p)
       THEN Put(RoomOf(p), [job[RoomOf(p)] EXCEPT !.status = "ready",
                                                  !.due = FALSE])
       ELSE UNCHANGED <<job, older>>
    /\ Leave(p)
    /\ UNCHANGED <<recorded, host, bounds>>

\* Transcription or summary failed: next try after a delay, or never.
MarkFailed(p) ==
    /\ stage[p] = "work"
    /\ IF StillMine(p)
       THEN Put(RoomOf(p), [job[RoomOf(p)] EXCEPT !.status = "failed",
                                                  !.due = FALSE])
       ELSE UNCHANGED <<job, older>>
    /\ Leave(p)
    /\ UNCHANGED <<recorded, host, bounds>>

\* The result cannot be stored; its error is ignored.
MarkLost(p) ==
    /\ stage[p] = "work"
    /\ Loss
    /\ Leave(p)
    /\ UNCHANGED <<rows, host, retries>>

\* A replica stops and is started again.
Stop(r) ==
    /\ \E m \in Room : stage[<<r, m>>] # "idle"
    /\ Loss
    /\ stage' = [p \in Proc |-> IF p[1] = r THEN "idle" ELSE stage[p]]
    /\ saw' = [p \in Proc |->
          IF p[1] = r THEN [status |-> "none", attempts |-> 0] ELSE saw[p]]
    /\ outdated' = {p \in outdated : p[1] # r}
    /\ UNCHANGED <<rows, host, retries>>

WorkerStep(p) ==
    \/ Load(p) \/ LoadReturns(p)
    \/ Claim(p) \/ ClaimLost(p) \/ ClaimUnheard(p)
    \/ MarkReady(p) \/ MarkFailed(p) \/ MarkLost(p)

-----------------------------------------------------------------------------
(***************************************************************************)
(* The cron tick: recovery, then a batch of the waiting jobs               *)
(***************************************************************************)

Abandoned == {m \in Room : job[m].status = "processing" /\ job[m].abandoned}

\* Its error is not looked at, so a tick may come to its batch without it.
Recover ==
    /\ Abandoned # {}
    /\ job' = [m \in Room |->
          IF m \in Abandoned
          THEN [job[m] EXCEPT !.status = "failed", !.due = TRUE,
                              !.abandoned = FALSE]
          ELSE job[m]]
    /\ Requeue(Abandoned)
    /\ UNCHANGED <<recorded, workers, host, bounds>>

\* The oldest rows that are not ready: also those that are not due, and those
\* that have no attempt left.
Batch ==
    LET waiting == {m \in Room : job[m].status \in {"pending", "failed"}}
    IN  {m \in waiting :
            Cardinality({n \in waiting : <<n, m>> \in older}) < QueueBatch}

\* Defect variant: a job that failed is not tried again.
DueOnce(m) == job[m].due /\ job[m].attempts = 0

Due(m) == job[m].due /\ job[m].attempts < MaxAttempts

Poll(r) ==
    /\ \E m \in Batch : Due(m) /\ stage[<<r, m>>] = "idle"
    /\ Start({<<r, m>> : m \in {n \in Batch : Due(n)}})
    /\ UNCHANGED <<rows, saw, outdated, host, bounds>>

\* The retry delay passes; null, in the last failure, never does.
Lapse(m) ==
    /\ job[m].status = "failed"
    /\ job[m].attempts < MaxAttempts
    /\ ~job[m].due
    /\ job' = [job EXCEPT ![m].due = TRUE]
    /\ UNCHANGED <<older, recorded, workers, host, bounds>>

\* PROCESSING_STALE_MS passes, whether or not anybody works on the job.
Abandon(m) ==
    /\ job[m].status = "processing"
    /\ ~job[m].abandoned
    /\ job' = [job EXCEPT ![m].abandoned = TRUE]
    /\ UNCHANGED <<older, recorded, workers, host, bounds>>

-----------------------------------------------------------------------------
(***************************************************************************)
(* The host                                                                *)
(***************************************************************************)

\* finalizeRoom has loaded the job; what it does next depends on what it saw.
Finalize(m) ==
    /\ host[m] = "idle"
    /\ \/ /\ job[m].status = "none"
          /\ host' = [host EXCEPT ![m] = "insert"]
          /\ UNCHANGED stage
       \/ /\ job[m].status \notin {"none", "ready"}
          /\ ~recorded[m]
          /\ host' = [host EXCEPT ![m] = "requeue"]
          /\ UNCHANGED stage
       \/ /\ job[m].status \notin {"none", "ready"}
          /\ Schedule(m)
          /\ UNCHANGED host
    /\ UNCHANGED <<rows, saw, outdated, bounds>>

\* The unique index on room_id refuses a second row.  Where the answer is lost
\* the request fails and the job waits for the queue.
FinalizeInsert(m) ==
    /\ host[m] = "insert"
    /\ host' = [host EXCEPT ![m] = "idle"]
    /\ IF job[m].status = "none"
       THEN /\ Put(m, Pending(0))
            /\ \E known \in BOOLEAN :
                  recorded' = [recorded EXCEPT ![m] = known]
            /\ \/ Schedule(m) /\ UNCHANGED losses
               \/ Loss /\ UNCHANGED stage
       ELSE UNCHANGED <<rows, stage, losses>>
    /\ UNCHANGED <<saw, outdated, retries>>

\* A recording has turned up: the job is made pending, without a look at it.
FinalizeRequeue(m) ==
    /\ host[m] = "requeue"
    /\ host' = [host EXCEPT ![m] = "idle"]
    /\ Put(m, Pending(job[m].attempts))
    /\ recorded' = [recorded EXCEPT ![m] = TRUE]
    /\ Schedule(m)
    /\ UNCHANGED <<saw, outdated, bounds>>

\* retrySummary: its update compares status and attempts, so it is one step.
Retry(m) ==
    /\ job[m].status = "failed"
    /\ retries < RetryBound
    /\ retries' = retries + 1
    /\ Put(m, Pending(0))
    /\ Schedule(m)
    /\ outdated' = outdated \cup
          {p \in Proc : RoomOf(p) = m /\ stage[p] = "work"}
    /\ UNCHANGED <<recorded, saw, host, losses>>

\* The older POST audio-rooms/archive makes its own summary and upserts it.
ArchiveRoom(m) ==
    /\ Put(m, [job[m] EXCEPT !.status = "ready", !.due = FALSE,
                             !.abandoned = FALSE])
    /\ \E known \in BOOLEAN : recorded' = [recorded EXCEPT ![m] = known]
    /\ UNCHANGED <<workers, host, bounds>>

HostStep(m) ==
    \/ Finalize(m) \/ FinalizeInsert(m) \/ FinalizeRequeue(m)
    \/ Retry(m) \/ ArchiveRoom(m)

-----------------------------------------------------------------------------
SummaryNext ==
    \/ \E p \in Proc : WorkerStep(p)
    \/ \E r \in Replica : Poll(r) \/ Stop(r)
    \/ Recover
    \/ \E m \in Room : Lapse(m) \/ Abandon(m) \/ HostStep(m)

SummarySpec == SummaryInit /\ [][SummaryNext]_summaryVars

\* Workers finish, the cron ticks come, time passes.  Nothing is assumed of
\* hosts except that a request that was begun ends.
SummaryFairness ==
    /\ \A p \in Proc : WF_summaryVars(WorkerStep(p))
    /\ \A r \in Replica : WF_summaryVars(Poll(r))
    /\ WF_summaryVars(Recover)
    /\ \A m \in Room :
          /\ WF_summaryVars(Lapse(m))
          /\ WF_summaryVars(Abandon(m))
          /\ WF_summaryVars(FinalizeInsert(m) \/ FinalizeRequeue(m))

-----------------------------------------------------------------------------
(***************************************************************************)
(* Properties                                                              *)
(***************************************************************************)

\* Types; nobody exceeds the attempts, and updated_at orders all rows and no
\* room without one.
SummaryTypeOK ==
    /\ job \in [Room -> Job]
    /\ older \in Orders(Listed)
    /\ recorded \in [Room -> BOOLEAN]
    /\ stage \in [Proc -> {"idle", "load", "claim", "work"}]
    /\ saw \in [Proc -> [status : Status, attempts : 0..MaxAttempts]]
    /\ host \in [Room -> {"idle", "insert", "requeue"}]
    /\ outdated \subseteq Proc
    /\ retries \in 0..RetryBound
    /\ losses \in 0..LossBound

\* "Optimistic database claims prevent separate application instances from
\* processing the same attempt concurrently" (audio-room-session-summaries.md)
\* holds for a slow worker, an abandoned job, a requeued one and a lost claim;
\* a host's retry, which sets the number back, is the only exception.  So no
\* late result replaces the one of a later attempt.
OneWorkerPerAttempt ==
    \A p, q \in Proc :
        /\ p # q
        /\ RoomOf(p) = RoomOf(q)
        /\ stage[p] = "work" /\ stage[q] = "work"
        /\ saw[p].attempts = saw[q].attempts
        => p \in outdated \/ q \in outdated

\* No attempt is left and nothing but the host can change that.
Dead(m) ==
    /\ job[m].status \in {"pending", "failed"}
    /\ job[m].attempts = MaxAttempts

\* Rows with no attempt left stay at the head of the queue and fill the batch.
QueueBlocked == Cardinality({m \in Room : Dead(m)}) >= QueueBatch

\* Every job ends in a summary or in its last failure, whatever replicas crash
\* and however slow workers are, as long as dead jobs do not fill the batch.
JobsSettle ==
    \A m \in Room :
        job[m].status # "none" ~>
            (job[m].status = "ready" \/ Dead(m) \/ QueueBlocked)

=============================================================================
