----------------------------- MODULE BatchLane -----------------------------
(***************************************************************************)
(* The batching lever: a job is staged, its input uploaded to object       *)
(* storage, submitted to the provider's batch API, polled, and finalized:  *)
(* the output is staged, one ledger row per model is written and the job   *)
(* is marked finalized.  Staged content is purged at its TTL.              *)
(*                                                                         *)
(* A session is an HTTP handler or one tick of a scheduler's batch job.    *)
(* It works on a copy of the row and writes back the columns it changed;   *)
(* a commit makes it read the row again.  Steps end at an await or a       *)
(* commit.  Pollers of several instances share a Postgres advisory lock.   *)
(***************************************************************************)
EXTENDS Naturals, FiniteSets

CONSTANTS
  Jobs,       \* batch jobs of one project
  Models,     \* models that answered in a job's output file
  Batches,    \* batches the provider can create
  Clients,    \* HTTP sessions: POST /batches, GET /batches/{id}, POST /batches/sync
  Pollers,    \* app instances with a scheduler
  NoJob, NoBatch,
  MaxFaults   \* bound on failed calls and crashes

ASSUME BatchAssumption ==
  /\ NoJob \notin Jobs
  /\ NoBatch \notin Batches
  /\ Clients \cap Pollers = {}
  /\ MaxFaults \in Nat

Sessions == Clients \cup Pollers
Objects == {"input", "output"}

\* "expired" stands for "cancelled" too: both are handled alike.
Statuses == {"absent", "created", "submitted", "in_progress", "completed", "finalized",
             "failed", "expired"}
\* Mutant: a completed job counts as done.
ActiveUntilCompleted == {"submitted", "in_progress"}
\* Non-terminal states the poller still syncs.
ActiveStatuses == {"submitted", "in_progress", "completed"}
\* "other" is a provider status the code does not know.
ProviderStatuses == {"none", "other", "in_progress", "completed", "failed", "expired"}
\* Mutant: an unknown provider status is stored as it is.
StatusMapVerbatim(provider, default) == provider
StatusMap(provider, default) == IF provider = "other" THEN default ELSE provider

VARIABLES
  row,      \* row[j]: the batch_jobs row
  store,    \* store[j]: the staged objects that exist
  elapsed,  \* elapsed[j]: expires_at has passed
  prov,     \* prov[b]: the provider's batch
  ledger,   \* ledger[j][m]: usage_events rows written for the job's model m
  sess,     \* sess[w]: the local state of a session
  lock,     \* the advisory lock of the batch-poll job is held
  faults    \* failed calls and crashes so far

vars == <<row, store, elapsed, prov, ledger, sess, lock, faults>>

\* output: provider_output_file_id is known.  staged: output_storage_key is set.
\* purged: objects_purged_at is set.
Row == [st : Statuses, batch : Batches \cup {NoBatch}, output : BOOLEAN,
        staged : BOOLEAN, purged : BOOLEAN]
Copy == [st : Statuses, batch : Batches \cup {NoBatch}, output : BOOLEAN]
Session == [pc : {"idle", "upload", "created", "sweep", "poll", "answered", "committed",
                  "download", "record", "purge"},
            job : Jobs \cup {NoJob}, copy : Copy, batch : Batches \cup {NoBatch},
            answer : ProviderStatuses, found : BOOLEAN, left : SUBSET Models,
            todo : SUBSET Jobs, seen : [Jobs -> Copy], locked : BOOLEAN,
            due : SUBSET Jobs, doomed : SUBSET (Jobs \X Objects)]

NoRow == [st |-> "absent", batch |-> NoBatch, output |-> FALSE, staged |-> FALSE,
          purged |-> FALSE]
NoCopy == [st |-> "absent", batch |-> NoBatch, output |-> FALSE]
Unread == [j \in Jobs |-> NoCopy]
Idle == [pc |-> "idle", job |-> NoJob, copy |-> NoCopy, batch |-> NoBatch, answer |-> "none",
         found |-> FALSE, left |-> {}, todo |-> {}, seen |-> Unread, locked |-> FALSE,
        due |-> {}, doomed |-> {}]

Init ==
  /\ row = [j \in Jobs |-> NoRow]
  /\ store = [j \in Jobs |-> {}]
  /\ elapsed = [j \in Jobs |-> FALSE]
  /\ prov = [b \in Batches |-> [st |-> "none", output |-> FALSE]]
  /\ ledger = [j \in Jobs |-> [m \in Models |-> 0]]
  /\ sess = [w \in Sessions |-> Idle]
  /\ lock = FALSE
  /\ faults = 0

Loaded(j) == [st |-> row[j].st, batch |-> row[j].batch, output |-> row[j].output]

-----------------------------------------------------------------------------
(* Staging and submitting *)

StageInput(j) ==
  /\ row[j].st = "absent"
  /\ row' = [row EXCEPT ![j].st = "created"]
  /\ UNCHANGED <<store, elapsed, prov, ledger, sess, lock, faults>>

\* External: the client uses the pre-signed URL, which ends before the TTL.
UploadInput(j) ==
  /\ row[j].st # "absent" /\ ~elapsed[j] /\ "input" \notin store[j]
  /\ store' = [store EXCEPT ![j] = @ \cup {"input"}]
  /\ UNCHANGED <<row, elapsed, prov, ledger, sess, lock, faults>>

\* POST /batches: 409 unless the job is still "created" and its input is there.
SubmitStart(w, j) ==
  /\ sess[w].pc = "idle"
  /\ row[j].st = "created"
  /\ "input" \in store[j]
  /\ sess' = [sess EXCEPT ![w] = [Idle EXCEPT !.pc = "upload", !.job = j]]
  /\ UNCHANGED <<row, store, elapsed, prov, ledger, lock, faults>>

\* External: the provider creates a batch over the uploaded file.
ProviderCreates(w, b) ==
  /\ sess[w].pc = "upload"
  /\ prov[b].st = "none"
  /\ \E s \in {"other", "in_progress"} :
       /\ prov' = [prov EXCEPT ![b].st = s]
       /\ sess' = [sess EXCEPT ![w] = [@ EXCEPT !.pc = "created", !.batch = b, !.answer = s]]
  /\ UNCHANGED <<row, store, elapsed, ledger, lock, faults>>

\* The row is written without a second look at its status.
SubmitCommit(w) ==
  LET s == sess[w]
  IN /\ s.pc = "created"
     /\ row' = [row EXCEPT ![s.job] = [@ EXCEPT !.batch = s.batch,
                                                !.st = StatusMap(s.answer, "submitted")]]
     /\ sess' = [sess EXCEPT ![w] = Idle]
     /\ UNCHANGED <<store, elapsed, prov, ledger, lock, faults>>

-----------------------------------------------------------------------------
(* Polling *)

\* A finalized or failed job, or one that was never submitted, is left alone.
Syncable(c) == c.st \notin {"finalized", "failed"} /\ c.batch # NoBatch

StartSync(w, j, c) ==
  sess' = [sess EXCEPT ![w] = [@ EXCEPT !.pc = "poll", !.job = j, !.copy = c]]

ClientSync(w, j) ==
  /\ sess[w].pc = "idle"
  /\ Syncable(Loaded(j))
  /\ StartSync(w, j, Loaded(j))
  /\ UNCHANGED <<row, store, elapsed, prov, ledger, lock, faults>>

\* Mutant: the lock is not looked at.
AcquireAnyway(p, infra) == lock' = TRUE

\* pg_try_advisory_lock; without the lock's infrastructure the job runs anyway.
Acquire(p, infra) == IF infra THEN ~lock /\ lock' = TRUE ELSE UNCHANGED lock

\* A tick of the scheduler's batch job on instance p selects the active jobs.
PollTick(p, infra) ==
  /\ sess[p].pc = "idle"
  /\ infra \/ faults < MaxFaults
  /\ Acquire(p, infra)
  /\ LET active == {j \in Jobs : row[j].st \in ActiveStatuses}
     IN sess' = [sess EXCEPT ![p] = [Idle EXCEPT !.pc = "sweep", !.locked = infra,
                   !.todo = active,
                   !.seen = [j \in Jobs |-> IF j \in active THEN Loaded(j) ELSE NoCopy]]]
  /\ faults' = IF infra THEN faults ELSE faults + 1
  /\ UNCHANGED <<row, store, elapsed, prov, ledger>>

\* The next job of the sweep: as selected, or read again after a commit.
SweepNext(p, j) ==
  LET s == sess[p]
      c == IF s.seen[j] # NoCopy THEN s.seen[j] ELSE Loaded(j)
      rest == [s EXCEPT !.todo = @ \ {j}, !.seen = [@ EXCEPT ![j] = NoCopy]]
  IN /\ s.pc = "sweep"
     /\ j \in s.todo
     /\ sess' = [sess EXCEPT ![p] =
          IF Syncable(c) THEN [rest EXCEPT !.pc = "poll", !.job = j, !.copy = c] ELSE rest]
     /\ UNCHANGED <<row, store, elapsed, prov, ledger, lock, faults>>

\* Mutant: the purge forgets to compare expires_at with the clock.
DueAnyTime == {j \in Jobs : ~row[j].purged /\ row[j].st # "absent"}

\* The jobs past their TTL that no purge has marked.
Due == {j \in Jobs : elapsed[j] /\ ~row[j].purged /\ row[j].st # "absent"}

\* The end of the sweep: the jobs to purge are selected, with the keys of their
\* objects; an output whose key is not set yet is not among them.
SweepDone(p) ==
  /\ sess[p].pc = "sweep"
  /\ sess[p].todo = {}
  /\ sess' = [sess EXCEPT ![p] = [@ EXCEPT !.pc = "purge", !.due = Due,
                !.doomed = {d \in Due \X Objects : d[2] = "output" => row[d[1]].staged}]]
  /\ UNCHANGED <<row, store, elapsed, prov, ledger, lock, faults>>

\* Where a session goes when its work on one job ends, well or badly.
JobDone(w) ==
  IF w \in Pollers
  THEN [sess[w] EXCEPT !.pc = "sweep", !.job = NoJob, !.copy = NoCopy, !.answer = "none",
                       !.found = FALSE, !.left = {}]
  ELSE Idle

\* get_batch is answered; the answer may take its time to be applied.
PollAnswer(w) ==
  LET s == sess[w]
  IN /\ s.pc = "poll"
     /\ sess' = [sess EXCEPT ![w] = [@ EXCEPT !.pc = "answered",
                   !.answer = prov[s.copy.batch].st, !.found = prov[s.copy.batch].output]]
     /\ UNCHANGED <<row, store, elapsed, prov, ledger, lock, faults>>

\* The commit writes the columns that differ from the copy and expires every
\* copy the session holds.
SyncCommit(w) ==
  LET s == sess[w]
      c == s.copy
      r == row[s.job]
      next == StatusMap(s.answer, c.st)
      output == s.found \/ c.output
  IN /\ s.pc = "answered"
     /\ row' = [row EXCEPT ![s.job] =
          [r EXCEPT !.st = IF next # c.st THEN next ELSE r.st,
                    !.output = IF output # c.output THEN output ELSE r.output]]
     /\ sess' = [sess EXCEPT ![w] = [@ EXCEPT !.pc = "committed", !.copy = NoCopy,
                                       !.answer = "none", !.found = FALSE, !.seen = Unread]]
     /\ UNCHANGED <<store, elapsed, prov, ledger, lock, faults>>

\* The row is read again: completed with an output file means finalize.
AfterCommit(w) ==
  LET j == sess[w].job
  IN /\ sess[w].pc = "committed"
     /\ sess' = [sess EXCEPT ![w] = IF row[j].st = "completed" /\ row[j].output
                                    THEN [@ EXCEPT !.pc = "download"] ELSE JobDone(w)]
     /\ UNCHANGED <<row, store, elapsed, prov, ledger, lock, faults>>

-----------------------------------------------------------------------------
(* Finalizing *)

\* The output file is downloaded and staged.
StageOutput(w) ==
  /\ sess[w].pc = "download"
  /\ store' = [store EXCEPT ![sess[w].job] = @ \cup {"output"}]
  /\ sess' = [sess EXCEPT ![w] = [@ EXCEPT !.pc = "record", !.left = Models]]
  /\ UNCHANGED <<row, elapsed, prov, ledger, lock, faults>>

\* record_batch_usage commits each model's row on its own, and with the first
\* one the output key.
RecordModel(w, m) ==
  LET j == sess[w].job
  IN /\ sess[w].pc = "record"
     /\ m \in sess[w].left
     /\ ledger' = [ledger EXCEPT ![j][m] = @ + 1]
     /\ row' = [row EXCEPT ![j].staged = TRUE]
     /\ sess' = [sess EXCEPT ![w].left = @ \ {m}]
     /\ UNCHANGED <<store, elapsed, prov, lock, faults>>

\* Mutant: the job is marked finalized before its usage is recorded.
FinalizeEarly(w) ==
  /\ sess[w].pc = "record"
  /\ row' = [row EXCEPT ![sess[w].job] = [@ EXCEPT !.st = "finalized", !.staged = TRUE]]
  /\ sess' = [sess EXCEPT ![w] = JobDone(w)]
  /\ UNCHANGED <<store, elapsed, prov, ledger, lock, faults>>

FinalizeCommit(w) ==
  /\ sess[w].pc = "record"
  /\ sess[w].left = {}
  /\ row' = [row EXCEPT ![sess[w].job] = [@ EXCEPT !.st = "finalized", !.staged = TRUE]]
  /\ sess' = [sess EXCEPT ![w] = JobDone(w)]
  /\ UNCHANGED <<store, elapsed, prov, ledger, lock, faults>>

-----------------------------------------------------------------------------
(* Purging *)

\* One object goes, a job's input before its output.  A delete that fails is
\* logged and not tried again.
PurgeDelete(p, j, o, deleted) ==
  /\ sess[p].pc = "purge"
  /\ <<j, o>> \in sess[p].doomed
  /\ o = "output" => <<j, "input">> \notin sess[p].doomed
  /\ deleted \/ faults < MaxFaults
  /\ store' = IF deleted THEN [store EXCEPT ![j] = @ \ {o}] ELSE store
  /\ sess' = [sess EXCEPT ![p].doomed = @ \ {<<j, o>>}]
  /\ faults' = IF deleted THEN faults ELSE faults + 1
  /\ UNCHANGED <<row, elapsed, prov, ledger, lock>>

\* One commit marks all of them, and the tick is over.
PurgeCommit(p) ==
  /\ sess[p].pc = "purge"
  /\ sess[p].doomed = {}
  /\ row' = [j \in Jobs |->
       IF j \in sess[p].due THEN [row[j] EXCEPT !.purged = TRUE] ELSE row[j]]
  /\ lock' = (lock /\ ~sess[p].locked)
  /\ sess' = [sess EXCEPT ![p] = Idle]
  /\ UNCHANGED <<store, elapsed, prov, ledger, faults>>

-----------------------------------------------------------------------------
(* Faults and the environment *)

\* A call raises (its reply may be what was lost), or the output is malformed:
\* an HTTP handler fails, a sweep goes on with the next job.
CallFails(w) ==
  /\ \/ sess[w].pc \in {"upload", "created", "poll", "download"}
     \/ sess[w].pc = "record" /\ sess[w].left = Models
  /\ faults < MaxFaults
  /\ sess' = [sess EXCEPT ![w] = JobDone(w)]
  /\ faults' = faults + 1
  /\ UNCHANGED <<row, store, elapsed, prov, ledger, lock>>

\* The process dies and its connection drops the lock; or a commit fails, which
\* leaves the database session unusable: the handler's own log line raises and
\* ends the tick before its purge, and the lock is released.
Crash(w) ==
  /\ sess[w].pc # "idle"
  /\ faults < MaxFaults
  /\ sess' = [sess EXCEPT ![w] = Idle]
  /\ lock' = (lock /\ ~sess[w].locked)
  /\ faults' = faults + 1
  /\ UNCHANGED <<row, store, elapsed, prov, ledger>>

\* External: the provider's batch moves on.  A completed one may have no
\* output file, an expired one may have a partial output.
ProviderMoves(b) ==
  /\ \/ /\ prov[b].st = "other"
        /\ prov' = [prov EXCEPT ![b].st = "in_progress"]
     \/ /\ prov[b].st = "in_progress"
        /\ \E s \in {"completed", "failed", "expired"}, output \in BOOLEAN :
             /\ s = "failed" => ~output
             /\ prov' = [prov EXCEPT ![b] = [st |-> s, output |-> output]]
  /\ UNCHANGED <<row, store, elapsed, ledger, sess, lock, faults>>

TimeToLiveElapses(j) ==
  /\ row[j].st # "absent" /\ ~elapsed[j]
  /\ elapsed' = [elapsed EXCEPT ![j] = TRUE]
  /\ UNCHANGED <<row, store, prov, ledger, sess, lock, faults>>

-----------------------------------------------------------------------------
SyncStep(w) ==
  \/ PollAnswer(w) \/ SyncCommit(w) \/ AfterCommit(w) \/ StageOutput(w)
  \/ \E m \in Models : RecordModel(w, m)
  \/ FinalizeCommit(w)

PollerStep(p) ==
  \/ \E infra \in BOOLEAN : PollTick(p, infra)
  \/ \E j \in Jobs : SweepNext(p, j)
  \/ SweepDone(p)
  \/ \E j \in Jobs, o \in Objects, deleted \in BOOLEAN : PurgeDelete(p, j, o, deleted)
  \/ PurgeCommit(p)
  \/ SyncStep(p)

ClientStep(w) ==
  \/ \E j \in Jobs : SubmitStart(w, j) \/ ClientSync(w, j)
  \/ \E b \in Batches : ProviderCreates(w, b)
  \/ SubmitCommit(w)
  \/ SyncStep(w)

Next ==
  \/ \E j \in Jobs : StageInput(j) \/ UploadInput(j) \/ TimeToLiveElapses(j)
  \/ \E w \in Clients : ClientStep(w)
  \/ \E p \in Pollers : PollerStep(p)
  \/ \E w \in Sessions : CallFails(w) \/ Crash(w)
  \/ \E b \in Batches : ProviderMoves(b)

Spec == Init /\ [][Next]_vars

\* The scheduler's loops keep ticking; clients owe nothing.
FairSpec == Spec /\ \A p \in Pollers : WF_vars(PollerStep(p))

-----------------------------------------------------------------------------
\* Every row, object, batch, ledger count and session keeps its shape, and at
\* most MaxFaults faults happened.
TypeOK ==
  /\ row \in [Jobs -> Row]
  /\ store \in [Jobs -> SUBSET Objects]
  /\ elapsed \in [Jobs -> BOOLEAN]
  /\ prov \in [Batches -> [st : ProviderStatuses, output : BOOLEAN]]
  /\ ledger \in [Jobs -> [Models -> Nat]]
  /\ sess \in [Sessions -> Session]
  /\ lock \in BOOLEAN
  /\ faults \in 0..MaxFaults

\* A job the client is told is finalized has every model of its output in the
\* ledger and a key for its output, whatever crashed or raced on the way.
FinalizedIsMetered ==
  \A j \in Jobs : row[j].st = "finalized" =>
    row[j].staged /\ \A m \in Models : ledger[j][m] >= 1

\* The output that GET /batches/{id}/output hands out a URL for is in storage
\* until the job's TTL, whatever is purged around it.
OutputIsKept ==
  \A j \in Jobs : (row[j].st = "finalized" /\ ~elapsed[j]) => "output" \in store[j]

\* Two sweeps run at once only when one of them could not use the lock: the
\* lock is free exactly when no running sweep holds it, after a crash too.
SweepsExclude ==
  /\ Cardinality({p \in Pollers : sess[p].locked}) <= 1
  /\ lock <=> \E p \in Pollers : sess[p].locked

\* Every job whose batch has completed with an output file is finalized in
\* the end, however often a sync fails, dies or overwrites a newer status.
CompletedIsFinalized ==
  \A j \in Jobs, b \in Batches :
    (row[j].batch = b /\ prov[b].st = "completed" /\ prov[b].output)
      ~> (row[j].st = "finalized" \/ row[j].batch # b)

-----------------------------------------------------------------------------
(* What the repository says and the code does not do *)

\* proxy/batch.py on sync_job: "Idempotent: a finalized job is returned
\* untouched", so nothing more is metered for it and its status stays.
FinalizedIsUntouched ==
  [][\A j \in Jobs : row[j].st = "finalized" =>
       row'[j].st = "finalized" /\ ledger'[j] = ledger[j]]_vars
=============================================================================
