-------------------------- MODULE BatchLane_proofs --------------------------
(***************************************************************************)
(* Safety of the batch lane for any jobs, models, batches, clients and     *)
(* pollers, and any number of failed calls and crashes.                    *)
(*                                                                         *)
(* Sessions work on copies and write without a second look, so the         *)
(* invariant follows each session through its steps (SlotSafe): the batch  *)
(* of a copy exists at the provider, a session that records usage has in   *)
(* the ledger what it has crossed off, the output it staged is there until *)
(* the job's TTL, and a purge deletes nothing that is younger.  What these *)
(* promises rest on only grows (Grows), so the steps of other sessions     *)
(* cannot break them.                                                      *)
(***************************************************************************)
EXTENDS BatchLane, FiniteSetTheorems, TLAPS

Known(b) == b # NoBatch => prov[b].st # "none"

\* Where a session has a job in hand.
AtWork == {"upload", "created", "poll", "answered", "committed", "download", "record"}

SlotSafe(x) ==
  /\ x.pc \in AtWork => x.job \in Jobs
  /\ x.pc = "idle" => ~x.locked
  /\ x.pc = "created" => x.batch # NoBatch /\ Known(x.batch) /\ x.answer \in {"other", "in_progress"}
  /\ Known(x.copy.batch) /\ \A j \in Jobs : Known(x.seen[j].batch)
  /\ x.pc = "poll" => x.copy.batch # NoBatch
  /\ x.pc = "answered" => x.answer # "none"
  /\ \A j \in Jobs, o \in Objects : <<j, o>> \in x.doomed => elapsed[j]
  /\ x.pc = "record" => /\ "output" \in store[x.job] \/ elapsed[x.job]
                        /\ \A m \in Models \ x.left : ledger[x.job][m] >= 1

RowsSafe ==
  /\ \A j \in Jobs : Known(row[j].batch)
  /\ FinalizedIsMetered
  /\ OutputIsKept

\* At most one poller holds the lock, and no client does.
LockSafe ==
  /\ \A w \in Clients : ~sess[w].locked
  /\ \A p, q \in Pollers : sess[p].locked /\ sess[q].locked => p = q
  /\ lock <=> \E p \in Pollers : sess[p].locked

BatchInv == TypeOK /\ (\A w \in Sessions : SlotSafe(sess[w])) /\ RowsSafe /\ LockSafe

\* What no step takes back: a batch the provider has created, a ledger row, the
\* end of a TTL, and an output before that end.
Grows ==
  /\ \A b \in Batches : prov[b].st # "none" => prov'[b].st # "none"
  /\ \A j \in Jobs, m \in Models : ledger[j][m] >= 1 => ledger'[j][m] >= 1
  /\ \A j \in Jobs : elapsed[j] => elapsed'[j]
  /\ \A j \in Jobs : "output" \in store[j] => "output" \in store'[j] \/ elapsed'[j]

-----------------------------------------------------------------------------

\* A step that leaves one session safe leaves all of them so.
LEMMA SlotUpdate ==
  ASSUME BatchInv, Grows, NEW w \in Sessions,
         \A u \in Sessions \ {w} : sess'[u] = sess[u], SlotSafe(sess[w])'
  PROVE  \A u \in Sessions : SlotSafe(sess[u])'
<1> SUFFICES ASSUME NEW u \in Sessions, u # w PROVE SlotSafe(sess[u])'
  OBVIOUS
<1>1. sess'[u] = sess[u] /\ sess[u] \in Session /\ SlotSafe(sess[u])
  BY DEF BatchInv, TypeOK
<1>2. \A b \in Batches \cup {NoBatch} : Known(b) => Known(b)'
  BY DEF Known, Grows
<1> QED BY <1>1, <1>2 DEF SlotSafe, Session, Copy, Grows, AtWork

\* So does a step that moves no session.
LEMMA SlotsKept ==
  ASSUME BatchInv, Grows, sess' = sess
  PROVE  \A u \in Sessions : SlotSafe(sess[u])'
<1> SUFFICES ASSUME NEW u \in Sessions PROVE SlotSafe(sess[u])'
  OBVIOUS
<1>1. sess'[u] = sess[u] /\ sess[u] \in Session /\ SlotSafe(sess[u])
  BY DEF BatchInv, TypeOK
<1>2. \A b \in Batches \cup {NoBatch} : Known(b) => Known(b)'
  BY DEF Known, Grows
<1> QED BY <1>1, <1>2 DEF SlotSafe, Session, Copy, Grows, AtWork

\* Rows, objects and ledger as they were, and no batch forgotten.
LEMMA RowsKept ==
  ASSUME BatchInv, row' = row, store' = store, ledger' = ledger, prov' = prov,
         \A j \in Jobs : elapsed[j] => elapsed'[j]
  PROVE  Grows /\ RowsSafe'
  BY DEF BatchInv, RowsSafe, Known, FinalizedIsMetered, OutputIsKept, Grows

\* A session that keeps its lock, or its lack of one, leaves the lock alone.
LEMMA LockKept ==
  ASSUME BatchInv, lock' = lock, \A u \in Sessions : sess'[u].locked <=> sess[u].locked
  PROVE  LockSafe'
  BY DEF BatchInv, LockSafe, Sessions

\* A step of session w that writes only its own state, and counts a fault perhaps.
LEMMA SessionStep ==
  ASSUME BatchInv, NEW w \in Sessions, NEW x \in Session, SlotSafe(x),
         sess' = [sess EXCEPT ![w] = x], x.locked <=> sess[w].locked,
         faults' \in 0..MaxFaults,
         UNCHANGED <<row, store, elapsed, prov, ledger, lock>>
  PROVE  BatchInv'
<1>1. sess'[w] = x /\ \A u \in Sessions \ {w} : sess'[u] = sess[u]
  BY DEF BatchInv, TypeOK
<1>2. TypeOK'
  BY DEF BatchInv, TypeOK
<1>3. Grows /\ RowsSafe'
  BY RowsKept
<1>4. SlotSafe(sess[w])'
  BY <1>1 DEF SlotSafe, Known
<1>5. \A u \in Sessions : sess'[u].locked <=> sess[u].locked
  BY <1>1
<1> QED BY <1>1, <1>2, <1>3, <1>4, <1>5, SlotUpdate, LockKept DEF BatchInv

\* A step of session w that also writes rows, objects, batches or the ledger and
\* takes back nothing.
LEMMA WriteStep ==
  ASSUME BatchInv, NEW w \in Sessions, NEW x \in Session, SlotSafe(sess[w])',
         sess' = [sess EXCEPT ![w] = x], x.locked <=> sess[w].locked,
         row' \in [Jobs -> Row], store' \in [Jobs -> SUBSET Objects],
         prov' \in [Batches -> [st : ProviderStatuses, output : BOOLEAN]],
         ledger' \in [Jobs -> [Models -> Nat]],
         UNCHANGED <<elapsed, lock, faults>>, Grows, RowsSafe'
  PROVE  BatchInv'
<1>1. sess'[w] = x /\ \A u \in Sessions \ {w} : sess'[u] = sess[u]
  BY DEF BatchInv, TypeOK
<1>2. TypeOK'
  BY DEF BatchInv, TypeOK
<1>3. \A u \in Sessions : sess'[u].locked <=> sess[u].locked
  BY <1>1
<1> QED BY <1>1, <1>2, <1>3, SlotUpdate, LockKept DEF BatchInv

LEMMA RowWrites ==
  ASSUME NEW r \in Row, NEW st \in Statuses, NEW b \in Batches \cup {NoBatch}, NEW o \in BOOLEAN
  PROVE  /\ [r EXCEPT !.st = st] \in Row
         /\ [r EXCEPT !.batch = b, !.st = st] \in Row
         /\ [r EXCEPT !.st = st, !.output = o] \in Row
         /\ [r EXCEPT !.st = st, !.staged = TRUE] \in Row
         /\ [r EXCEPT !.staged = TRUE] \in Row
         /\ [r EXCEPT !.purged = TRUE] \in Row
  BY DEF Row

LEMMA IdleTyped == Idle \in Session /\ Idle.pc = "idle" /\ ~Idle.locked
  BY DEF Idle, Session, NoCopy, Copy, Unread, Statuses, ProviderStatuses

LEMMA IdleSafe == SlotSafe(Idle)
  BY DEF SlotSafe, Idle, NoCopy, Unread, Known, AtWork

-----------------------------------------------------------------------------

LEMMA InitSafe == Init => BatchInv
<1> SUFFICES ASSUME Init PROVE BatchInv
  OBVIOUS
<1>1. TypeOK
  <2>1. NoRow \in Row
    BY DEF NoRow, Row, Statuses
  <2>2. [st |-> "none", output |-> FALSE] \in [st : ProviderStatuses, output : BOOLEAN]
    BY DEF ProviderStatuses
  <2>3. row \in [Jobs -> Row] /\ prov \in [Batches -> [st : ProviderStatuses, output : BOOLEAN]]
    BY <2>1, <2>2 DEF Init
  <2>4. /\ store \in [Jobs -> SUBSET Objects]
        /\ elapsed \in [Jobs -> BOOLEAN] /\ lock \in BOOLEAN
    BY DEF Init
  <2>5. /\ ledger \in [Jobs -> [Models -> Nat]] /\ faults \in 0..MaxFaults
        /\ sess \in [Sessions -> Session]
    BY IdleTyped, BatchAssumption DEF Init
  <2> QED BY <2>3, <2>4, <2>5 DEF TypeOK
<1>2. \A w \in Sessions : sess[w] = Idle
  BY DEF Init
<1>3. \A w \in Sessions : SlotSafe(sess[w])
  BY <1>2 DEF SlotSafe, Idle, NoCopy, Unread, Known, AtWork
<1>4. RowsSafe
  BY DEF Init, RowsSafe, NoRow, Known, FinalizedIsMetered, OutputIsKept
<1>5. LockSafe
  BY <1>2, IdleTyped DEF Init, LockSafe, Sessions
<1> QED BY <1>1, <1>3, <1>4, <1>5 DEF BatchInv

-----------------------------------------------------------------------------
(* Staging, submitting, the clock and the provider *)

\* A job is staged, its input arrives, its TTL elapses.
LEMMA StageSafe ==
  ASSUME BatchInv, NEW k \in Jobs, StageInput(k) \/ UploadInput(k) \/ TimeToLiveElapses(k)
  PROVE  BatchInv'
<1>1. sess' = sess /\ lock' = lock /\ prov' = prov /\ ledger' = ledger /\ faults' = faults
  BY DEF StageInput, UploadInput, TimeToLiveElapses
<1>2. ASSUME StageInput(k) PROVE TypeOK' /\ Grows /\ RowsSafe'
  <2>1. row' = [row EXCEPT ![k].st = "created"] /\ store' = store /\ elapsed' = elapsed
    BY <1>2 DEF StageInput
  <2>0. row[k] \in Row /\ [row[k] EXCEPT !.st = "created"] \in Row
    BY RowWrites DEF BatchInv, TypeOK, Statuses
  <2>2. row' \in [Jobs -> Row]
    BY <2>0, <2>1 DEF BatchInv, TypeOK
  <2>3. \A i \in Jobs : /\ row'[i].batch = row[i].batch /\ (row'[i].purged <=> row[i].purged)
                        /\ (row'[i].staged <=> row[i].staged)
                        /\ row'[i].st = "finalized" => row[i].st = "finalized"
    BY <2>1 DEF BatchInv, TypeOK, Row
  <2>4. TypeOK'
    BY <1>1, <2>1, <2>2 DEF BatchInv, TypeOK
  <2>5. Grows
    BY <1>1, <2>1, <2>3 DEF Grows
  <2>6. RowsSafe'
    BY <1>1, <2>1, <2>3 DEF BatchInv, RowsSafe, Known, FinalizedIsMetered, OutputIsKept
  <2> QED BY <2>4, <2>5, <2>6
<1>3. ASSUME UploadInput(k) PROVE TypeOK' /\ Grows /\ RowsSafe'
  <2>1. store' = [store EXCEPT ![k] = @ \cup {"input"}] /\ row' = row /\ elapsed' = elapsed
    BY <1>3 DEF UploadInput
  <2>2. store' \in [Jobs -> SUBSET Objects]
    BY <2>1 DEF BatchInv, TypeOK, Objects
  <2>3. \A i \in Jobs : "output" \in store'[i] <=> "output" \in store[i]
    BY <2>1 DEF BatchInv, TypeOK
  <2>4. TypeOK'
    BY <1>1, <2>1, <2>2 DEF BatchInv, TypeOK
  <2>5. Grows
    BY <1>1, <2>1, <2>3 DEF Grows
  <2>6. RowsSafe'
    BY <1>1, <2>1, <2>3 DEF BatchInv, RowsSafe, Known, FinalizedIsMetered, OutputIsKept
  <2> QED BY <2>4, <2>5, <2>6
<1>4. ASSUME TimeToLiveElapses(k) PROVE TypeOK' /\ Grows /\ RowsSafe'
  <2>1. elapsed' = [elapsed EXCEPT ![k] = TRUE] /\ row' = row /\ store' = store
    BY <1>4 DEF TimeToLiveElapses
  <2>2. TypeOK'
    BY <1>1, <2>1 DEF BatchInv, TypeOK
  <2>3. \A j \in Jobs : elapsed[j] => elapsed'[j]
    BY <2>1 DEF BatchInv, TypeOK
  <2> QED BY <1>1, <2>1, <2>2, <2>3, RowsKept
<1> QED BY <1>1, <1>2, <1>3, <1>4, SlotsKept, LockKept DEF BatchInv

\* The provider's batches move on and never go back to nothing.
LEMMA ProviderSafe ==
  ASSUME BatchInv, NEW b \in Batches, ProviderMoves(b)
  PROVE  BatchInv'
<1>1. UNCHANGED <<row, store, elapsed, ledger, sess, lock, faults>>
  BY DEF ProviderMoves
<1>2. PICK x \in [st : ProviderStatuses \ {"none"}, output : BOOLEAN] : prov' = [prov EXCEPT ![b] = x]
  <2>1. CASE prov' = [prov EXCEPT ![b].st = "in_progress"]
    <3>1. [prov[b] EXCEPT !.st = "in_progress"] \in [st : ProviderStatuses \ {"none"}, output : BOOLEAN]
      BY DEF BatchInv, TypeOK, ProviderStatuses
    <3> QED BY <2>1, <3>1
  <2>2. ASSUME NEW s \in {"completed", "failed", "expired"}, NEW output \in BOOLEAN,
               prov' = [prov EXCEPT ![b] = [st |-> s, output |-> output]]
        PROVE  \E x \in [st : ProviderStatuses \ {"none"}, output : BOOLEAN] : prov' = [prov EXCEPT ![b] = x]
    <3>1. [st |-> s, output |-> output] \in [st : ProviderStatuses \ {"none"}, output : BOOLEAN]
      BY DEF ProviderStatuses
    <3> QED BY <2>2, <3>1
  <2> QED BY <2>1, <2>2 DEF ProviderMoves
<1>3. /\ prov' \in [Batches -> [st : ProviderStatuses, output : BOOLEAN]]
      /\ \A c \in Batches : prov[c].st # "none" => prov'[c].st # "none"
  BY <1>2 DEF BatchInv, TypeOK
<1>4. TypeOK'
  BY <1>1, <1>3 DEF BatchInv, TypeOK
<1>5. Grows
  BY <1>1, <1>3 DEF Grows
<1>6. RowsSafe'
  BY <1>1, <1>3 DEF BatchInv, TypeOK, Row, RowsSafe, Known, FinalizedIsMetered, OutputIsKept
<1> QED BY <1>1, <1>4, <1>5, <1>6, SlotsKept, LockKept DEF BatchInv

\* A submission begins on a staged job; the provider creates its batch; the row
\* gets the batch, and a status that is never "finalized".
LEMMA SubmitSafe ==
  ASSUME BatchInv, NEW w \in Clients,
         (\E j \in Jobs : SubmitStart(w, j)) \/ (\E b \in Batches : ProviderCreates(w, b)) \/ SubmitCommit(w)
  PROVE  BatchInv'
<1>w. w \in Sessions /\ sess[w] \in Session /\ SlotSafe(sess[w]) /\ TypeOK
  BY DEF BatchInv, TypeOK, Sessions
<1>0. ~sess[w].locked
  BY DEF BatchInv, LockSafe
<1>1. ASSUME NEW j \in Jobs, SubmitStart(w, j) PROVE BatchInv'
  <2> DEFINE x == [Idle EXCEPT !.pc = "upload", !.job = j]
  <2>1. /\ sess' = [sess EXCEPT ![w] = x]
        /\ UNCHANGED <<row, store, elapsed, prov, ledger, lock, faults>>
    BY <1>1 DEF SubmitStart
  <2>2. x \in Session /\ ~x.locked
    BY IdleTyped DEF Session
  <2>3. SlotSafe(x)
    BY DEF SlotSafe, Idle, NoCopy, Unread, Known, AtWork
  <2> HIDE DEF x
  <2>4. faults' \in 0..MaxFaults
    BY <1>w, <2>1 DEF TypeOK
  <2> QED BY <1>w, <1>0, <2>1, <2>2, <2>3, <2>4, SessionStep
<1>2. ASSUME NEW b \in Batches, ProviderCreates(w, b) PROVE BatchInv'
  <2>1. PICK a \in {"other", "in_progress"} :
          /\ prov' = [prov EXCEPT ![b].st = a]
          /\ sess' = [sess EXCEPT ![w] = [@ EXCEPT !.pc = "created", !.batch = b, !.answer = a]]
    BY <1>2 DEF ProviderCreates
  <2>2. UNCHANGED <<row, store, elapsed, ledger, lock, faults>> /\ sess[w].pc = "upload"
    BY <1>2 DEF ProviderCreates
  <2> DEFINE x == [sess[w] EXCEPT !.pc = "created", !.batch = b, !.answer = a]
  <2>3. x \in Session /\ (x.locked <=> sess[w].locked)
    BY <1>w DEF Session, ProviderStatuses
  <2>4. sess' = [sess EXCEPT ![w] = x]
    BY <2>1
  <2>5. prov' \in [Batches -> [st : ProviderStatuses, output : BOOLEAN]]
    BY <1>w, <2>1 DEF TypeOK, ProviderStatuses
  <2>6. \A c \in Batches : prov[c].st # "none" => prov'[c].st # "none"
    BY <1>w, <2>1 DEF TypeOK
  <2>7. Grows
    BY <2>2, <2>6 DEF Grows
  <2>8. RowsSafe'
    BY <1>w, <2>2, <2>6 DEF BatchInv, TypeOK, Row, RowsSafe, Known, FinalizedIsMetered, OutputIsKept
  <2>9. SlotSafe(sess[w])'
    <3>1. prov'[b].st = a /\ b # NoBatch
      BY <1>w, <2>1, BatchAssumption DEF TypeOK
    <3>2. /\ x.pc = "created" /\ x.batch = b /\ x.answer = a /\ x.job = sess[w].job
          /\ x.copy = sess[w].copy /\ x.seen = sess[w].seen /\ x.doomed = sess[w].doomed
      BY <1>w DEF Session
    <3>3. \A c \in Batches \cup {NoBatch} : Known(c) => Known(c)'
      BY <2>6 DEF Known
    <3>4. sess'[w] = x
      BY <1>w, <2>4 DEF TypeOK
    <3> QED BY <1>w, <2>2, <3>4, <3>1, <3>2, <3>3 DEF SlotSafe, Session, Copy, AtWork, Known
  <2> HIDE DEF x
  <2>10. /\ row' \in [Jobs -> Row] /\ store' \in [Jobs -> SUBSET Objects]
         /\ ledger' \in [Jobs -> [Models -> Nat]]
    BY <1>w, <2>2 DEF TypeOK
  <2> QED BY <1>w, <2>2, <2>3, <2>4, <2>5, <2>7, <2>8, <2>9, <2>10, WriteStep
<1>3. ASSUME SubmitCommit(w) PROVE BatchInv'
  <2> DEFINE k == sess[w].job
             st == StatusMap(sess[w].answer, "submitted")
             r == [row[k] EXCEPT !.batch = sess[w].batch, !.st = st]
  <2>1. /\ row' = [row EXCEPT ![k] = r]
        /\ sess' = [sess EXCEPT ![w] = Idle] /\ sess[w].pc = "created"
        /\ UNCHANGED <<store, elapsed, prov, ledger, lock, faults>>
    BY <1>3 DEF SubmitCommit
  <2>2. /\ k \in Jobs /\ st \in {"submitted", "in_progress"}
        /\ sess[w].batch \in Batches /\ Known(sess[w].batch)
    BY <1>w, <2>1 DEF SlotSafe, AtWork, StatusMap, Session
  <2> HIDE DEF k, st
  <2>3. row[k] \in Row /\ r \in Row
    BY <1>w, <2>2, RowWrites DEF TypeOK, Statuses
  <2>4. /\ r.batch = sess[w].batch /\ r.st = st
        /\ (r.purged <=> row[k].purged) /\ (r.staged <=> row[k].staged)
    BY <2>3 DEF Row
  <2> HIDE DEF r
  <2>5. row'[k] = r /\ \A i \in Jobs \ {k} : row'[i] = row[i]
    BY <1>w, <2>1, <2>2 DEF TypeOK
  <2>6. Grows
    BY <2>1, <2>4, <2>5 DEF Grows
  <2>7. RowsSafe'
    BY <2>1, <2>2, <2>4, <2>5 DEF BatchInv, RowsSafe, Known, FinalizedIsMetered, OutputIsKept
  <2>8. SlotSafe(sess[w])'
    <3>1. sess'[w] = Idle
      BY <1>w, <2>1 DEF TypeOK
    <3> QED BY <3>1 DEF SlotSafe, Idle, NoCopy, Unread, Known, AtWork
  <2>9. /\ row' \in [Jobs -> Row] /\ store' \in [Jobs -> SUBSET Objects]
        /\ prov' \in [Batches -> [st : ProviderStatuses, output : BOOLEAN]]
        /\ ledger' \in [Jobs -> [Models -> Nat]]
    BY <1>w, <2>1, <2>2, <2>3 DEF TypeOK
  <2> QED BY <1>w, <1>0, <2>1, <2>6, <2>7, <2>8, <2>9, IdleTyped, WriteStep
<1> QED BY <1>1, <1>2, <1>3

-----------------------------------------------------------------------------
(* Polling *)

\* Whatever ends the work on a job leaves a session with nothing to break.
LEMMA JobDoneSafe ==
  ASSUME BatchInv, NEW w \in Sessions
  PROVE  JobDone(w) \in Session /\ SlotSafe(JobDone(w)) /\ (JobDone(w).locked <=> sess[w].locked)
<1>w. sess[w] \in Session /\ SlotSafe(sess[w])
  BY DEF BatchInv, TypeOK
<1>1. CASE w \in Pollers
  <2> DEFINE x == [sess[w] EXCEPT !.pc = "sweep", !.job = NoJob, !.copy = NoCopy,
                                  !.answer = "none", !.found = FALSE, !.left = {}]
  <2>1. JobDone(w) = x
    BY <1>1 DEF JobDone
  <2>2. x \in Session /\ (x.locked <=> sess[w].locked)
    <3>1. NoCopy \in Copy /\ "none" \in ProviderStatuses
      BY DEF NoCopy, Copy, Statuses, ProviderStatuses
    <3> QED BY <1>w, <3>1 DEF Session
  <2>3. x.pc = "sweep" /\ x.copy = NoCopy /\ x.seen = sess[w].seen /\ x.doomed = sess[w].doomed
    BY <1>w DEF Session
  <2> HIDE DEF x
  <2>4. SlotSafe(x)
    <3>1. x.copy.batch = NoBatch
      BY <2>3 DEF NoCopy
    <3> QED BY <1>w, <2>3, <3>1 DEF SlotSafe, Known, AtWork
  <2> QED BY <2>1, <2>2, <2>4
<1>2. CASE w \notin Pollers
  <2>1. w \in Clients /\ JobDone(w) = Idle
    BY <1>2 DEF JobDone, Sessions
  <2>2. ~sess[w].locked
    BY <2>1 DEF BatchInv, LockSafe
  <2> QED BY <2>1, <2>2, IdleTyped, IdleSafe
<1> QED BY <1>1, <1>2

\* What a session reads of a row is typed, and its batch is one the provider has.
LEMMA LoadedSafe ==
  ASSUME BatchInv, NEW j \in Jobs
  PROVE  Loaded(j) \in Copy /\ Known(Loaded(j).batch)
  BY DEF BatchInv, TypeOK, Row, Copy, RowsSafe, Loaded

LEMMA CallFailsSafe ==
  ASSUME BatchInv, NEW w \in Sessions, CallFails(w)
  PROVE  BatchInv'
<1>1. faults' \in 0..MaxFaults
  BY BatchAssumption DEF BatchInv, TypeOK, CallFails
<1> QED BY <1>1, JobDoneSafe, SessionStep DEF CallFails

LEMMA ClientSyncSafe ==
  ASSUME BatchInv, NEW w \in Sessions, NEW j \in Jobs, ClientSync(w, j)
  PROVE  BatchInv'
<1>w. sess[w] \in Session /\ SlotSafe(sess[w])
  BY DEF BatchInv, TypeOK
<1> DEFINE c == Loaded(j)
           x == [sess[w] EXCEPT !.pc = "poll", !.job = j, !.copy = c]
<1>1. c \in Copy /\ Known(c.batch) /\ c.batch # NoBatch
  BY LoadedSafe DEF ClientSync, Syncable
<1>2. sess' = [sess EXCEPT ![w] = x] /\ UNCHANGED <<row, store, elapsed, prov, ledger, lock, faults>>
  BY DEF ClientSync, StartSync
<1> HIDE DEF c
<1>3. x \in Session /\ (x.locked <=> sess[w].locked)
  BY <1>w, <1>1 DEF Session
<1>4. x.pc = "poll" /\ x.job = j /\ x.copy = c /\ x.seen = sess[w].seen /\ x.doomed = sess[w].doomed
  BY <1>w DEF Session
<1>5. SlotSafe(x)
  BY <1>w, <1>1, <1>4 DEF SlotSafe, AtWork
<1>6. faults' \in 0..MaxFaults
  BY <1>2 DEF BatchInv, TypeOK
<1> HIDE DEF x
<1> QED BY <1>2, <1>3, <1>5, <1>6, SessionStep

LEMMA SweepSafe ==
  ASSUME BatchInv, NEW p \in Pollers, (\E j \in Jobs : SweepNext(p, j)) \/ SweepDone(p)
  PROVE  BatchInv'
<1>w. p \in Sessions /\ sess[p] \in Session /\ SlotSafe(sess[p])
  BY DEF BatchInv, TypeOK, Sessions
<1>f. UNCHANGED <<row, store, elapsed, prov, ledger, lock, faults>> /\ faults' \in 0..MaxFaults
  BY DEF BatchInv, TypeOK, SweepNext, SweepDone
<1>1. ASSUME NEW j \in Jobs, SweepNext(p, j) PROVE BatchInv'
  <2> DEFINE c == IF sess[p].seen[j] # NoCopy THEN sess[p].seen[j] ELSE Loaded(j)
             n == [sess[p].seen EXCEPT ![j] = NoCopy]
             t == sess[p].todo \ {j}
             y == [sess[p] EXCEPT !.todo = t, !.seen = n]
             x == [y EXCEPT !.pc = "poll", !.job = j, !.copy = c]
  <2>1. sess[p].pc = "sweep" /\ sess' = [sess EXCEPT ![p] = IF Syncable(c) THEN x ELSE y]
    BY <1>1 DEF SweepNext
  <2>2. c \in Copy /\ Known(c.batch)
    BY <1>w, LoadedSafe DEF SlotSafe, Session
  <2>3. Syncable(c) => c.batch # NoBatch
    BY DEF Syncable
  <2>4. n \in [Jobs -> Copy] /\ t \in SUBSET Jobs /\ \A i \in Jobs : Known(n[i].batch)
    BY <1>w DEF SlotSafe, Session, NoCopy, Copy, Statuses, Known
  <2> HIDE DEF c, n, t
  <2>6. y \in Session /\ (y.locked <=> sess[p].locked)
    BY <1>w, <2>2, <2>4 DEF Session
  <2>8. y.pc = "sweep" /\ y.copy = sess[p].copy /\ y.seen = n /\ y.doomed = sess[p].doomed
    BY <1>w, <2>1 DEF Session
  <2> HIDE DEF y
  <2>5. x \in Session /\ (x.locked <=> sess[p].locked)
    BY <2>2, <2>6 DEF Session
  <2>7. x.pc = "poll" /\ x.job = j /\ x.copy = c /\ x.seen = n /\ x.doomed = sess[p].doomed
    BY <2>6, <2>8 DEF Session
  <2> HIDE DEF x
  <2>9. Syncable(c) => SlotSafe(x)
    BY <1>w, <2>2, <2>3, <2>4, <2>7 DEF SlotSafe, AtWork
  <2>10. SlotSafe(y)
    BY <1>w, <2>4, <2>8 DEF SlotSafe, AtWork
  <2>11. CASE Syncable(c)
    BY <1>w, <1>f, <2>1, <2>5, <2>9, <2>11, SessionStep
  <2>12. CASE ~Syncable(c)
    BY <1>w, <1>f, <2>1, <2>6, <2>10, <2>12, SessionStep
  <2> QED BY <2>11, <2>12
<1>2. ASSUME SweepDone(p) PROVE BatchInv'
  <2> DEFINE d == {e \in Due \X Objects : e[2] = "output" => row[e[1]].staged}
             x == [sess[p] EXCEPT !.pc = "purge", !.due = Due, !.doomed = d]
  <2>1. sess' = [sess EXCEPT ![p] = x]
    BY <1>2 DEF SweepDone
  <2>5. /\ Due \in SUBSET Jobs /\ d \in SUBSET (Jobs \X Objects)
        /\ \A j \in Jobs, o \in Objects : <<j, o>> \in d => elapsed[j]
    BY DEF Due
  <2> HIDE DEF d
  <2>2. x \in Session /\ (x.locked <=> sess[p].locked)
    BY <1>w, <2>5 DEF Session
  <2>3. x.pc = "purge" /\ x.copy = sess[p].copy /\ x.seen = sess[p].seen /\ x.doomed = d
    BY <1>w DEF Session
  <2>4. SlotSafe(x)
    BY <1>w, <2>3, <2>5 DEF SlotSafe, AtWork
  <2> HIDE DEF x
  <2> QED BY <1>w, <1>f, <2>1, <2>2, <2>4, SessionStep
<1> QED BY <1>1, <1>2

\* A tick takes the free lock, or runs without one: it had none.
LEMMA PollTickSafe ==
  ASSUME BatchInv, NEW p \in Pollers, NEW infra \in BOOLEAN, PollTick(p, infra)
  PROVE  BatchInv'
<1>w. p \in Sessions /\ sess[p] \in Session /\ SlotSafe(sess[p]) /\ TypeOK
  BY DEF BatchInv, TypeOK, Sessions
<1> DEFINE active == {j \in Jobs : row[j].st \in ActiveStatuses}
           n == [j \in Jobs |-> IF j \in active THEN Loaded(j) ELSE NoCopy]
           x == [Idle EXCEPT !.pc = "sweep", !.locked = infra, !.todo = active, !.seen = n]
<1>1. /\ sess' = [sess EXCEPT ![p] = x] /\ sess[p].pc = "idle"
      /\ UNCHANGED <<row, store, elapsed, prov, ledger>>
  BY DEF PollTick
<1>2. faults' \in 0..MaxFaults
  BY <1>w, BatchAssumption DEF TypeOK, PollTick
<1>3. n \in [Jobs -> Copy] /\ active \in SUBSET Jobs /\ \A j \in Jobs : Known(n[j].batch)
  BY LoadedSafe DEF NoCopy, Copy, Statuses, Known
<1> HIDE DEF n, active
<1>4. /\ x \in Session /\ (x.locked <=> infra)
      /\ x.pc = "sweep" /\ x.copy = NoCopy /\ x.seen = n /\ x.doomed = {}
  <2>1. Idle \in Session /\ Idle.copy = NoCopy /\ Idle.doomed = {}
    BY IdleTyped DEF Idle
  <2> QED BY <1>3, <2>1 DEF Session
<1> HIDE DEF x
<1>5. sess'[p] = x /\ \A u \in Sessions \ {p} : sess'[u] = sess[u]
  BY <1>w, <1>1 DEF TypeOK
<1>6. Grows /\ RowsSafe'
  BY <1>1, RowsKept
<1>7. SlotSafe(sess[p])'
  BY <1>1, <1>3, <1>4, <1>5 DEF SlotSafe, NoCopy, Known, AtWork
<1>8. ~sess[p].locked
  BY <1>w, <1>1 DEF SlotSafe
<1>9. LockSafe' /\ lock' \in BOOLEAN
  <2>1. CASE infra
    <3>1. ~lock /\ lock'
      BY <2>1 DEF PollTick, Acquire
    <3>2. \A q \in Pollers \ {p} : ~sess'[q].locked
      BY <3>1, <1>5 DEF BatchInv, LockSafe, Sessions
    <3>3. \A u \in Clients : sess'[u] = sess[u]
      BY <1>5, BatchAssumption DEF Sessions
    <3>4. sess'[p].locked
      BY <1>4, <1>5, <2>1
    <3>5. lock' \in BOOLEAN
      BY <2>1 DEF PollTick, Acquire
    <3> QED BY <3>1, <3>2, <3>3, <3>4, <3>5 DEF BatchInv, LockSafe
  <2>2. CASE ~infra
    <3>1. lock' = lock
      BY <2>2 DEF PollTick, Acquire
    <3>2. \A u \in Sessions : sess'[u].locked <=> sess[u].locked
      BY <1>4, <1>5, <1>8, <2>2
    <3> QED BY <1>w, <3>1, <3>2, LockKept DEF TypeOK
  <2> QED BY <2>1, <2>2
<1>10. TypeOK'
  BY <1>w, <1>1, <1>2, <1>4, <1>9 DEF TypeOK
<1> QED BY <1>w, <1>5, <1>6, <1>7, <1>9, <1>10, SlotUpdate DEF BatchInv

\* The provider's answer is about a batch it has, so it is a status.
LEMMA PollAnswerSafe ==
  ASSUME BatchInv, NEW w \in Sessions, PollAnswer(w)
  PROVE  BatchInv'
<1>w. sess[w] \in Session /\ SlotSafe(sess[w]) /\ TypeOK
  BY DEF BatchInv, TypeOK
<1> DEFINE b == sess[w].copy.batch
           a == prov[b].st
           f == prov[b].output
           x == [sess[w] EXCEPT !.pc = "answered", !.answer = a, !.found = f]
<1>1. /\ sess' = [sess EXCEPT ![w] = x] /\ sess[w].pc = "poll"
      /\ UNCHANGED <<row, store, elapsed, prov, ledger, lock, faults>>
  BY DEF PollAnswer
<1>2. b \in Batches /\ prov[b].st # "none"
  BY <1>w, <1>1 DEF SlotSafe, Session, Copy, Known
<1>3. a \in ProviderStatuses /\ a # "none" /\ f \in BOOLEAN
  BY <1>w, <1>2 DEF TypeOK
<1>4. sess[w].job \in Jobs
  BY <1>w, <1>1 DEF SlotSafe, AtWork
<1> HIDE DEF a, f
<1>5. x \in Session /\ (x.locked <=> sess[w].locked)
  BY <1>w, <1>3 DEF Session
<1>6. x.pc = "answered" /\ x.answer = a /\ x.job = sess[w].job /\ x.copy = sess[w].copy /\ x.seen = sess[w].seen /\ x.doomed = sess[w].doomed
  BY <1>w DEF Session
<1>7. SlotSafe(x)
  BY <1>w, <1>3, <1>4, <1>6 DEF SlotSafe, AtWork
<1> HIDE DEF x
<1>8. faults' \in 0..MaxFaults
  BY <1>w, <1>1 DEF TypeOK
<1> QED BY <1>1, <1>5, <1>7, <1>8, SessionStep

\* A sync writes a status of the provider over whatever the row has become;
\* it never writes "finalized".
LEMMA SyncCommitSafe ==
  ASSUME BatchInv, NEW w \in Sessions, SyncCommit(w)
  PROVE  BatchInv'
<1>w. sess[w] \in Session /\ SlotSafe(sess[w]) /\ TypeOK
  BY DEF BatchInv, TypeOK
<1> DEFINE k == sess[w].job
           c == sess[w].copy
           next == StatusMap(sess[w].answer, c.st)
           output == sess[w].found \/ c.output
           st == IF next # c.st THEN next ELSE row[k].st
           o == IF output # c.output THEN output ELSE row[k].output
           r == [row[k] EXCEPT !.st = st, !.output = o]
           x == [sess[w] EXCEPT !.pc = "committed", !.copy = NoCopy, !.answer = "none",
                                !.found = FALSE, !.seen = Unread]
<1>1. /\ row' = [row EXCEPT ![k] = r] /\ sess' = [sess EXCEPT ![w] = x] /\ sess[w].pc = "answered"
      /\ UNCHANGED <<store, elapsed, prov, ledger, lock, faults>>
  <2>1. row' = [row EXCEPT ![k] = r]
    BY Zenon DEF SyncCommit
  <2>2. sess' = [sess EXCEPT ![w] = x] /\ sess[w].pc = "answered"
    BY Zenon DEF SyncCommit
  <2>3. UNCHANGED <<store, elapsed, prov, ledger, lock, faults>>
    BY DEF SyncCommit
  <2> QED BY <2>1, <2>2, <2>3
<1>2. k \in Jobs /\ sess[w].answer # "none"
  BY <1>w, <1>1 DEF SlotSafe, AtWork
<1>3. row[k] \in Row
  BY <1>w, <1>2 DEF TypeOK
<1>4. st \in Statuses /\ o \in BOOLEAN /\ (st = "finalized" => row[k].st = "finalized")
  <2>1. o \in BOOLEAN
    BY <1>w, <1>3 DEF Row, Session, Copy
  <2>2. sess[w].answer \in ProviderStatuses /\ c.st \in Statuses /\ row[k].st \in Statuses
    BY <1>w, <1>3 DEF Session, Copy, Row
  <2>3. next = c.st \/ next \in {"in_progress", "completed", "failed", "expired"}
    BY <1>2, <2>2 DEF StatusMap, ProviderStatuses
  <2> QED BY <2>1, <2>2, <2>3 DEF Statuses
<1> HIDE DEF st, o
<1>5. r \in Row
  BY <1>3, <1>4, RowWrites
<1>6. /\ r.batch = row[k].batch /\ r.st = st
      /\ (r.purged <=> row[k].purged) /\ (r.staged <=> row[k].staged)
  BY <1>3 DEF Row
<1> HIDE DEF r
<1>7. row'[k] = r /\ \A i \in Jobs \ {k} : row'[i] = row[i]
  BY <1>w, <1>1, <1>2 DEF TypeOK
<1>8. Grows
  BY <1>1, <1>6, <1>7 DEF Grows
<1>9. RowsSafe'
  BY <1>1, <1>2, <1>4, <1>6, <1>7 DEF BatchInv, RowsSafe, Known, FinalizedIsMetered, OutputIsKept
<1>10. x \in Session /\ (x.locked <=> sess[w].locked)
  <2>1. NoCopy \in Copy
    BY DEF NoCopy, Copy, Statuses
  <2>2. Unread \in [Jobs -> Copy]
    BY <2>1 DEF Unread
  <2>3. "none" \in ProviderStatuses
    BY DEF ProviderStatuses
  <2> QED BY <1>w, <2>1, <2>2, <2>3 DEF Session
<1>11. x.pc = "committed" /\ x.job = k /\ x.copy = NoCopy /\ x.seen = Unread /\ x.doomed = sess[w].doomed
  BY <1>w DEF Session
<1> HIDE DEF x, k
<1>12. SlotSafe(sess[w])'
  <2>1. sess'[w] = x
    BY <1>w, <1>1 DEF TypeOK
  <2> QED BY <1>w, <1>1, <1>2, <1>11, <2>1 DEF SlotSafe, NoCopy, Unread, Known, AtWork
<1>13. /\ row' \in [Jobs -> Row] /\ store' \in [Jobs -> SUBSET Objects]
       /\ prov' \in [Batches -> [st : ProviderStatuses, output : BOOLEAN]]
       /\ ledger' \in [Jobs -> [Models -> Nat]]
  BY <1>w, <1>1, <1>2, <1>5 DEF TypeOK
<1> QED BY <1>w, <1>1, <1>8, <1>9, <1>10, <1>12, <1>13, WriteStep

LEMMA AfterCommitSafe ==
  ASSUME BatchInv, NEW w \in Sessions, AfterCommit(w)
  PROVE  BatchInv'
<1>w. sess[w] \in Session /\ SlotSafe(sess[w]) /\ TypeOK
  BY DEF BatchInv, TypeOK
<1> DEFINE x == [sess[w] EXCEPT !.pc = "download"]
<1>1. /\ sess' = [sess EXCEPT ![w] = x] \/ sess' = [sess EXCEPT ![w] = JobDone(w)]
      /\ sess[w].pc = "committed"
      /\ UNCHANGED <<row, store, elapsed, prov, ledger, lock, faults>>
  BY DEF AfterCommit
<1>2. sess[w].job \in Jobs
  BY <1>w, <1>1 DEF SlotSafe, AtWork
<1>3. x \in Session /\ (x.locked <=> sess[w].locked)
  BY <1>w DEF Session
<1>4. x.pc = "download" /\ x.job = sess[w].job /\ x.copy = sess[w].copy /\ x.seen = sess[w].seen /\ x.doomed = sess[w].doomed
  BY <1>w DEF Session
<1>5. SlotSafe(x)
  BY <1>w, <1>2, <1>4 DEF SlotSafe, AtWork
<1> HIDE DEF x
<1>6. faults' \in 0..MaxFaults
  BY <1>w, <1>1 DEF TypeOK
<1> QED BY <1>1, <1>3, <1>5, <1>6, JobDoneSafe, SessionStep

-----------------------------------------------------------------------------
(* Finalizing *)

LEMMA StageOutputSafe ==
  ASSUME BatchInv, NEW w \in Sessions, StageOutput(w)
  PROVE  BatchInv'
<1>w. sess[w] \in Session /\ SlotSafe(sess[w]) /\ TypeOK
  BY DEF BatchInv, TypeOK
<1> DEFINE k == sess[w].job
           x == [sess[w] EXCEPT !.pc = "record", !.left = Models]
<1>1. /\ store' = [store EXCEPT ![k] = @ \cup {"output"}] /\ sess' = [sess EXCEPT ![w] = x]
      /\ sess[w].pc = "download" /\ UNCHANGED <<row, elapsed, prov, ledger, lock, faults>>
  BY DEF StageOutput
<1>2. k \in Jobs
  BY <1>w, <1>1 DEF SlotSafe, AtWork
<1>3. x \in Session /\ (x.locked <=> sess[w].locked)
  BY <1>w DEF Session
<1>4. x.pc = "record" /\ x.job = k /\ x.left = Models /\ x.copy = sess[w].copy /\ x.seen = sess[w].seen /\ x.doomed = sess[w].doomed
  BY <1>w DEF Session
<1> HIDE DEF x
<1>5. /\ store' \in [Jobs -> SUBSET Objects]
      /\ "output" \in store'[k]
      /\ \A i \in Jobs : "output" \in store[i] => "output" \in store'[i]
  BY <1>w, <1>1, <1>2 DEF TypeOK, Objects
<1> HIDE DEF k
<1>6. Grows
  BY <1>1, <1>5 DEF Grows
<1>7. RowsSafe'
  BY <1>1, <1>5 DEF BatchInv, RowsSafe, Known, FinalizedIsMetered, OutputIsKept
<1>8. SlotSafe(sess[w])'
  <2>1. sess'[w] = x
    BY <1>w, <1>1 DEF TypeOK
  <2> QED BY <1>w, <1>1, <1>2, <1>4, <1>5, <2>1 DEF SlotSafe, Known, AtWork
<1>9. /\ row' \in [Jobs -> Row] /\ prov' \in [Batches -> [st : ProviderStatuses, output : BOOLEAN]]
      /\ ledger' \in [Jobs -> [Models -> Nat]]
  BY <1>w, <1>1 DEF TypeOK
<1> QED BY <1>1, <1>3, <1>5, <1>6, <1>7, <1>8, <1>9, WriteStep

\* A model is crossed off when its row is in the ledger.
LEMMA RecordModelSafe ==
  ASSUME BatchInv, NEW w \in Sessions, NEW m \in Models, RecordModel(w, m)
  PROVE  BatchInv'
<1>w. sess[w] \in Session /\ SlotSafe(sess[w]) /\ TypeOK
  BY DEF BatchInv, TypeOK
<1> DEFINE k == sess[w].job
           l == sess[w].left \ {m}
           x == [sess[w] EXCEPT !.left = l]
           r == [row[k] EXCEPT !.staged = TRUE]
<1>1. /\ sess[w].pc = "record" /\ sess' = [sess EXCEPT ![w] = x] /\ row' = [row EXCEPT ![k] = r]
      /\ ledger' = [ledger EXCEPT ![k][m] = ledger[k][m] + 1]
      /\ UNCHANGED <<store, elapsed, prov, lock, faults>>
  BY DEF RecordModel
<1>2. /\ k \in Jobs /\ l \in SUBSET Models /\ ("output" \in store[k] \/ elapsed[k])
      /\ \A n \in Models \ sess[w].left : ledger[k][n] >= 1
  BY <1>w, <1>1 DEF SlotSafe, AtWork, Session
<1>3. row[k] \in Row /\ r \in Row
  <2>1. row[k] \in Row
    BY <1>w, <1>2 DEF TypeOK
  <2> QED BY <2>1, RowWrites DEF Row
<1>4. r.st = row[k].st /\ r.batch = row[k].batch /\ (r.purged <=> row[k].purged) /\ r.staged
  BY <1>3 DEF Row
<1>5. x \in Session /\ (x.locked <=> sess[w].locked)
  BY <1>w, <1>2 DEF Session
<1>6. x.pc = "record" /\ x.job = k /\ x.left = l /\ x.copy = sess[w].copy /\ x.seen = sess[w].seen /\ x.doomed = sess[w].doomed
  BY <1>w, <1>1 DEF Session
<1> HIDE DEF x, r
<1>7. row'[k] = r /\ (\A i \in Jobs \ {k} : row'[i] = row[i]) /\ row' \in [Jobs -> Row]
  BY <1>w, <1>1, <1>2, <1>3 DEF TypeOK
<1>8. /\ ledger' \in [Jobs -> [Models -> Nat]] /\ ledger'[k][m] >= 1
      /\ \A i \in Jobs, n \in Models : ledger'[i][n] >= ledger[i][n]
  <2>1. ledger[k] \in [Models -> Nat] /\ ledger[k][m] \in Nat
    BY <1>w, <1>2 DEF TypeOK
  <2>2. ledger' \in [Jobs -> [Models -> Nat]]
    BY <1>w, <1>1, <1>2, <2>1 DEF TypeOK
  <2>3. ledger'[k][m] = ledger[k][m] + 1
    BY <1>w, <1>1, <1>2, <2>1 DEF TypeOK
  <2>4. \A i \in Jobs, n \in Models : (i # k \/ n # m) => ledger'[i][n] = ledger[i][n]
    BY <1>w, <1>1, <1>2, <2>1 DEF TypeOK
  <2>5. \A i \in Jobs, n \in Models : ledger[i][n] \in Nat
    BY <1>w DEF TypeOK
  <2> QED BY <2>1, <2>2, <2>3, <2>4, <2>5
<1>n. \A i \in Jobs, n \in Models : ledger[i][n] \in Nat /\ ledger'[i][n] \in Nat
  BY <1>w, <1>8 DEF TypeOK
<1> HIDE DEF k
<1>9. Grows
  BY <1>1, <1>4, <1>7, <1>8, <1>n DEF Grows
<1>10. RowsSafe'
  BY <1>1, <1>2, <1>4, <1>7, <1>8, <1>n DEF BatchInv, RowsSafe, Known, FinalizedIsMetered, OutputIsKept
<1>11. SlotSafe(sess[w])'
  <2>1. sess'[w] = x
    BY <1>w, <1>1 DEF TypeOK
  <2>2. \A n \in Models \ l : ledger'[k][n] >= 1
    BY <1>2, <1>8, <1>n
  <2> QED BY <1>w, <1>1, <1>2, <1>4, <1>6, <1>7, <2>1, <2>2 DEF SlotSafe, Known, AtWork
<1>12. /\ store' \in [Jobs -> SUBSET Objects]
       /\ prov' \in [Batches -> [st : ProviderStatuses, output : BOOLEAN]]
  BY <1>w, <1>1 DEF TypeOK
<1> QED BY <1>1, <1>5, <1>7, <1>8, <1>9, <1>10, <1>11, <1>12, WriteStep

\* Every model is crossed off and the output was staged, so the row may say so.
LEMMA FinalizeSafe ==
  ASSUME BatchInv, NEW w \in Sessions, FinalizeCommit(w)
  PROVE  BatchInv'
<1>w. sess[w] \in Session /\ SlotSafe(sess[w]) /\ TypeOK
  BY DEF BatchInv, TypeOK
<1> DEFINE k == sess[w].job
           r == [row[k] EXCEPT !.st = "finalized", !.staged = TRUE]
<1>1. /\ sess[w].pc = "record" /\ sess[w].left = {}
      /\ sess' = [sess EXCEPT ![w] = JobDone(w)] /\ row' = [row EXCEPT ![k] = r]
      /\ UNCHANGED <<store, elapsed, prov, ledger, lock, faults>>
  BY DEF FinalizeCommit
<1>2. k \in Jobs /\ ("output" \in store[k] \/ elapsed[k]) /\ \A n \in Models : ledger[k][n] >= 1
  BY <1>w, <1>1 DEF SlotSafe, AtWork
<1>3. row[k] \in Row /\ r \in Row
  <2>1. row[k] \in Row /\ "finalized" \in Statuses
    BY <1>w, <1>2 DEF TypeOK, Statuses
  <2> QED BY <2>1, RowWrites DEF Row
<1>4. r.batch = row[k].batch /\ (r.purged <=> row[k].purged) /\ r.staged
  BY <1>3 DEF Row
<1> HIDE DEF r
<1>5. row'[k] = r /\ (\A i \in Jobs \ {k} : row'[i] = row[i]) /\ row' \in [Jobs -> Row]
  BY <1>w, <1>1, <1>2, <1>3 DEF TypeOK
<1> HIDE DEF k
<1>6. Grows
  BY <1>1, <1>4, <1>5 DEF Grows
<1>7. RowsSafe'
  BY <1>1, <1>2, <1>4, <1>5 DEF BatchInv, RowsSafe, Known, FinalizedIsMetered, OutputIsKept
<1>8. JobDone(w) \in Session /\ SlotSafe(JobDone(w)) /\ (JobDone(w).locked <=> sess[w].locked)
  BY JobDoneSafe
<1>9. SlotSafe(sess[w])'
  <2>1. sess'[w] = JobDone(w) /\ JobDone(w).pc \in {"idle", "sweep"}
    BY <1>w, <1>1 DEF TypeOK, JobDone, Idle, Session
  <2> QED BY <1>1, <1>8, <2>1 DEF SlotSafe, Known, AtWork
<1>10. /\ store' \in [Jobs -> SUBSET Objects]
       /\ prov' \in [Batches -> [st : ProviderStatuses, output : BOOLEAN]]
       /\ ledger' \in [Jobs -> [Models -> Nat]]
  BY <1>w, <1>1 DEF TypeOK
<1> QED BY <1>1, <1>5, <1>6, <1>7, <1>8, <1>9, <1>10, WriteStep

-----------------------------------------------------------------------------
(* The end of a tick, and crashes *)

\* Whoever stops gives back the lock it held, and no other.
LEMMA LockReleased ==
  ASSUME BatchInv, NEW w \in Sessions, sess' = [sess EXCEPT ![w] = Idle],
         lock' = (lock /\ ~sess[w].locked)
  PROVE  LockSafe' /\ lock' \in BOOLEAN
<1>1. sess'[w] = Idle /\ \A u \in Sessions \ {w} : sess'[u] = sess[u]
  BY DEF BatchInv, TypeOK
<1>2. ~sess'[w].locked
  BY <1>1, IdleTyped
<1>3. \A u \in Clients : ~sess'[u].locked
  BY <1>1, <1>2 DEF BatchInv, LockSafe, Sessions
<1>4. \A p, q \in Pollers : sess'[p].locked /\ sess'[q].locked => p = q
  BY <1>1, <1>2 DEF BatchInv, LockSafe, Sessions
<1>5. lock' <=> \E p \in Pollers : sess'[p].locked
  BY <1>1, <1>2 DEF BatchInv, LockSafe, Sessions
<1>6. lock' \in BOOLEAN
  OBVIOUS
<1> QED BY <1>3, <1>4, <1>5, <1>6 DEF LockSafe

LEMMA CrashSafe ==
  ASSUME BatchInv, NEW w \in Sessions, Crash(w)
  PROVE  BatchInv'
<1>1. /\ sess' = [sess EXCEPT ![w] = Idle] /\ faults' \in 0..MaxFaults
      /\ UNCHANGED <<row, store, elapsed, prov, ledger>>
  BY BatchAssumption DEF BatchInv, TypeOK, Crash
<1>2. LockSafe' /\ lock' \in BOOLEAN
  BY LockReleased DEF Crash
<1>3. TypeOK'
  BY <1>1, <1>2, IdleTyped DEF BatchInv, TypeOK
<1>4. Grows /\ RowsSafe'
  BY <1>1, RowsKept
<1>5. sess'[w] = Idle /\ \A u \in Sessions \ {w} : sess'[u] = sess[u]
  BY <1>1 DEF BatchInv, TypeOK
<1>6. SlotSafe(sess[w])'
  BY <1>5 DEF SlotSafe, Idle, NoCopy, Unread, Known, AtWork
<1> QED BY <1>2, <1>3, <1>4, <1>5, <1>6, SlotUpdate DEF BatchInv

\* Only what was selected past its TTL is deleted.
LEMMA PurgeDeleteSafe ==
  ASSUME BatchInv, NEW p \in Pollers, NEW j \in Jobs, NEW o \in Objects, NEW deleted \in BOOLEAN,
         PurgeDelete(p, j, o, deleted)
  PROVE  BatchInv'
<1>w. p \in Sessions /\ sess[p] \in Session /\ SlotSafe(sess[p]) /\ TypeOK
  BY DEF BatchInv, TypeOK, Sessions
<1> DEFINE d == sess[p].doomed \ {<<j, o>>}
           x == [sess[p] EXCEPT !.doomed = d]
<1>1. /\ sess' = [sess EXCEPT ![p] = x] /\ sess[p].pc = "purge" /\ <<j, o>> \in sess[p].doomed
      /\ store' = IF deleted THEN [store EXCEPT ![j] = @ \ {o}] ELSE store
      /\ UNCHANGED <<row, elapsed, prov, ledger, lock>>
  BY DEF PurgeDelete
<1>2. elapsed[j]
  BY <1>w, <1>1 DEF SlotSafe
<1>3. faults' \in 0..MaxFaults
  BY <1>w, BatchAssumption DEF TypeOK, PurgeDelete
<1>4. x \in Session /\ (x.locked <=> sess[p].locked)
  BY <1>w DEF Session
<1>5. x.pc = "purge" /\ x.copy = sess[p].copy /\ x.seen = sess[p].seen /\ x.doomed = d
  BY <1>w, <1>1 DEF Session
<1>6. /\ store' \in [Jobs -> SUBSET Objects]
      /\ \A i \in Jobs : "output" \in store[i] => "output" \in store'[i] \/ elapsed[i]
  BY <1>w, <1>1, <1>2 DEF TypeOK
<1> HIDE DEF x
<1>7. TypeOK'
  BY <1>w, <1>1, <1>3, <1>4, <1>6 DEF TypeOK
<1>8. Grows
  BY <1>1, <1>6 DEF Grows
<1>9. RowsSafe'
  BY <1>1, <1>6 DEF BatchInv, RowsSafe, Known, FinalizedIsMetered, OutputIsKept
<1>10. sess'[p] = x /\ \A u \in Sessions \ {p} : sess'[u] = sess[u]
  BY <1>w, <1>1 DEF TypeOK
<1>11. SlotSafe(sess[p])'
  BY <1>w, <1>1, <1>5, <1>10 DEF SlotSafe, Known, AtWork
<1>12. \A u \in Sessions : sess'[u].locked <=> sess[u].locked
  BY <1>4, <1>10
<1> QED BY <1>w, <1>1, <1>7, <1>8, <1>9, <1>10, <1>11, <1>12, SlotUpdate, LockKept DEF BatchInv

\* The mark changes nothing that a promise rests on.
LEMMA PurgeCommitSafe ==
  ASSUME BatchInv, NEW p \in Pollers, PurgeCommit(p)
  PROVE  BatchInv'
<1>w. p \in Sessions /\ sess[p] \in Session /\ SlotSafe(sess[p]) /\ TypeOK
  BY DEF BatchInv, TypeOK, Sessions
<1>1. /\ sess' = [sess EXCEPT ![p] = Idle] /\ UNCHANGED <<store, elapsed, prov, ledger, faults>>
      /\ row' = [j \in Jobs |->
           IF j \in sess[p].due THEN [row[j] EXCEPT !.purged = TRUE] ELSE row[j]]
      /\ lock' = (lock /\ ~sess[p].locked)
  BY DEF PurgeCommit
<1>3. LockSafe' /\ lock' \in BOOLEAN
  BY <1>w, <1>1, LockReleased
<1>4. \A j \in Jobs : LET r == [row[j] EXCEPT !.purged = TRUE]
                    IN /\ r \in Row /\ r.st = row[j].st /\ r.batch = row[j].batch
                       /\ (r.staged <=> row[j].staged)
  BY <1>w DEF TypeOK, Row
<1>5. /\ row' \in [Jobs -> Row]
      /\ \A j \in Jobs : /\ row'[j].st = row[j].st /\ row'[j].batch = row[j].batch
                         /\ (row'[j].staged <=> row[j].staged)
  BY <1>w, <1>1, <1>4 DEF TypeOK
<1>7. TypeOK'
  BY <1>w, <1>1, <1>3, <1>5, IdleTyped DEF TypeOK
<1>8. Grows
  BY <1>1 DEF Grows
<1>9. RowsSafe'
  BY <1>1, <1>5 DEF BatchInv, RowsSafe, Known, FinalizedIsMetered, OutputIsKept
<1>10. sess'[p] = Idle /\ \A u \in Sessions \ {p} : sess'[u] = sess[u]
  BY <1>w, <1>1 DEF TypeOK
<1>11. SlotSafe(sess[p])'
  BY <1>10 DEF SlotSafe, Idle, NoCopy, Unread, Known, AtWork
<1> QED BY <1>w, <1>3, <1>7, <1>8, <1>9, <1>10, <1>11, SlotUpdate DEF BatchInv

-----------------------------------------------------------------------------
(* Theorems *)

LEMMA NextSafe == BatchInv /\ [Next]_vars => BatchInv'
<1> SUFFICES ASSUME BatchInv, [Next]_vars PROVE BatchInv'
  OBVIOUS
<1>0. ASSUME NEW w \in Sessions, SyncStep(w) PROVE BatchInv'
  BY <1>0, PollAnswerSafe, SyncCommitSafe, AfterCommitSafe, StageOutputSafe, RecordModelSafe,
     FinalizeSafe DEF SyncStep
<1>1. ASSUME NEW w \in Clients, ClientStep(w) PROVE BatchInv'
  BY <1>0, <1>1, SubmitSafe, ClientSyncSafe DEF ClientStep, Sessions
<1>2. ASSUME NEW p \in Pollers, PollerStep(p) PROVE BatchInv'
  BY <1>0, <1>2, PollTickSafe, SweepSafe, PurgeDeleteSafe, PurgeCommitSafe
  DEF PollerStep, Sessions
<1>3. CASE UNCHANGED vars
  <2>1. TypeOK' /\ Grows /\ RowsSafe'
    BY <1>3, RowsKept DEF BatchInv, TypeOK, vars
  <2>2. sess' = sess /\ lock' = lock
    BY <1>3 DEF vars
  <2> QED BY <2>1, <2>2, SlotsKept, LockKept DEF BatchInv
<1>4. CASE Next
  BY <1>1, <1>2, <1>4, StageSafe, ProviderSafe, CallFailsSafe, CrashSafe DEF Next
<1> QED BY <1>3, <1>4

\* Every reachable state of the batch lane is typed and safe.
THEOREM BatchSafe == Spec => []BatchInv
<1> QED BY InitSafe, NextSafe, PTL DEF Spec

\* The polling scheduler's fairness only removes behaviours.
LEMMA FairIsSafe == FairSpec => []BatchInv
<1>1. FairSpec => Spec
  BY PTL DEF FairSpec
<1> QED BY <1>1, BatchSafe, PTL

\* Rows, objects, batches, ledger and sessions keep their shape.
THEOREM TypeCorrect == FairSpec => []TypeOK
<1>1. BatchInv => TypeOK
  BY DEF BatchInv
<1> QED BY <1>1, FairIsSafe, PTL

\* A job that says it is finalized has every model of its output in the ledger
\* and a key for its output: whatever crashes or races, "finalized" is written
\* only by a session that has recorded them all, and nothing takes a row back.
THEOREM FinalizedIsAlwaysMetered == FairSpec => []FinalizedIsMetered
<1>1. BatchInv => FinalizedIsMetered
  BY DEF BatchInv, RowsSafe
<1> QED BY <1>1, FairIsSafe, PTL

\* The output of a finalized job is in storage until the job's TTL: a session
\* stages it before it writes "finalized", and no purge deletes what is younger.
THEOREM OutputIsAlwaysKept == FairSpec => []OutputIsKept
<1>1. BatchInv => OutputIsKept
  BY DEF BatchInv, RowsSafe
<1> QED BY <1>1, FairIsSafe, PTL

\* The advisory lock is held by at most one sweep, and by none when it is free.
THEOREM SweepsAlwaysExclude == FairSpec => []SweepsExclude
<1>1. BatchInv => SweepsExclude
  <2> SUFFICES ASSUME BatchInv PROVE SweepsExclude
    OBVIOUS
  <2> DEFINE H == {p \in Pollers : sess[p].locked}
  <2>1. H = {} \/ \E p : H = {p}
    BY DEF BatchInv, LockSafe
  <2> HIDE DEF H
  <2>2. Cardinality(H) <= 1
    <3>1. H = {} => Cardinality(H) = 0
      BY FS_EmptySet, Zenon
    <3>2. ASSUME NEW p, H = {p} PROVE Cardinality(H) = 1
      BY <3>2, FS_Singleton, Zenon
    <3>3. Cardinality(H) = 0 \/ Cardinality(H) = 1
      BY <2>1, <3>1, <3>2, Zenon
    <3> QED BY <3>3
  <2> USE DEF H
  <2> QED BY <2>2 DEF BatchInv, LockSafe, SweepsExclude
<1> QED BY <1>1, FairIsSafe, PTL
=============================================================================
