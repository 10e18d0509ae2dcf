------------------------- MODULE BulkFilesLockProofs -------------------------
(***************************************************************************)
(* The status of a file is its lock: StatusIsTheLock is inductive for any  *)
(* files, emails, invocations and jobs, as long as the system is calm.     *)
(***************************************************************************)
EXTENDS BulkFilesInvariant, BulkFilesProofs

\* Crons end before their next invocation, and no call is lost half-way: an
\* upload that fails to reach the disk and a failed re-check are harmless.
Calm == SlowHandlers = {} /\ FaultKinds \subseteq {"recheck", "csv"}

-----------------------------------------------------------------------------
(* What an EXCEPT does to the functions of the state *)

LEMMA TickOf ==
  ASSUME TickType, NEW t \in Ticks, NEW r, SetTick(t, r)
  PROVE  tick'[t] = r /\ \A u \in Ticks : u # t => tick'[u] = tick[u]
BY DEF TickType, SetTick

LEMMA JobOf ==
  ASSUME JobType, NEW j \in GreyJobs, NEW r, SetJob(j, r)
  PROVE  greyJob'[j] = r /\ \A k \in GreyJobs : k # j => greyJob'[k] = greyJob[k]
BY DEF JobType, SetJob

LEMMA RowOf ==
  ASSUME RowType, NEW f \in Files, NEW r, WriteRow(f, r)
  PROVE  bulkFile'[f] = r /\ \A g \in Files : g # f => bulkFile'[g] = bulkFile[g]
BY DEF RowType, WriteRow

LEMMA LoadOf ==
  ASSUME LoadType, NEW f \in Files, NEW r, SetLoad(f, r)
  PROVE  loadJob'[f] = r /\ \A g \in Files : g # f => loadJob'[g] = loadJob[g]
BY DEF LoadType, SetLoad

LEMMA IdleTickFields ==
  IdleTick.pc = "idle" /\ IdleTick.job = NoJob
BY DEF IdleTick

-----------------------------------------------------------------------------
(* Steps of one invocation *)

\* The invocation goes on with its file and does not write the row.
LEMMA InvocationMoves ==
  ASSUME TypeOK, StatusIsTheLock, NEW t \in Ticks, NEW r,
         SetTick(t, r), UNCHANGED <<bulkFile, loadJob, greyJob, notices>>,
         tick[t].pc # "idle", r.pc # "r_notify",
         r.file = tick[t].file, r.job = tick[t].job,
         StatusAt[r.pc] = StatusAt[tick[t].pc],
         r.pc \in Snapshots => r.row = bulkFile[r.file],
         r.job # NoJob => r.pc \in {"g_find", "g_mark"} /\ r.found # {},
         r.job = NoJob => /\ r.pc # "g_find"
                          /\ r.pc = "g_mark" => r.found = {}
  PROVE  StatusIsTheLock'
<1> USE DEF TypeOK, StatusIsTheLock
<1>1. tick'[t] = r /\ \A u \in Ticks : u # t => tick'[u] = tick[u]
  BY TickOf
<1>2. InvocationOwns'
  BY <1>1 DEF InvocationOwns
<1>3. OneInvocation'
  BY <1>1 DEF OneInvocation
<1>4. LoadOwns'
  BY DEF LoadOwns
<1>5. Announcing'
  BY <1>1 DEF Announcing
<1>6. JobOwns' /\ OneJob'
  BY <1>1 DEF JobOwns, OneJob, Live
<1>7. ReportThenNotice'
  BY <1>1 DEF ReportThenNotice
<1>8. QED
  BY <1>2, <1>3, <1>4, <1>5, <1>6, <1>7

\* The invocation writes the row of its file, and goes on or ends.
LEMMA InvocationWrites ==
  ASSUME TypeOK, StatusIsTheLock, NEW t \in Ticks, NEW r, NEW row,
         SetTick(t, r), WriteRow(tick[t].file, row),
         UNCHANGED <<loadJob, greyJob, notices>>,
         tick[t].pc # "idle", tick[t].file \in Files,
         r.job = NoJob, r.pc \notin Snapshots, r.pc # "g_find",
         r.pc # "idle" => /\ r.file = tick[t].file
                          /\ row.status = StatusAt[r.pc],
         bulkFile[tick[t].file].status \notin {"absent", "queued", "complete"},
         row.status \notin {"absent", "queued"},
         row.report <=> (row.status = "complete"),
         \A j \in GreyJobs :
           Live(j) /\ greyJob[j].file = tick[t].file =>
             row.status = "progress"
  PROVE  StatusIsTheLock'
<1> USE DEF TypeOK, StatusIsTheLock
<1> DEFINE f == tick[t].file
<1>1. tick'[t] = r /\ \A u \in Ticks : u # t => tick'[u] = tick[u]
  BY TickOf
<1>2. bulkFile'[f] = row /\ \A g \in Files : g # f => bulkFile'[g] = bulkFile[g]
  BY RowOf
<1>3. \A u \in Ticks : tick[u].pc # "idle" => tick[u].file \in Files
  BY DEF TickType
<1>4. \A j \in GreyJobs : greyJob[j].stage # "free" => greyJob[j].file \in Files
  BY DEF JobType
<1>5. \A u \in Ticks : u # t /\ tick[u].pc # "idle" =>
         tick'[u] = tick[u] /\ bulkFile'[tick[u].file] = bulkFile[tick[u].file]
  BY <1>1, <1>2, <1>3 DEF OneInvocation
<1> HIDE DEF f
<1>6. InvocationOwns'
  BY <1>1, <1>2, <1>5 DEF InvocationOwns, f
<1>7. OneInvocation'
  BY <1>1 DEF OneInvocation
<1>8. LoadOwns'
  BY <1>2 DEF LoadOwns, f, QueuedRow
<1>9. Announcing'
  BY <1>1 DEF Announcing, Snapshots
<1>10. JobOwns'
  <2>1. ASSUME NEW j \in GreyJobs, Live(j), greyJob[j].file # f
        PROVE  /\ bulkFile'[greyJob[j].file] = bulkFile[greyJob[j].file]
               /\ \A u \in Ticks : tick[u].job = j => tick'[u].job = j
    <3>1. greyJob[j].file \in Files
      BY <1>4, <2>1 DEF Live
    <3>2. tick[t].job # j
      BY <2>1, JobsAssumption DEF Announcing, f
    <3>3. QED
      BY <1>1, <1>2, <2>1, <3>1, <3>2
  <2>2. ASSUME NEW j \in GreyJobs, Live(j), greyJob[j].file = f
        PROVE  row.status = "progress" /\ greyJob[j].stage = "waiting"
    <3>1. bulkFile[f].status = StatusAt[tick[t].pc]
      BY DEF InvocationOwns, f
    <3>2. bulkFile[f].status # "progress"
      BY <3>1 DEF TickType, TickRecords, Pcs, StatusAt
    <3>3. QED
      BY <2>2, <3>2 DEF JobOwns, Live, f
  <2>3. QED
    BY <1>2, <2>1, <2>2 DEF JobOwns, Live
<1>11. OneJob'
  BY DEF OneJob, Live
<1>12. ReportThenNotice'
  BY <1>1, <1>2, <1>3, <1>5 DEF ReportThenNotice, InvocationOwns, f
<1>13. QED
  BY <1>6, <1>7, <1>8, <1>9, <1>10, <1>11, <1>12
\* The invocation ends without a trace in the row.
LEMMA InvocationEnds ==
  ASSUME TypeOK, StatusIsTheLock, NEW t \in Ticks, SetTick(t, IdleTick),
         UNCHANGED <<bulkFile, loadJob, greyJob, notices>>,
         tick[t].job = NoJob
  PROVE  StatusIsTheLock'
<1> USE DEF TypeOK, StatusIsTheLock
<1>1. /\ tick'[t] = IdleTick /\ IdleTick.pc = "idle" /\ IdleTick.job = NoJob
      /\ \A u \in Ticks : u # t => tick'[u] = tick[u]
  BY TickOf, IdleTickFields
<1>2. InvocationOwns' /\ OneInvocation' /\ LoadOwns'
  BY <1>1 DEF InvocationOwns, OneInvocation, LoadOwns
<1>3. Announcing'
  BY <1>1 DEF Announcing
<1>4. JobOwns' /\ OneJob'
  BY <1>1, JobsAssumption DEF JobOwns, OneJob, Live
<1>5. ReportThenNotice'
  BY <1>1 DEF ReportThenNotice
<1>6. QED
  BY <1>2, <1>3, <1>4, <1>5

\* A cron starts on a file no invocation is busy with.
LEMMA InvocationStarts ==
  ASSUME TypeOK, StatusIsTheLock, NEW t \in Ticks, NEW f \in Files, NEW pc,
         SetTick(t, [IdleTick EXCEPT !.pc = pc, !.file = f]),
         UNCHANGED <<bulkFile, loadJob, greyJob, notices>>,
         tick[t].pc = "idle",
         pc \notin Snapshots \union {"g_find", "r_notify"},
         bulkFile[f].status = StatusAt[pc],
         \A u \in Ticks : tick[u].pc # "idle" => tick[u].file # f
  PROVE  StatusIsTheLock'
<1> USE DEF TypeOK, StatusIsTheLock
<1> DEFINE r == [IdleTick EXCEPT !.pc = pc, !.file = f]
<1>0. r.pc = pc /\ r.file = f /\ r.job = NoJob
  BY DEF IdleTick
<1> HIDE DEF r
<1>1. tick'[t] = r /\ \A u \in Ticks : u # t => tick'[u] = tick[u]
  BY TickOf DEF r
<1>2. tick[t].job = NoJob
  BY DEF Announcing
<1>3. InvocationOwns' /\ OneInvocation' /\ LoadOwns'
  BY <1>0, <1>1 DEF InvocationOwns, OneInvocation, LoadOwns
<1>4. Announcing'
  BY <1>0, <1>1 DEF Announcing, Snapshots
<1>5. JobOwns' /\ OneJob'
  BY <1>1, <1>2, JobsAssumption DEF JobOwns, OneJob, Live
<1>6. ReportThenNotice'
  BY <1>0, <1>1 DEF ReportThenNotice
<1>7. QED
  BY <1>3, <1>4, <1>5, <1>6

\* The crons start and go on: one step per action.
LEMMA InvocationStep ==
  ASSUME TypeOK, StatusIsTheLock, Calm,
         NEW t \in Ticks, Start(t) \/ TickStep(t)
  PROVE  StatusIsTheLock'
<1> USE DEF fileVars, loadVars, ghosts
<1>0. /\ TickType /\ RowType
      /\ InvocationOwns /\ Announcing /\ JobOwns /\ ReportThenNotice
  BY DEF TypeOK, StatusIsTheLock
<1>a. /\ tick[t] \in TickRecords
      /\ tick[t].pc # "idle" =>
           /\ tick[t].file \in Files
           /\ bulkFile[tick[t].file] \in Rows
           /\ bulkFile[tick[t].file].status = StatusAt[tick[t].pc]
  BY <1>0 DEF TickType, RowType, InvocationOwns
<1>b. \A u \in Ticks : tick[u].pc \in Pcs
  BY <1>0 DEF TickType, TickRecords
<1>c. tick[t].pc \notin {"g_find", "g_mark"} => tick[t].job = NoJob
  BY <1>0 DEF Announcing
\* No grey job is live while its file is pending, processing or done.
<1>d. ASSUME bulkFile[tick[t].file].status \notin {"ready", "progress"},
             NEW j \in GreyJobs, Live(j)
      PROVE  greyJob[j].file # tick[t].file
  BY <1>0, <1>d DEF JobOwns, Live
<1>1. CASE Start(t)
  <2>1. ASSUME NEW handler \in Handlers, NEW status, NEW pc,
               Pick(t, handler, status, pc),
               pc \in {"v_find", "g_list", "r_merge"},
               StatusAt[pc] = status,
               \A p \in Pcs \ {"idle"} :
                 StatusAt[p] = status => p \in ClaimPcs[handler]
        PROVE  StatusIsTheLock'
    <3>1. PICK f \in Files :
            /\ bulkFile[f].status = status
            /\ SetTick(t, [IdleTick EXCEPT !.pc = pc, !.file = f])
      BY <2>1, SubsetsAssumption DEF Pick, IsOldest
    <3>2. \A u \in Ticks : tick[u].pc \notin ClaimPcs[handler]
      BY <2>1 DEF Pick, MayStart, Calm
    <3>3. \A u \in Ticks : tick[u].pc # "idle" => tick[u].file # f
      BY <1>0, <1>b, <2>1, <3>1, <3>2 DEF InvocationOwns
    <3>4. QED
      BY <2>1, <3>1, <3>3, InvocationStarts DEF Pick, Snapshots
  <2>2. CASE PickPending(t)
    BY <2>1, <2>2 DEF PickPending, Handlers, StatusAt, ClaimPcs, Pcs
  <2>3. CASE PickReady(t)
    BY <2>1, <2>3 DEF PickReady, Handlers, StatusAt, ClaimPcs, Pcs
  <2>4. CASE PickDone(t)
    BY <2>1, <2>4 DEF PickDone, Handlers, StatusAt, ClaimPcs, Pcs
  <2>5. QED
    BY <1>1, <2>2, <2>3, <2>4 DEF Start
<1>2. CASE FindRow(t)
  <2> DEFINE r == [tick[t] EXCEPT !.pc = AfterFind[tick[t].pc],
                                  !.row = bulkFile[tick[t].file]]
  <2>1. /\ r.pc = AfterFind[tick[t].pc] /\ r.row = bulkFile[tick[t].file]
        /\ r.file = tick[t].file /\ r.job = tick[t].job
        /\ r.found = tick[t].found
    BY <1>a DEF TickRecords
  <2>2. SetTick(t, r)
    BY <1>2 DEF FindRow
  <2> HIDE DEF r
  <2>3. /\ tick[t].pc # "idle" /\ r.pc \notin {"r_notify", "g_find"}
        /\ StatusAt[r.pc] = StatusAt[tick[t].pc]
        /\ r.pc = "g_mark" <=> tick[t].pc \in {"g_scan", "g_find"}
    BY <1>2, <2>1 DEF FindRow, AfterFind, StatusAt
  <2>4. /\ r.job # NoJob => r.pc = "g_mark" /\ r.found # {}
        /\ r.job = NoJob /\ r.pc = "g_mark" => r.found = {}
    BY <1>0, <1>2, <2>1, <2>3 DEF Announcing, FindRow, AfterFind
  <2>5. UNCHANGED <<bulkFile, loadJob, greyJob, notices>>
    BY <1>2 DEF FindRow
  <2>6. QED
    BY <2>1, <2>2, <2>3, <2>4, <2>5, InvocationMoves
<1>3. CASE MarkProcessing(t)
  <2> DEFINE r == [tick[t] EXCEPT !.pc = "v_list", !.row = AbsentRow]
             row == [tick[t].row EXCEPT !.status = "processing"]
  <2>1. r.pc = "v_list" /\ r.file = tick[t].file /\ r.job = NoJob
    BY <1>a, <1>c, <1>3 DEF MarkProcessing, TickRecords
  <2>2. row.status = "processing" /\ row.report = FALSE
    BY <1>0, <1>a, <1>3
       DEF MarkProcessing, InvocationOwns, ReportThenNotice, Snapshots,
           StatusAt, Rows
  <2>3. /\ SetTick(t, r) /\ WriteRow(tick[t].file, row)
        /\ UNCHANGED <<loadJob, greyJob, notices>>
        /\ tick[t].pc = "v_claim"
    BY <1>3 DEF MarkProcessing
  <2> HIDE DEF r, row
  <2>4. QED
    BY <1>a, <1>d, <2>1, <2>2, <2>3, InvocationWrites DEF Snapshots, StatusAt
<1>4. CASE ListEmails(t)
  <2> DEFINE r == [tick[t] EXCEPT
                     !.pc = "v_run",
                     !.todo = fileEmails[tick[t].file] \ (NoMx \union Outlook)]
  <2>1. r.pc = "v_run" /\ r.file = tick[t].file /\ r.job = tick[t].job
    BY <1>a DEF TickRecords
  <2>2. /\ SetTick(t, r) /\ tick[t].pc = "v_list"
        /\ UNCHANGED <<bulkFile, loadJob, greyJob, notices>>
    BY <1>4 DEF ListEmails
  <2> HIDE DEF r
  <2>3. QED
    BY <1>c, <2>1, <2>2, InvocationMoves DEF StatusAt, Snapshots
<1>5. CASE ValidateEmail(t)
  <2>1. PICK e \in Emails : SetTick(t, [tick[t] EXCEPT !.todo = @ \ {e}])
    BY <1>a, <1>5 DEF ValidateEmail, TickRecords
  <2> DEFINE r == [tick[t] EXCEPT !.todo = @ \ {e}]
  <2>2. /\ SetTick(t, r) /\ tick[t].pc = "v_run"
        /\ UNCHANGED <<bulkFile, loadJob, greyJob, notices>>
    BY <1>5, <2>1 DEF ValidateEmail
  <2>3. r.pc = tick[t].pc /\ r.file = tick[t].file /\ r.job = tick[t].job
    BY <1>a DEF TickRecords
  <2> HIDE DEF r
  <2>4. QED
    BY <1>c, <2>2, <2>3, InvocationMoves DEF StatusAt, Snapshots
<1>6. CASE MarkReady(t)
  <2> DEFINE row == [tick[t].row EXCEPT !.status = "ready"]
  <2>1. row.status = "ready" /\ row.report = FALSE
    BY <1>0, <1>a, <1>6
       DEF MarkReady, InvocationOwns, ReportThenNotice, Snapshots, StatusAt,
           Rows
  <2>2. /\ SetTick(t, IdleTick) /\ WriteRow(tick[t].file, row)
        /\ UNCHANGED <<loadJob, greyJob, notices>>
        /\ tick[t].pc = "v_ready"
    BY <1>6 DEF MarkReady
  <2> HIDE DEF row
  <2>3. QED
    BY <1>a, <1>d, <2>1, <2>2, InvocationWrites, IdleTickFields
       DEF Snapshots, StatusAt
<1>7. CASE ListForGrey(t)
  <2> DEFINE r == [tick[t] EXCEPT !.pc = "g_scan",
                                  !.todo = fileEmails[tick[t].file]]
  <2>1. r.pc = "g_scan" /\ r.file = tick[t].file /\ r.job = tick[t].job
    BY <1>a DEF TickRecords
  <2>2. /\ SetTick(t, r) /\ tick[t].pc = "g_list"
        /\ UNCHANGED <<bulkFile, loadJob, greyJob, notices>>
    BY <1>7 DEF ListForGrey
  <2> HIDE DEF r
  <2>3. QED
    BY <1>c, <2>1, <2>2, InvocationMoves DEF StatusAt, Snapshots
<1>8. CASE ScanEmail(t)
  <2>1. PICK e \in tick[t].todo :
          SetTick(t, [tick[t] EXCEPT
                        !.todo = @ \ {e},
                        !.found = IF processed[e] = "grey" THEN @ \union {e}
                                                           ELSE @])
    BY <1>8 DEF ScanEmail
  <2> DEFINE r == [tick[t] EXCEPT
                     !.todo = @ \ {e},
                     !.found = IF processed[e] = "grey" THEN @ \union {e}
                                                        ELSE @]
  <2>2. /\ SetTick(t, r) /\ tick[t].pc = "g_scan"
        /\ UNCHANGED <<bulkFile, loadJob, greyJob, notices>>
    BY <1>8, <2>1 DEF ScanEmail
  <2>3. r.pc = tick[t].pc /\ r.file = tick[t].file /\ r.job = tick[t].job
    BY <1>a DEF TickRecords
  <2> HIDE DEF r
  <2>4. QED
    BY <1>c, <2>2, <2>3, InvocationMoves DEF StatusAt, Snapshots
<1>9. CASE AddGreyJob(t)
  <2>1. PICK j \in GreyJobs :
          /\ greyJob[j].stage = "free"
          /\ SetTick(t, [tick[t] EXCEPT !.pc = "g_find", !.job = j])
          /\ SetJob(j, [FreeJob EXCEPT !.stage = "waiting",
                                       !.file = tick[t].file,
                                       !.emails = tick[t].found])
    BY <1>9 DEF AddGreyJob
  <2> DEFINE f == tick[t].file
             r == [tick[t] EXCEPT !.pc = "g_find", !.job = j]
             q == [FreeJob EXCEPT !.stage = "waiting", !.file = tick[t].file,
                                  !.emails = tick[t].found]
  <2>2. /\ r.pc = "g_find" /\ r.file = f /\ r.job = j
        /\ r.found = tick[t].found
    BY <1>a DEF TickRecords
  <2>3. q.stage = "waiting" /\ q.file = f
    BY DEF FreeJob
  <2>4. tick'[t] = r /\ \A u \in Ticks : u # t => tick'[u] = tick[u]
    BY <1>0, <2>1, TickOf
  <2>5. greyJob'[j] = q /\ \A k \in GreyJobs : k # j => greyJob'[k] = greyJob[k]
    <3>1. SetJob(j, q)
      BY <2>1
    <3> HIDE DEF q
    <3>2. JobType
      BY DEF TypeOK
    <3>3. QED
      BY <3>1, <3>2, JobOf
  <2>6. /\ tick[t].pc = "g_scan" /\ tick[t].found # {} /\ j # NoJob
        /\ tick[t].job = NoJob
        /\ bulkFile[f].status = "ready"
        /\ UNCHANGED <<bulkFile, loadJob, notices>>
    BY <1>9, <1>a, <1>c, JobsAssumption DEF AddGreyJob, StatusAt
  <2>7. \A k \in GreyJobs : Live(k) => greyJob[k].file # f
    <3> SUFFICES ASSUME NEW k \in GreyJobs, Live(k), greyJob[k].file = f
                 PROVE  FALSE
      OBVIOUS
    <3>1. PICK u \in Ticks : tick[u].job = k
      BY <1>0, <2>6 DEF JobOwns, Live
    <3>2. tick[u].file = f /\ tick[u].pc # "idle" /\ u # t
      BY <1>0, <2>6, <3>1, JobsAssumption DEF Announcing
    <3>3. QED
      BY <2>6, <3>2 DEF StatusIsTheLock, OneInvocation
  <2> HIDE DEF f, r, q
  <2>8. InvocationOwns' /\ OneInvocation' /\ LoadOwns'
    <3>1. InvocationOwns'
      BY <1>0, <2>2, <2>4, <2>6 DEF InvocationOwns, StatusAt, Snapshots
    <3>2. OneInvocation'
      BY <2>2, <2>4, <2>6 DEF StatusIsTheLock, OneInvocation, f
    <3>3. LoadOwns'
      BY <2>6 DEF StatusIsTheLock, LoadOwns
    <3>4. QED
      BY <3>1, <3>2, <3>3
  <2>9. Announcing'
    BY <1>0, <2>1, <2>2, <2>3, <2>4, <2>5, <2>6 DEF Announcing
  <2>10. JobOwns'
    BY <1>0, <2>2, <2>3, <2>4, <2>5, <2>6, JobsAssumption DEF JobOwns
  <2>11. OneJob'
    BY <2>3, <2>5, <2>7 DEF StatusIsTheLock, OneJob, Live
  <2>12. ReportThenNotice'
    BY <1>0, <2>2, <2>4, <2>6 DEF ReportThenNotice
  <2>13. QED
    BY <2>8, <2>9, <2>10, <2>11, <2>12 DEF StatusIsTheLock
<1>10. CASE MarkGreyList(t)
  <2> DEFINE f == tick[t].file
             row == [tick[t].row EXCEPT
                       !.status = IF tick[t].found = {} THEN "done"
                                                        ELSE "progress"]
  <2>1. /\ row.status = IF tick[t].found = {} THEN "done" ELSE "progress"
        /\ row.report = FALSE
    BY <1>0, <1>a, <1>10
       DEF MarkGreyList, InvocationOwns, ReportThenNotice, Snapshots,
           StatusAt, Rows
  <2>2. /\ SetTick(t, IdleTick) /\ WriteRow(f, row)
        /\ UNCHANGED <<loadJob, greyJob, notices>>
        /\ tick[t].pc = "g_mark" /\ bulkFile[f].status = "ready"
    BY <1>a, <1>10 DEF MarkGreyList, StatusAt
  <2>3. ASSUME NEW j \in GreyJobs, Live(j), greyJob[j].file = f
        PROVE  row.status = "progress"
    <3>1. PICK u \in Ticks : tick[u].job = j
      BY <1>0, <2>2, <2>3 DEF JobOwns, Live
    <3>2. tick[u].file = f /\ tick[u].pc # "idle"
      BY <1>0, <2>3, <3>1, JobsAssumption DEF Announcing
    <3>3. u = t
      BY <2>2, <3>2 DEF StatusIsTheLock, OneInvocation
    <3>4. QED
      BY <1>0, <2>1, <3>1, <3>3, JobsAssumption DEF Announcing
  <2> HIDE DEF f, row
  <2>4. QED
    BY <1>a, <2>1, <2>2, <2>3, InvocationWrites, IdleTickFields
       DEF Snapshots, f
<1>11. CASE MergeCsv(t)
  <2> DEFINE r == [tick[t] EXCEPT !.pc = "r_find"]
  <2>1. r.pc = "r_find" /\ r.file = tick[t].file /\ r.job = tick[t].job
    BY <1>a DEF TickRecords
  <2>2. /\ SetTick(t, r) /\ tick[t].pc = "r_merge"
        /\ UNCHANGED <<bulkFile, loadJob, greyJob, notices>>
    BY <1>11 DEF MergeCsv
  <2> HIDE DEF r
  <2>3. QED
    BY <1>c, <2>1, <2>2, InvocationMoves DEF StatusAt, Snapshots
<1>12. CASE MergeUnreadable(t)
  BY <1>c, <1>12, InvocationEnds DEF MergeUnreadable
<1>13. CASE MarkComplete(t)
  <2> DEFINE r == [tick[t] EXCEPT !.pc = "r_notify", !.row = AbsentRow]
             row == [status |-> "complete", report |-> TRUE]
  <2>1. r.pc = "r_notify" /\ r.file = tick[t].file /\ r.job = NoJob
    BY <1>a, <1>c, <1>13 DEF MarkComplete, TickRecords
  <2>2. /\ SetTick(t, r) /\ WriteRow(tick[t].file, row)
        /\ UNCHANGED <<loadJob, greyJob, notices>>
        /\ tick[t].pc = "r_complete"
    BY <1>13 DEF MarkComplete
  <2>3. row.status = "complete" /\ row.report = TRUE
    OBVIOUS
  <2> HIDE DEF r, row
  <2>4. QED
    BY <1>a, <1>d, <2>1, <2>2, <2>3, InvocationWrites DEF Snapshots, StatusAt
<1>14. CASE Notify(t)
  <2> DEFINE f == tick[t].file
  <2>1. /\ f \in Files /\ bulkFile[f].status = "complete"
        /\ bulkFile[f].report = TRUE /\ notices[f] = 0
        /\ SetTick(t, IdleTick) /\ tick[t].job = NoJob
        /\ UNCHANGED <<bulkFile, loadJob, greyJob>>
    BY <1>0, <1>a, <1>c, <1>14 DEF Notify, ReportThenNotice, StatusAt, Rows
  <2>2. notices'[f] = 1 /\ \A g \in Files : g # f => notices'[g] = notices[g]
    BY <1>14, <2>1 DEF Notify, TypeOK, RestType
  <2>3. \A u \in Ticks : u # t /\ tick[u].pc # "idle" => tick[u].file # f
    BY <1>14 DEF Notify, StatusIsTheLock, OneInvocation
  <2>4. tick'[t] = IdleTick /\ \A u \in Ticks : u # t => tick'[u] = tick[u]
    BY <1>0, <2>1, TickOf
  <2> HIDE DEF f
  <2>5. InvocationOwns' /\ OneInvocation' /\ LoadOwns'
    BY <2>1, <2>4, IdleTickFields
       DEF StatusIsTheLock, InvocationOwns, OneInvocation, LoadOwns
  <2>6. Announcing'
    BY <1>0, <2>1, <2>4, IdleTickFields DEF Announcing
  <2>7. JobOwns' /\ OneJob'
    BY <1>0, <2>1, <2>4, JobsAssumption
       DEF StatusIsTheLock, JobOwns, OneJob, Live
  <2>8. ReportThenNotice'
    BY <1>0, <2>1, <2>2, <2>3, <2>4, IdleTickFields DEF ReportThenNotice
  <2>9. QED
    BY <2>5, <2>6, <2>7, <2>8 DEF StatusIsTheLock
<1>15. QED
  BY <1>1, <1>2, <1>3, <1>4, <1>5, <1>6, <1>7, <1>8, <1>9, <1>10, <1>11,
     <1>12, <1>13, <1>14 DEF TickStep

-----------------------------------------------------------------------------
(* Steps of a grey job *)

\* The job goes on with its file, or ends, without writing the row.
LEMMA GreyJobMoves ==
  ASSUME TypeOK, StatusIsTheLock, NEW j \in GreyJobs, NEW r,
         SetJob(j, r), UNCHANGED <<bulkFile, loadJob, tick, notices>>,
         \A t \in Ticks : tick[t].job # j,
         r.stage # "waiting",
         r.stage \in {"active", "save"} =>
           /\ r.file = greyJob[j].file /\ Live(j)
           /\ bulkFile[r.file].status = "progress",
         r.stage = "save" => r.row = bulkFile[r.file]
  PROVE  StatusIsTheLock'
<1> USE DEF TypeOK, StatusIsTheLock
<1>1. greyJob'[j] = r /\ \A k \in GreyJobs : k # j => greyJob'[k] = greyJob[k]
  BY JobOf
<1>2. InvocationOwns' /\ OneInvocation' /\ LoadOwns'
  BY DEF InvocationOwns, OneInvocation, LoadOwns
<1>3. Announcing'
  BY <1>1 DEF Announcing
<1>4. JobOwns' /\ OneJob'
  BY <1>1 DEF JobOwns, OneJob, Live
<1>5. ReportThenNotice'
  BY DEF ReportThenNotice
<1>6. QED
  BY <1>2, <1>3, <1>4, <1>5

LEMMA GreyJobStep ==
  ASSUME TypeOK, StatusIsTheLock, NEW j \in GreyJobs,
         JobStep(j) \/ RecheckFails(j)
  PROVE  StatusIsTheLock'
<1> USE DEF fileVars, loadVars, ghosts
<1>0. JobType /\ RowType /\ Announcing /\ JobOwns /\ ReportThenNotice
  BY DEF TypeOK, StatusIsTheLock
<1>a. /\ greyJob[j] \in GreyRecords
      /\ greyJob[j].stage # "free" => greyJob[j].file \in Files
  BY <1>0 DEF JobType
<1>b. greyJob[j].stage # "waiting" => \A t \in Ticks : tick[t].job # j
  BY <1>0, JobsAssumption DEF Announcing
<1>1. CASE StartGreyJob(j)
  <2> DEFINE r == [greyJob[j] EXCEPT !.stage = "active",
                                     !.todo = greyJob[j].emails]
  <2>1. r.stage = "active" /\ r.file = greyJob[j].file
    BY <1>a DEF GreyRecords
  <2>2. /\ SetJob(j, r) /\ greyJob[j].stage = "waiting"
        /\ \A t \in Ticks : tick[t].job # j
        /\ UNCHANGED <<bulkFile, loadJob, tick, notices>>
    BY <1>1 DEF StartGreyJob
  <2> HIDE DEF r
  <2>3. bulkFile[r.file].status = "progress"
    BY <1>0, <2>1, <2>2 DEF JobOwns
  <2>4. QED
    BY <2>1, <2>2, <2>3, GreyJobMoves DEF Live
<1>2. CASE Recheck(j) \/ RecheckFails(j)
  <2>1. PICK e \in Emails : SetJob(j, [greyJob[j] EXCEPT !.todo = @ \ {e}])
    BY <1>a, <1>2 DEF Recheck, RecheckFails, GreyRecords
  <2> DEFINE r == [greyJob[j] EXCEPT !.todo = @ \ {e}]
  <2>2. r.stage = greyJob[j].stage /\ r.file = greyJob[j].file
    BY <1>a DEF GreyRecords
  <2>3. /\ SetJob(j, r) /\ greyJob[j].stage = "active"
        /\ UNCHANGED <<bulkFile, loadJob, tick, notices>>
    BY <1>2, <2>1 DEF Recheck, RecheckFails
  <2> HIDE DEF r
  <2>4. bulkFile[r.file].status = "progress"
    BY <1>0, <2>2, <2>3 DEF JobOwns
  <2>5. QED
    BY <1>b, <2>2, <2>3, <2>4, GreyJobMoves DEF Live
<1>3. CASE FindForDone(j)
  <2> DEFINE r == [greyJob[j] EXCEPT !.stage = "save",
                                     !.row = bulkFile[greyJob[j].file]]
  <2>1. /\ r.stage = "save" /\ r.file = greyJob[j].file
        /\ r.row = bulkFile[greyJob[j].file]
    BY <1>a DEF GreyRecords
  <2>2. /\ SetJob(j, r) /\ greyJob[j].stage = "active"
        /\ UNCHANGED <<bulkFile, loadJob, tick, notices>>
    BY <1>3 DEF FindForDone
  <2> HIDE DEF r
  <2>3. bulkFile[r.file].status = "progress"
    BY <1>0, <2>1, <2>2 DEF JobOwns
  <2>4. QED
    BY <1>b, <2>1, <2>2, <2>3, GreyJobMoves DEF Live
<1>4. CASE SaveDone(j)
  <2> DEFINE f == greyJob[j].file
             r == [greyJob[j] EXCEPT !.stage = "ack", !.row = AbsentRow]
             row == [greyJob[j].row EXCEPT !.status = "done"]
  <2>1. r.stage = "ack"
    BY <1>a DEF GreyRecords
  <2>2. /\ SetJob(j, r) /\ WriteRow(f, row) /\ greyJob[j].stage = "save"
        /\ UNCHANGED <<loadJob, tick, notices>>
    BY <1>4 DEF SaveDone
  <2>3. f \in Files /\ bulkFile[f] \in Rows /\ bulkFile[f].status = "progress"
    BY <1>0, <1>a, <2>2 DEF JobOwns, RowType
  <2>4. row.status = "done" /\ row.report = FALSE
    BY <1>0, <2>2, <2>3 DEF JobOwns, ReportThenNotice, Rows
  <2> HIDE DEF r, row
  <2>5. greyJob'[j] = r /\ \A k \in GreyJobs : k # j => greyJob'[k] = greyJob[k]
    BY <1>0, <2>2, JobOf
  <2>6. bulkFile'[f] = row /\ \A g \in Files : g # f => bulkFile'[g] = bulkFile[g]
    BY <1>0, <2>2, <2>3, RowOf
  <2>7. ASSUME NEW t \in Ticks, tick[t].pc # "idle"
        PROVE  bulkFile'[tick[t].file] = bulkFile[tick[t].file]
    <3>1. tick[t].pc \in Pcs /\ tick[t].file \in Files
      BY <2>7 DEF TypeOK, TickType, TickRecords
    <3>2. StatusAt[tick[t].pc] # "progress"
      BY <2>7, <3>1 DEF StatusAt, Pcs
    <3>3. tick[t].file # f
      BY <2>3, <2>7, <3>2 DEF StatusIsTheLock, InvocationOwns
    <3>4. QED
      BY <2>6, <3>1, <3>3
  <2>8. ASSUME NEW k \in GreyJobs, k # j, Live(k)
        PROVE  bulkFile'[greyJob[k].file] = bulkFile[greyJob[k].file]
    <3>1. greyJob[k].file \in Files
      BY <1>0, <2>8 DEF JobType, Live
    <3>2. greyJob[k].file # f
      BY <2>2, <2>8 DEF StatusIsTheLock, OneJob, Live
    <3>3. QED
      BY <2>6, <3>1, <3>2
  <2> HIDE DEF f
  <2>9. InvocationOwns' /\ OneInvocation'
    BY <2>2, <2>7 DEF StatusIsTheLock, InvocationOwns, OneInvocation
  <2>10. LoadOwns'
    BY <2>2, <2>3, <2>4, <2>6 DEF StatusIsTheLock, LoadOwns, QueuedRow
  <2>11. Announcing'
    BY <1>0, <1>b, <2>2, <2>5 DEF Announcing
  <2>12. JobOwns' /\ OneJob'
    BY <1>0, <2>1, <2>2, <2>5, <2>8 DEF StatusIsTheLock, JobOwns, OneJob, Live
  <2>13. ReportThenNotice'
    BY <1>0, <2>2, <2>3, <2>4, <2>6 DEF ReportThenNotice
  <2>14. QED
    BY <2>9, <2>10, <2>11, <2>12, <2>13 DEF StatusIsTheLock
<1>5. CASE AckGreyJob(j)
  BY <1>b, <1>5, FreeJobType, GreyJobMoves DEF AckGreyJob
<1>6. QED
  BY <1>1, <1>2, <1>3, <1>4, <1>5 DEF JobStep

-----------------------------------------------------------------------------
(* The upload and the load job *)

\* The load job goes on without touching the row.
LEMMA LoadMoves ==
  ASSUME TypeOK, StatusIsTheLock, NEW f \in Files, NEW r,
         SetLoad(f, r), UNCHANGED <<bulkFile, greyJob, tick, notices>>,
         \/ loadJob[f].stage \in {"adding", "waiting", "commit", "status"}
            /\ r.stage \in {"waiting", "commit", "status", "failed"}
         \/ loadJob[f].stage = "ack" /\ r.stage = "done"
  PROVE  StatusIsTheLock'
<1> USE DEF TypeOK, StatusIsTheLock
<1>1. loadJob'[f] = r /\ \A g \in Files : g # f => loadJob'[g] = loadJob[g]
  BY LoadOf
<1>2. LoadOwns'
  BY <1>1 DEF LoadOwns
<1>3. InvocationOwns' /\ OneInvocation' /\ Announcing'
  BY DEF InvocationOwns, OneInvocation, Announcing
<1>4. JobOwns' /\ OneJob' /\ ReportThenNotice'
  BY DEF JobOwns, OneJob, Live, ReportThenNotice
<1>5. QED
  BY <1>2, <1>3, <1>4

\* The row of a file no cron and no grey job knows yet is written.
LEMMA LoadWrites ==
  ASSUME TypeOK, StatusIsTheLock, NEW f \in Files, NEW r, NEW row,
         SetLoad(f, r), WriteRow(f, row), UNCHANGED <<greyJob, tick, notices>>,
         bulkFile[f].status \in {"absent", "queued"},
         row.report = FALSE,
         \/ r.stage = "adding" /\ row = QueuedRow
         \/ r.stage = "ack" /\ row.status = "pending"
  PROVE  StatusIsTheLock'
<1> USE DEF TypeOK, StatusIsTheLock
<1>1. loadJob'[f] = r /\ \A g \in Files : g # f => loadJob'[g] = loadJob[g]
  BY LoadOf
<1>2. bulkFile'[f] = row /\ \A g \in Files : g # f => bulkFile'[g] = bulkFile[g]
  BY RowOf
<1>3. ASSUME NEW t \in Ticks, tick[t].pc # "idle"
      PROVE  bulkFile'[tick[t].file] = bulkFile[tick[t].file]
  <2>1. tick[t].pc \in Pcs /\ tick[t].file \in Files
    BY <1>3 DEF TickType, TickRecords
  <2>2. StatusAt[tick[t].pc] \notin {"absent", "queued"}
    BY <1>3, <2>1 DEF StatusAt, Pcs
  <2>3. tick[t].file # f
    BY <1>3, <2>2 DEF InvocationOwns
  <2>4. QED
    BY <1>2, <2>1, <2>3
<1>4. ASSUME NEW j \in GreyJobs, Live(j)
      PROVE  bulkFile'[greyJob[j].file] = bulkFile[greyJob[j].file]
  <2>1. greyJob[j].file \in Files /\ greyJob[j].file # f
    BY <1>4 DEF JobType, JobOwns, Live
  <2>2. QED
    BY <1>2, <2>1
<1>5. InvocationOwns' /\ OneInvocation' /\ Announcing'
  BY <1>3 DEF InvocationOwns, OneInvocation, Announcing
<1>6. LoadOwns'
  BY <1>1, <1>2 DEF LoadOwns
<1>7. JobOwns' /\ OneJob'
  BY <1>4 DEF JobOwns, OneJob, Live
<1>8. row.status # "complete"
  BY DEF QueuedRow
<1>9. ReportThenNotice'
  BY <1>2, <1>8 DEF ReportThenNotice
<1>10. QED
  BY <1>5, <1>6, <1>7, <1>9

LEMMA UploadAndLoadStep ==
  ASSUME TypeOK, StatusIsTheLock, NEW f \in Files, FileStep(f)
  PROVE  StatusIsTheLock'
<1> USE DEF fileVars, loadVars, ghosts
<1>0. loadJob[f] \in LoadJobs
  BY DEF TypeOK, LoadType
<1>1. CASE Upload(f)
  <2> DEFINE r == [loadJob[f] EXCEPT !.stage = "adding"]
  <2>1. r.stage = "adding" /\ QueuedRow.report = FALSE
    BY <1>0 DEF LoadJobs, QueuedRow
  <2>2. /\ SetLoad(f, r) /\ WriteRow(f, QueuedRow)
        /\ bulkFile[f].status = "absent"
        /\ UNCHANGED <<greyJob, tick, notices>>
    BY <1>1 DEF Upload
  <2> HIDE DEF r
  <2>3. QED
    BY <2>1, <2>2, LoadWrites
<1>2. CASE CsvWritten(f)
  BY <1>2 DEF CsvWritten, StatusIsTheLock, InvocationOwns, OneInvocation,
              LoadOwns, Announcing, JobOwns, OneJob, Live, ReportThenNotice
<1>3. CASE EnqueueLoad(f) \/ LoadUnreadable(f)
  <2>1. PICK s \in {"waiting", "failed"} :
               SetLoad(f, [loadJob[f] EXCEPT !.stage = s])
    BY <1>3 DEF EnqueueLoad, LoadUnreadable
  <2> DEFINE r == [loadJob[f] EXCEPT !.stage = s]
  <2>2. r.stage = s
    BY <1>0 DEF LoadJobs
  <2>3. /\ SetLoad(f, r) /\ loadJob[f].stage \in {"adding", "waiting"}
        /\ UNCHANGED <<bulkFile, greyJob, tick, notices>>
    BY <1>3, <2>1 DEF EnqueueLoad, LoadUnreadable
  <2> HIDE DEF r
  <2>4. QED
    BY <2>2, <2>3, LoadMoves
<1>4. CASE LoadRead(f)
  <2>1. PICK read \in SUBSET Contents[f] :
          SetLoad(f, [loadJob[f] EXCEPT !.stage = "commit", !.read = read])
    BY <1>4 DEF LoadRead
  <2> DEFINE r == [loadJob[f] EXCEPT !.stage = "commit", !.read = read]
  <2>2. r.stage = "commit"
    BY <1>0 DEF LoadJobs
  <2>3. /\ SetLoad(f, r) /\ loadJob[f].stage = "waiting"
        /\ UNCHANGED <<bulkFile, greyJob, tick, notices>>
    BY <1>4, <2>1 DEF LoadRead
  <2> HIDE DEF r
  <2>4. QED
    BY <2>2, <2>3, LoadMoves
<1>5. CASE LoadCommit(f)
  <2> DEFINE r == [loadJob[f] EXCEPT !.stage = "status", !.read = {}]
  <2>1. r.stage = "status"
    BY <1>0 DEF LoadJobs
  <2>2. /\ SetLoad(f, r) /\ loadJob[f].stage = "commit"
        /\ UNCHANGED <<bulkFile, greyJob, tick, notices>>
    BY <1>5 DEF LoadCommit
  <2> HIDE DEF r
  <2>3. QED
    BY <2>1, <2>2, LoadMoves
<1>6. CASE LoadPending(f)
  <2> DEFINE r == [loadJob[f] EXCEPT !.stage = "ack"]
             row == [QueuedRow EXCEPT !.status = "pending"]
  <2>1. r.stage = "ack" /\ row.status = "pending" /\ row.report = FALSE
    BY <1>0 DEF LoadJobs, QueuedRow
  <2>2. /\ SetLoad(f, r) /\ WriteRow(f, row) /\ loadJob[f].stage = "status"
        /\ UNCHANGED <<greyJob, tick, notices>>
    BY <1>6 DEF LoadPending
  <2>3. bulkFile[f].status = "queued"
    BY <2>2 DEF StatusIsTheLock, LoadOwns, QueuedRow
  <2> HIDE DEF r, row
  <2>4. QED
    BY <2>1, <2>2, <2>3, LoadWrites
<1>7. CASE LoadAck(f)
  <2> DEFINE r == [loadJob[f] EXCEPT !.stage = "done"]
  <2>1. r.stage = "done"
    BY <1>0 DEF LoadJobs
  <2>2. /\ SetLoad(f, r) /\ loadJob[f].stage = "ack"
        /\ UNCHANGED <<bulkFile, greyJob, tick, notices>>
    BY <1>7 DEF LoadAck
  <2> HIDE DEF r
  <2>3. QED
    BY <2>1, <2>2, LoadMoves
<1>8. QED
  BY <1>1, <1>2, <1>3, <1>4, <1>5, <1>6, <1>7 DEF FileStep, LoadStep

-----------------------------------------------------------------------------
(* The invariant *)

LEMMA InitLock == Init => StatusIsTheLock
<1> SUFFICES ASSUME Init PROVE StatusIsTheLock
  OBVIOUS
<1>1. /\ \A t \in Ticks : tick[t].pc = "idle" /\ tick[t].job = NoJob
      /\ \A j \in GreyJobs : greyJob[j].stage = "free"
      /\ \A f \in Files : /\ bulkFile[f] = AbsentRow /\ notices[f] = 0
                          /\ loadJob[f].stage = "none"
  BY IdleTickFields, FreeJobType DEF Init
<1>2. QED
  BY <1>1 DEF StatusIsTheLock, InvocationOwns, OneInvocation, LoadOwns,
              Announcing, JobOwns, OneJob, Live, ReportThenNotice, AbsentRow

LEMMA NextLock ==
  ASSUME TypeOK, StatusIsTheLock, Calm, [Next]_vars
  PROVE  StatusIsTheLock'
<1>1. ASSUME UNCHANGED <<bulkFile, loadJob, tick, greyJob, notices>>
      PROVE  StatusIsTheLock'
  BY <1>1 DEF StatusIsTheLock, InvocationOwns, OneInvocation, LoadOwns,
              Announcing, JobOwns, OneJob, Live, ReportThenNotice
<1>2. CASE UNCHANGED vars
  BY <1>1, <1>2 DEF vars
<1>3. CASE \E e \in Emails : ValidateSingle(e) \/ Webhook(e)
  BY <1>1, <1>3 DEF ValidateSingle, Webhook, fileVars, loadVars
<1>4. CASE Fault
  <2>1. "crash" \notin FaultKinds /\ "dberror" \notin FaultKinds
    BY DEF Calm
  <2>2. \/ \E f \in Files : CsvFails(f)
        \/ \E j \in GreyJobs : RecheckFails(j)
    BY <1>4, <2>1 DEF Fault, Suffer, TickFails, LoadFails, GreyJobFails, Crash
  <2>3. QED
    BY <1>1, <2>2, GreyJobStep DEF CsvFails, loadVars
<1>5. QED
  BY <1>2, <1>3, <1>4, UploadAndLoadStep, InvocationStep, GreyJobStep DEF Next

\* The status of a file is its lock: at every moment it names the one actor
\* that may change the file (scheduler.service.ts:47-57, 86-111, 122-144,
\* queue.service.ts:126-128, bulk-file-emails.service.ts:47), as long as the
\* crons do not overlap and no call is lost half-way.
THEOREM LockCorrect ==
  ASSUME Calm
  PROVE  Spec => []StatusIsTheLock
<1>1. TypeOK /\ StatusIsTheLock /\ [Next]_vars => StatusIsTheLock'
  BY NextLock
<1>2. QED
  BY <1>1, InitLock, TypeCorrect, PTL DEF Spec

-----------------------------------------------------------------------------
(* What follows from the lock *)

\* No read-then-write of a whole row undoes another actor's update
\* (bulk-files.service.ts:55-58, queue.service.ts:126-128).
THEOREM NoLostUpdateCorrect ==
  ASSUME Calm
  PROVE  Spec => []NoLostUpdate
<1>1. StatusIsTheLock => NoLostUpdate
  BY DEF StatusIsTheLock, InvocationOwns, JobOwns, LoadOwns, Snapshots,
         NoLostUpdate
<1>2. QED
  BY <1>1, LockCorrect, PTL

\* No two crons and no two jobs work on a file at a time, although nothing
\* but its status keeps them apart (scheduler.service.ts:40, 79, 117).
THEOREM SingleOwnerCorrect ==
  ASSUME Calm
  PROVE  Spec => []SingleOwner
<1>1. ASSUME TypeOK, StatusIsTheLock PROVE SingleOwner
  <2> USE DEF StatusIsTheLock
  <2>1. \A t \in Ticks : Working(t) =>
          /\ tick[t].file \in Files
          /\ bulkFile[tick[t].file].status
               \notin {"absent", "queued", "progress"}
    BY <1>1 DEF TypeOK, TickType, TickRecords, Pcs, Working, InvocationOwns,
           StatusAt
  <2>2. \A t, u \in Ticks :
          Working(t) /\ Working(u) /\ tick[t].file = tick[u].file => t = u
    BY <1>1 DEF OneInvocation, Working
  <2>3. \A j, k \in GreyJobs :
          /\ greyJob[j].stage \notin {"free", "ack"}
          /\ greyJob[k].stage \notin {"free", "ack"}
          /\ greyJob[j].file = greyJob[k].file
          => j = k
    BY <1>1 DEF OneJob, Live, TypeOK, JobType, GreyRecords, JobStages
  <2>4. \A t \in Ticks, j \in GreyJobs :
          ~ (Working(t) /\ greyJob[j].stage \in {"active", "save"}
             /\ tick[t].file = greyJob[j].file)
    BY <1>1, <2>1 DEF JobOwns
  <2>5. \A t \in Ticks :
          Working(t) => loadJob[tick[t].file].stage \in {"ack", "done"}
    BY <1>1, <2>1 DEF LoadOwns, QueuedRow, TypeOK, LoadType, LoadJobs, LoadStages
  <2>6. QED
    BY <2>2, <2>3, <2>4, <2>5 DEF SingleOwner
<1>2. QED
  BY <1>1, LockCorrect, TypeCorrect, PTL

\* The owner of a file is mailed at most once (scheduler.service.ts:149).
THEOREM AtMostOneNoticeCorrect ==
  ASSUME Calm
  PROVE  Spec => []AtMostOneNotice
<1>1. StatusIsTheLock => AtMostOneNotice
  BY DEF StatusIsTheLock, ReportThenNotice, AtMostOneNotice
<1>2. QED
  BY <1>1, LockCorrect, PTL

-----------------------------------------------------------------------------
(* Steps *)

\* An actor moves the row of f one edge on.
Advance(f, row) ==
  /\ WriteRow(f, row)
  /\ <<bulkFile[f].status, row.status>> \in Lifecycle
  /\ row.report <=> (row.status = "complete")
  /\ bulkFile[f].status = "absent" =>
       \A g \in Files : g < f => bulkFile[g].status # "absent"
  /\ UNCHANGED notices

\* The owner of f is told of a report that is there.
Told(f) ==
  /\ bulkFile[f].report
  /\ notices[f] = 0
  /\ notices' = [notices EXCEPT ![f] = 1]
  /\ UNCHANGED bulkFile

\* What a step does to the rows and the mails.
LEMMA RowSteps ==
  ASSUME TypeOK, StatusIsTheLock, [Next]_vars
  PROVE  \/ UNCHANGED <<bulkFile, notices>>
         \/ \E f \in Files, row \in Rows : Advance(f, row)
         \/ \E f \in Files : Told(f)
<1> USE DEF fileVars, loadVars, ghosts
<1> DEFINE Goal == \/ UNCHANGED <<bulkFile, notices>>
                   \/ \E f \in Files, row \in Rows : Advance(f, row)
                   \/ \E f \in Files : Told(f)
<1>0. InvocationOwns /\ LoadOwns /\ JobOwns /\ ReportThenNotice
  BY DEF StatusIsTheLock
<1>a. /\ \A t \in Ticks : tick[t].pc # "idle" =>
           tick[t].file \in Files /\ bulkFile[tick[t].file] \in Rows
      /\ \A j \in GreyJobs : greyJob[j].stage # "free" =>
           greyJob[j].file \in Files /\ bulkFile[greyJob[j].file] \in Rows
      /\ \A f \in Files : bulkFile[f] \in Rows
  BY DEF TypeOK, TickType, JobType, RowType
\* A fresh row with a status other than COMPLETE carries no report.
<1>b. ASSUME NEW f \in Files, NEW s \in Statuses \ {"absent", "complete"},
             bulkFile[f].status \notin {"absent", "complete"},
             <<bulkFile[f].status, s>> \in Lifecycle, UNCHANGED notices,
             WriteRow(f, [bulkFile[f] EXCEPT !.status = s])
      PROVE  Goal
  <2> DEFINE row == [bulkFile[f] EXCEPT !.status = s]
  <2>1. row \in Rows /\ row.status = s /\ row.report = FALSE
    BY <1>0, <1>a, <1>b DEF Rows, ReportThenNotice
  <2>2. Advance(f, row)
    BY <1>b, <2>1 DEF Advance
  <2>3. QED
    BY <2>1, <2>2
<1>1. ASSUME NEW f \in Files, FileStep(f) PROVE Goal
  <2>1. CASE Upload(f)
    <3>1. QueuedRow \in Rows /\ Advance(f, QueuedRow)
      BY <2>1, RowConstants DEF Upload, Advance, QueuedRow, Lifecycle
    <3>2. QED
      BY <3>1
  <2>2. CASE LoadPending(f)
    <3>1. bulkFile[f] = QueuedRow
      BY <1>0, <2>2 DEF LoadPending, LoadOwns
    <3>2. QED
      BY <1>b, <2>2, <3>1 DEF LoadPending, Lifecycle, Statuses, QueuedRow
  <2>3. CASE ~ (Upload(f) \/ LoadPending(f))
    BY <1>1, <2>3 DEF FileStep, LoadStep, CsvWritten, EnqueueLoad, LoadRead,
                      LoadUnreadable, LoadCommit, LoadAck
  <2>4. QED
    BY <2>1, <2>2, <2>3
<1>2. ASSUME NEW t \in Ticks, Start(t) \/ TickStep(t) PROVE Goal
  <2> DEFINE f == tick[t].file
  <2>1. CASE MarkProcessing(t)
    <3>1. /\ f \in Files /\ bulkFile[f].status = "pending"
          /\ tick[t].row = bulkFile[f]
      BY <1>0, <1>a, <2>1
         DEF MarkProcessing, InvocationOwns, Snapshots, StatusAt
    <3>2. QED
      BY <1>b, <2>1, <3>1 DEF MarkProcessing, Lifecycle, Statuses
  <2>2. CASE MarkReady(t)
    <3>1. /\ f \in Files /\ bulkFile[f].status = "processing"
          /\ tick[t].row = bulkFile[f]
      BY <1>0, <1>a, <2>2 DEF MarkReady, InvocationOwns, Snapshots, StatusAt
    <3>2. QED
      BY <1>b, <2>2, <3>1 DEF MarkReady, Lifecycle, Statuses
  <2>3. CASE MarkGreyList(t)
    <3>1. /\ f \in Files /\ bulkFile[f].status = "ready"
          /\ tick[t].row = bulkFile[f]
      BY <1>0, <1>a, <2>3 DEF MarkGreyList, InvocationOwns, Snapshots, StatusAt
    <3>2. PICK s \in {"done", "progress"} :
                 WriteRow(f, [bulkFile[f] EXCEPT !.status = s])
      BY <2>3, <3>1 DEF MarkGreyList
    <3>3. QED
      BY <1>b, <2>3, <3>1, <3>2 DEF MarkGreyList, Lifecycle, Statuses
  <2>4. CASE MarkComplete(t)
    <3> DEFINE row == [status |-> "complete", report |-> TRUE]
    <3>1. f \in Files /\ bulkFile[f].status = "done"
      BY <1>0, <1>a, <2>4 DEF MarkComplete, InvocationOwns, StatusAt
    <3>2. row \in Rows /\ Advance(f, row)
      BY <2>4, <3>1 DEF MarkComplete, Advance, Lifecycle, Rows, Statuses
    <3>3. QED
      BY <3>1, <3>2
  <2>5. CASE Notify(t)
    <3>1. /\ f \in Files /\ bulkFile[f].report /\ notices[f] = 0
      BY <1>0, <1>a, <2>5
         DEF Notify, InvocationOwns, StatusAt, ReportThenNotice
    <3>2. Told(f)
      BY <2>5, <3>1 DEF Notify, Told, TypeOK, RestType
    <3>3. QED
      BY <3>1, <3>2
  <2>6. CASE ~ (MarkProcessing(t) \/ MarkReady(t) \/ MarkGreyList(t)
                \/ MarkComplete(t) \/ Notify(t))
    BY <1>2, <2>6 DEF Start, PickPending, PickReady, PickDone, Pick, TickStep,
         FindRow, ListEmails, ValidateEmail, ListForGrey, ScanEmail,
         AddGreyJob, MergeCsv, MergeUnreadable
  <2>7. QED
    BY <2>1, <2>2, <2>3, <2>4, <2>5, <2>6
<1>3. ASSUME NEW j \in GreyJobs, JobStep(j) PROVE Goal
  <2> DEFINE f == greyJob[j].file
  <2>1. CASE SaveDone(j)
    <3>1. /\ f \in Files /\ bulkFile[f].status = "progress"
          /\ greyJob[j].row = bulkFile[f]
      BY <1>0, <1>a, <2>1 DEF SaveDone, JobOwns
    <3>2. QED
      BY <1>b, <2>1, <3>1 DEF SaveDone, Lifecycle, Statuses
  <2>2. CASE ~ SaveDone(j)
    BY <1>3, <2>2 DEF JobStep, StartGreyJob, Recheck, FindForDone, AckGreyJob
  <2>3. QED
    BY <2>1, <2>2
<1>4. CASE (\E e \in Emails : ValidateSingle(e) \/ Webhook(e)) \/ Fault
  BY <1>4 DEF ValidateSingle, Webhook, Fault, TickFails, LoadFails, CsvFails,
              GreyJobFails, RecheckFails, Crash
<1>5. CASE UNCHANGED vars
  BY <1>5 DEF vars
<1>6. QED
  BY <1>1, <1>2, <1>3, <1>4, <1>5 DEF Next

\* The status of a file only moves forward, one edge of the enum's order at a
\* time (bulk-file.entity.ts:9-18).
THEOREM StatusMovesForwardCorrect ==
  ASSUME Calm
  PROVE  Spec => StatusMovesForward
<1> DEFINE A == \A f \in Files :
                  bulkFile'[f].status # bulkFile[f].status =>
                    <<bulkFile[f].status, bulkFile'[f].status>> \in Lifecycle
<1>1. ASSUME TypeOK, StatusIsTheLock, [Next]_vars PROVE A
  <2>1. CASE \E f \in Files, row \in Rows : Advance(f, row)
    <3>1. PICK f \in Files, row \in Rows : Advance(f, row)
      BY <2>1
    <3>2. bulkFile'[f] = row /\ \A g \in Files : g # f => bulkFile'[g] = bulkFile[g]
      BY <1>1, <3>1, RowOf DEF Advance, TypeOK
    <3>3. QED
      BY <3>1, <3>2 DEF Advance
  <2>2. QED
    BY <1>1, <2>1, RowSteps DEF Told
<1>2. TypeOK /\ StatusIsTheLock /\ [Next]_vars => [A]_vars
  BY <1>1
<1>3. QED
  BY <1>2, LockCorrect, TypeCorrect, PTL DEF Spec, StatusMovesForward

-----------------------------------------------------------------------------
(* The promise to the uploader *)

Accepted == {f \in Files : bulkFile[f].status # "absent"}
Reported == {f \in Files : bulkFile[f].report}

LEMMA ContractStep ==
  ASSUME TypeOK, StatusIsTheLock, [Next]_vars
  PROVE  [Contract!Next]_Contract!vars
<1>0. \A f \in Files : bulkFile[f].report <=> (bulkFile[f].status = "complete")
  BY DEF StatusIsTheLock, ReportThenNotice
<1>1. CASE UNCHANGED <<bulkFile, notices>>
  BY <1>1 DEF Contract!vars
<1>2. ASSUME NEW f \in Files, NEW row \in Rows, Advance(f, row)
      PROVE  [Contract!Next]_Contract!vars
  <2>1. bulkFile'[f] = row /\ \A g \in Files : g # f => bulkFile'[g] = bulkFile[g]
    BY <1>2, RowOf DEF Advance, TypeOK
  <2>2. /\ <<bulkFile[f].status, row.status>> \in Lifecycle
        /\ row.report <=> (row.status = "complete")
        /\ UNCHANGED notices
    BY <1>2 DEF Advance
  <2>3. row.status # "absent"
    BY <2>2 DEF Lifecycle
  <2>4. CASE bulkFile[f].status = "absent"
    <3>1. row.status # "complete" /\ bulkFile[f].status # "complete"
      BY <2>2, <2>4 DEF Lifecycle
    <3>2. Accepted' = Accepted \union {f} /\ f \notin Accepted
      BY <2>1, <2>3, <2>4 DEF Accepted
    <3>3. Reported' = Reported
      BY <1>0, <2>1, <2>2, <3>1 DEF Reported
    <3>4. \A g \in Files : g < f => g \in Accepted
      BY <1>2, <2>4 DEF Advance, Accepted
    <3>5. Contract!Accept(f)
      BY <2>2, <3>2, <3>3, <3>4 DEF Contract!Accept, Accepted, Reported
    <3>6. QED
      BY <3>5 DEF Contract!Next
  <2>5. CASE bulkFile[f].status # "absent" /\ row.status = "complete"
    <3>1. bulkFile[f].status = "done"
      BY <2>2, <2>5 DEF Lifecycle
    <3>2. Accepted' = Accepted
      BY <2>1, <2>3, <2>5 DEF Accepted
    <3>3. /\ Reported' = Reported \union {f}
          /\ f \in Accepted \ Reported
      BY <1>0, <2>1, <2>2, <2>5, <3>1 DEF Reported, Accepted
    <3>4. Contract!Report(f)
      BY <2>2, <3>2, <3>3 DEF Contract!Report, Accepted, Reported
    <3>5. QED
      BY <3>4 DEF Contract!Next
  <2>6. CASE bulkFile[f].status # "absent" /\ row.status # "complete"
    <3>1. bulkFile[f].status # "complete"
      BY <2>2 DEF Lifecycle
    <3>2. Accepted' = Accepted
      BY <2>1, <2>3, <2>6 DEF Accepted
    <3>3. Reported' = Reported
      BY <1>0, <2>1, <2>2, <2>6, <3>1 DEF Reported
    <3>4. QED
      BY <2>2, <3>2, <3>3 DEF Contract!vars, Accepted, Reported
  <2>7. QED
    BY <2>4, <2>5, <2>6
<1>3. ASSUME NEW f \in Files, Told(f)
      PROVE  [Contract!Next]_Contract!vars
  <2>1. Contract!Tell(f)
    BY <1>3 DEF Told, Contract!Tell
  <2>2. QED
    BY <2>1 DEF Contract!Next
<1>4. QED
  BY <1>1, <1>2, <1>3, RowSteps

\* What the uploader is promised: accepted in order, reported for good, told
\* once and not before the report (bulk-files.controller.ts:75-98,
\* scheduler.service.ts:134-149).
THEOREM ContractImplemented ==
  ASSUME Calm
  PROVE  Spec => ImplementsContract
<1>1. Init => Contract!Init
  <2> SUFFICES ASSUME Init PROVE Contract!Init
    OBVIOUS
  <2>1. \A f \in Files :
          bulkFile[f].status = "absent" /\ bulkFile[f].report = FALSE
    BY DEF Init, AbsentRow
  <2>2. QED
    BY <2>1 DEF Init, Contract!Init
<1>2. TypeOK /\ StatusIsTheLock /\ [Next]_vars => [Contract!Next]_Contract!vars
  BY ContractStep
<1>3. QED
  BY <1>1, <1>2, LockCorrect, TypeCorrect, PTL
     DEF Spec, ImplementsContract, Contract!Spec
=============================================================================
