--------------------------- MODULE BulkFilesProofs ---------------------------
(***************************************************************************)
(* Proofs about BulkFiles, for any files, emails, invocations and jobs.    *)
(***************************************************************************)
EXTENDS BulkFilesProperties, TLAPS

-----------------------------------------------------------------------------
(* Types *)

LEMMA RowWritten ==
  ASSUME RowType, \E f \in Files, r \in Rows : WriteRow(f, r)
  PROVE  RowType'
BY DEF RowType, WriteRow

LEMMA LoadSet ==
  ASSUME LoadType, \E f \in Files, r \in LoadJobs : SetLoad(f, r)
  PROVE  LoadType'
BY DEF LoadType, SetLoad

LEMMA TickSet ==
  ASSUME TickType,
         \E t \in Ticks, r \in TickRecords :
           SetTick(t, r) /\ (r.pc # "idle" => r.file \in Files)
  PROVE  TickType'
BY DEF TickType, SetTick

LEMMA JobSet ==
  ASSUME JobType,
         \E j \in GreyJobs, r \in GreyRecords :
           SetJob(j, r) /\ (r.stage # "free" => r.file \in Files)
  PROVE  JobType'
BY DEF JobType, SetJob

LEMMA IdleTickType == IdleTick \in TickRecords /\ IdleTick.pc = "idle"
BY DEF IdleTick, TickRecords, Pcs, Rows, AbsentRow, Statuses

LEMMA FreeJobType == FreeJob \in GreyRecords /\ FreeJob.stage = "free"
BY DEF FreeJob, GreyRecords, JobStages, Rows, AbsentRow, Statuses

LEMMA RowConstants ==
  /\ AbsentRow \in Rows
  /\ QueuedRow \in Rows
  /\ \A r \in Rows, s \in Statuses : [r EXCEPT !.status = s] \in Rows
BY DEF AbsentRow, QueuedRow, Rows, Statuses

\* The load job and the upload.
LEMMA FileStepType ==
  ASSUME TypeOK, NEW f \in Files, FileStep(f)
  PROVE  TypeOK'
<1> USE DEF TypeOK, fileVars, loadVars, ghosts
<1>0. loadJob[f] \in LoadJobs
  BY DEF LoadType
<1>1. CASE Upload(f)
  <2>1. \E r \in LoadJobs : SetLoad(f, r)
    BY <1>0, <1>1, ContentsAssumption DEF Upload, LoadJobs, LoadStages
  <2>2. \E r \in Rows : WriteRow(f, r)
    BY <1>1, RowConstants DEF Upload, Statuses
  <2>3. TickType' /\ JobType' /\ RestType'
    BY <1>1 DEF Upload, TickType, JobType, RestType, CsvStates
  <2>4. QED
    BY <2>1, <2>2, <2>3, LoadSet, RowWritten
<1>2. CASE CsvWritten(f)
  <2>1. RowType' /\ LoadType' /\ TickType' /\ JobType' /\ RestType'
    BY <1>2 DEF CsvWritten, RowType, LoadType, TickType, JobType, RestType, CsvStates
  <2>2. QED
    BY <2>1
<1>3. CASE EnqueueLoad(f)
  <2>1. \E r \in LoadJobs : SetLoad(f, r)
    BY <1>0, <1>3, ContentsAssumption DEF EnqueueLoad, LoadJobs, LoadStages
  <2>2. RowType' /\ TickType' /\ JobType' /\ RestType'
    BY <1>3 DEF EnqueueLoad, RowType, TickType, JobType, RestType
  <2>3. QED
    BY <2>1, <2>2, LoadSet
<1>4. CASE LoadRead(f)
  <2>1. \E r \in LoadJobs : SetLoad(f, r)
    BY <1>0, <1>4, ContentsAssumption DEF LoadRead, LoadJobs, LoadStages
  <2>2. RowType' /\ TickType' /\ JobType' /\ RestType'
    BY <1>4 DEF LoadRead, RowType, TickType, JobType, RestType
  <2>3. QED
    BY <2>1, <2>2, LoadSet
<1>5. CASE LoadUnreadable(f)
  <2>1. \E r \in LoadJobs : SetLoad(f, r)
    BY <1>0, <1>5, ContentsAssumption DEF LoadUnreadable, LoadJobs, LoadStages
  <2>2. RowType' /\ TickType' /\ JobType' /\ RestType'
    BY <1>5 DEF LoadUnreadable, RowType, TickType, JobType, RestType
  <2>3. QED
    BY <2>1, <2>2, LoadSet
<1>6. CASE LoadCommit(f)
  <2>1. \E r \in LoadJobs : SetLoad(f, r)
    BY <1>0, <1>6, ContentsAssumption DEF LoadCommit, LoadJobs, LoadStages
  <2>2. RowType' /\ TickType' /\ JobType' /\ RestType'
    BY <1>6, <1>0 DEF LoadCommit, RowType, TickType, JobType, RestType, LoadType, LoadJobs
  <2>3. QED
    BY <2>1, <2>2, LoadSet
<1>7. CASE LoadPending(f)
  <2>1. \E r \in LoadJobs : SetLoad(f, r)
    BY <1>0, <1>7, ContentsAssumption DEF LoadPending, LoadJobs, LoadStages
  <2>2. \E r \in Rows : WriteRow(f, r)
    BY <1>7, RowConstants DEF LoadPending, Statuses
  <2>3. TickType' /\ JobType' /\ RestType'
    BY <1>7 DEF LoadPending, TickType, JobType, RestType
  <2>4. QED
    BY <2>1, <2>2, <2>3, LoadSet, RowWritten
<1>8. CASE LoadAck(f)
  <2>1. \E r \in LoadJobs : SetLoad(f, r)
    BY <1>0, <1>8, ContentsAssumption DEF LoadAck, LoadJobs, LoadStages
  <2>2. RowType' /\ TickType' /\ JobType' /\ RestType'
    BY <1>8 DEF LoadAck, RowType, TickType, JobType, RestType
  <2>3. QED
    BY <2>1, <2>2, LoadSet
<1>9. QED
  BY <1>1, <1>2, <1>3, <1>4, <1>5, <1>6, <1>7, <1>8 DEF FileStep, LoadStep

\* Starting a cron and every step of its invocation.
LEMMA TickStepType ==
  ASSUME TypeOK, NEW t \in Ticks, Start(t) \/ TickStep(t)
  PROVE  TypeOK'
<1> USE DEF TypeOK, fileVars, loadVars, ghosts
<1>0. /\ tick[t] \in TickRecords
      /\ tick[t].pc # "idle" => tick[t].file \in Files
  BY DEF TickType
<1>1. CASE Start(t)
  <2>1. PICK f \in Files, p \in Pcs :
               SetTick(t, [IdleTick EXCEPT !.pc = p, !.file = f])
    BY <1>1, SubsetsAssumption
       DEF Start, PickPending, PickReady, PickDone, Pick, Pcs
  <2> DEFINE r == [IdleTick EXCEPT !.pc = p, !.file = f]
  <2>a. r \in TickRecords /\ r.file \in Files
    BY IdleTickType DEF TickRecords
  <2>b. SetTick(t, r)
    BY <2>1
  <2> HIDE DEF r
  <2>2. RowType' /\ LoadType' /\ JobType' /\ RestType'
    BY <1>1 DEF Start, PickPending, PickReady, PickDone, Pick, RowType,
                LoadType, JobType, RestType
  <2>3. QED
    BY <2>a, <2>b, <2>2, TickSet
<1>2. CASE FindRow(t)
  <2>1. /\ tick[t].file \in Files /\ bulkFile[tick[t].file] \in Rows
        /\ AfterFind[tick[t].pc] \in Pcs
    BY <1>0, <1>2 DEF FindRow, RowType, AfterFind, Pcs
  <2> DEFINE r == [tick[t] EXCEPT !.pc = AfterFind[tick[t].pc],
                  !.row = bulkFile[tick[t].file]]
  <2>2. r \in TickRecords /\ r.file \in Files
    BY <1>0, <1>2, <2>1, RowConstants DEF FindRow, TickRecords, Pcs
  <2>3. SetTick(t, r)
    BY <1>0, <1>2, <2>1 DEF FindRow
  <2>4. RowType' /\ LoadType' /\ JobType' /\ RestType'
    BY <1>0, <1>2 DEF FindRow, RowType, LoadType, JobType, RestType
  <2> HIDE DEF r
  <2>5. QED
    BY <2>2, <2>3, <2>4, TickSet
<1>3. CASE MarkProcessing(t)
  <2> DEFINE r == [tick[t] EXCEPT !.pc = "v_list", !.row = AbsentRow]
  <2>1. r \in TickRecords /\ r.file \in Files
    BY <1>0, <1>3, RowConstants DEF MarkProcessing, TickRecords, Pcs
  <2>2. SetTick(t, r)
    BY <1>0, <1>3 DEF MarkProcessing
  <2> DEFINE row == [tick[t].row EXCEPT !.status = "processing"]
  <2>3. row \in Rows /\ tick[t].file \in Files
    BY <1>0, <1>3 DEF MarkProcessing, TickRecords, Rows, Statuses
  <2>4. WriteRow(tick[t].file, row)
    BY <1>0, <1>3 DEF MarkProcessing
  <2>5. LoadType' /\ JobType' /\ RestType'
    BY <1>0, <1>3 DEF MarkProcessing, LoadType, JobType, RestType
  <2> HIDE DEF r, row
  <2>6. QED
    BY <2>1, <2>2, <2>3, <2>4, <2>5, TickSet, RowWritten
<1>4. CASE ListEmails(t)
  <2>1. tick[t].file \in Files /\ fileEmails[tick[t].file] \in SUBSET Emails
    BY <1>0, <1>4 DEF ListEmails, RestType
  <2> DEFINE r == [tick[t] EXCEPT
                  !.pc = "v_run",
                  !.todo = fileEmails[tick[t].file] \ (NoMx \union Outlook)]
  <2>2. r \in TickRecords /\ r.file \in Files
    BY <1>0, <1>4, <2>1, RowConstants DEF ListEmails, TickRecords, Pcs
  <2>3. SetTick(t, r)
    BY <1>0, <1>4, <2>1 DEF ListEmails
  <2>4. RowType' /\ LoadType' /\ JobType' /\ RestType'
    BY <1>0, <1>4 DEF ListEmails, RowType, LoadType, JobType, RestType
  <2> HIDE DEF r
  <2>5. QED
    BY <2>2, <2>3, <2>4, TickSet
<1>5. CASE ValidateEmail(t)
  <2>1. PICK e \in Emails :
          /\ SetTick(t, [tick[t] EXCEPT !.todo = @ \ {e}])
          /\ tick[t].file \in Files
    BY <1>0, <1>5 DEF ValidateEmail, TickRecords
  <2> DEFINE r == [tick[t] EXCEPT !.todo = @ \ {e}]
  <2>2. r \in TickRecords /\ r.file \in Files
    BY <1>0, <2>1, RowConstants DEF TickRecords, Pcs
  <2>3. SetTick(t, r)
    BY <1>0, <2>1
  <2>4. RowType' /\ LoadType' /\ JobType' /\ RestType'
    BY <1>0, <1>5 DEF ValidateEmail, RowType, LoadType, JobType, RestType, SaveProcessed,
                       Verdicts, TickRecords
  <2> HIDE DEF r
  <2>5. QED
    BY <2>2, <2>3, <2>4, TickSet
<1>6. CASE MarkReady(t)
  <2>1. SetTick(t, IdleTick)
    BY <1>6 DEF MarkReady
  <2> DEFINE row == [tick[t].row EXCEPT !.status = "ready"]
  <2>2. row \in Rows /\ tick[t].file \in Files
    BY <1>0, <1>6 DEF MarkReady, TickRecords, Rows, Statuses
  <2>3. WriteRow(tick[t].file, row)
    BY <1>0, <1>6 DEF MarkReady
  <2>4. LoadType' /\ JobType' /\ RestType'
    BY <1>0, <1>6 DEF MarkReady, LoadType, JobType, RestType
  <2> HIDE DEF row
  <2>5. QED
    BY <2>1, <2>2, <2>3, <2>4, TickSet, IdleTickType, RowWritten
<1>7. CASE ListForGrey(t)
  <2>1. tick[t].file \in Files /\ fileEmails[tick[t].file] \in SUBSET Emails
    BY <1>0, <1>7 DEF ListForGrey, RestType
  <2> DEFINE r == [tick[t] EXCEPT !.pc = "g_scan", !.todo = fileEmails[tick[t].file]]
  <2>2. r \in TickRecords /\ r.file \in Files
    BY <1>0, <1>7, <2>1, RowConstants DEF ListForGrey, TickRecords, Pcs
  <2>3. SetTick(t, r)
    BY <1>0, <1>7, <2>1 DEF ListForGrey
  <2>4. RowType' /\ LoadType' /\ JobType' /\ RestType'
    BY <1>0, <1>7 DEF ListForGrey, RowType, LoadType, JobType, RestType
  <2> HIDE DEF r
  <2>5. QED
    BY <2>2, <2>3, <2>4, TickSet
<1>8. CASE ScanEmail(t)
  <2>1. PICK e \in tick[t].todo :
          SetTick(t, [tick[t] EXCEPT
                        !.todo = @ \ {e},
                        !.found = IF processed[e] = "grey" THEN @ \union {e}
                                                           ELSE @])
    BY <1>8 DEF ScanEmail
  <2> DEFINE F == IF processed[e] = "grey" THEN tick[t].found \union {e}
                                           ELSE tick[t].found
             r == [tick[t] EXCEPT !.todo = tick[t].todo \ {e}, !.found = F]
  <2>a. /\ tick[t].file \in Files /\ e \in Emails
        /\ tick[t].found \in SUBSET Emails /\ tick[t].todo \in SUBSET Emails
    BY <1>0, <1>8 DEF ScanEmail, TickRecords
  <2>b. F \in SUBSET Emails
    BY <2>a
  <2>3. SetTick(t, r)
    BY <1>0, <2>1 DEF TickRecords
  <2> HIDE DEF F
  <2>2. r \in TickRecords /\ r.file \in Files
    BY <1>0, <2>a, <2>b DEF TickRecords
  <2>4. RowType' /\ LoadType' /\ JobType' /\ RestType'
    BY <1>0, <1>8 DEF ScanEmail, RowType, LoadType, JobType, RestType
  <2> HIDE DEF r
  <2>5. QED
    BY <2>2, <2>3, <2>4, TickSet
<1>9. CASE AddGreyJob(t)
  <2>1. PICK j \in GreyJobs :
          /\ SetTick(t, [tick[t] EXCEPT !.pc = "g_find", !.job = j])
          /\ SetJob(j, [FreeJob EXCEPT !.stage = "waiting",
                                      !.file = tick[t].file,
                                      !.emails = tick[t].found])
          /\ tick[t].file \in Files
    BY <1>0, <1>9 DEF AddGreyJob
  <2> DEFINE r == [tick[t] EXCEPT !.pc = "g_find", !.job = j]
  <2>2. r \in TickRecords /\ r.file \in Files
    BY <1>0, <2>1, RowConstants DEF TickRecords, Pcs
  <2>3. SetTick(t, r)
    BY <1>0, <2>1
  <2> DEFINE q == [FreeJob EXCEPT !.stage = "waiting", !.file = tick[t].file,
                  !.emails = tick[t].found]
  <2>4. q \in GreyRecords /\ q.file \in Files
    BY <1>0, <2>1, FreeJobType DEF TickRecords, GreyRecords, JobStages
  <2>5. SetJob(j, q)
    BY <1>0, <2>1
  <2>6. RowType' /\ LoadType' /\ RestType'
    BY <1>0, <1>9 DEF AddGreyJob, RowType, LoadType, RestType
  <2> HIDE DEF r, q
  <2>7. QED
    BY <2>2, <2>3, <2>4, <2>5, <2>6, TickSet, JobSet
<1>10. CASE MarkGreyList(t)
  <2>1. SetTick(t, IdleTick)
    BY <1>10 DEF MarkGreyList
  <2> DEFINE row == [tick[t].row EXCEPT
                     !.status = IF tick[t].found = {} THEN "done"
                                                      ELSE "progress"]
  <2>2. row \in Rows /\ tick[t].file \in Files
    BY <1>0, <1>10 DEF MarkGreyList, TickRecords, Rows, Statuses
  <2>3. WriteRow(tick[t].file, row)
    BY <1>0, <1>10 DEF MarkGreyList
  <2>4. LoadType' /\ JobType' /\ RestType'
    BY <1>0, <1>10 DEF MarkGreyList, LoadType, JobType, RestType
  <2> HIDE DEF row
  <2>5. QED
    BY <2>1, <2>2, <2>3, <2>4, TickSet, IdleTickType, RowWritten
<1>11. CASE MergeCsv(t)
  <2> DEFINE r == [tick[t] EXCEPT !.pc = "r_find"]
  <2>1. r \in TickRecords /\ r.file \in Files
    BY <1>0, <1>11, RowConstants DEF MergeCsv, TickRecords, Pcs
  <2>2. SetTick(t, r)
    BY <1>0, <1>11 DEF MergeCsv
  <2>3. RowType' /\ LoadType' /\ JobType' /\ RestType'
    BY <1>0, <1>11 DEF MergeCsv, RowType, LoadType, JobType, RestType
  <2> HIDE DEF r
  <2>4. QED
    BY <2>1, <2>2, <2>3, TickSet
<1>12. CASE MergeUnreadable(t)
  <2>1. SetTick(t, IdleTick)
    BY <1>12 DEF MergeUnreadable
  <2>2. RowType' /\ LoadType' /\ JobType' /\ RestType'
    BY <1>0, <1>12 DEF MergeUnreadable, RowType, LoadType, JobType, RestType
  <2>3. QED
    BY <2>1, <2>2, TickSet, IdleTickType
<1>13. CASE MarkComplete(t)
  <2> DEFINE r == [tick[t] EXCEPT !.pc = "r_notify", !.row = AbsentRow]
  <2>1. r \in TickRecords /\ r.file \in Files
    BY <1>0, <1>13, RowConstants DEF MarkComplete, TickRecords, Pcs
  <2>2. SetTick(t, r)
    BY <1>0, <1>13 DEF MarkComplete
  <2> DEFINE row == [status |-> "complete", report |-> TRUE]
  <2>3. row \in Rows /\ tick[t].file \in Files
    BY <1>0, <1>13 DEF MarkComplete, TickRecords, Rows, Statuses
  <2>4. WriteRow(tick[t].file, row)
    BY <1>0, <1>13 DEF MarkComplete
  <2>5. LoadType' /\ JobType' /\ RestType'
    BY <1>0, <1>13 DEF MarkComplete, LoadType, JobType, RestType
  <2> HIDE DEF r, row
  <2>6. QED
    BY <2>1, <2>2, <2>3, <2>4, <2>5, TickSet, RowWritten
<1>14. CASE Notify(t)
  <2>1. SetTick(t, IdleTick)
    BY <1>14 DEF Notify
  <2>2. RowType' /\ LoadType' /\ JobType' /\ RestType'
    BY <1>0, <1>14 DEF Notify, RowType, LoadType, JobType, RestType
  <2>3. QED
    BY <2>1, <2>2, TickSet, IdleTickType
<1>15. QED
  BY <1>1, <1>2, <1>3, <1>4, <1>5, <1>6, <1>7, <1>8, <1>9, <1>10, <1>11, <1>12, <1>13, <1>14 DEF TickStep

\* The steps of a grey job.
LEMMA JobStepType ==
  ASSUME TypeOK, NEW j \in GreyJobs, JobStep(j)
  PROVE  TypeOK'
<1> USE DEF TypeOK, fileVars, loadVars, ghosts
<1>0. /\ greyJob[j] \in GreyRecords
      /\ greyJob[j].stage # "free" => greyJob[j].file \in Files
  BY DEF JobType
<1>1. CASE StartGreyJob(j)
  <2> DEFINE r == [greyJob[j] EXCEPT !.stage = "active", !.todo = greyJob[j].emails]
  <2>1. r \in GreyRecords /\ r.file \in Files
    BY <1>0, <1>1, RowConstants DEF StartGreyJob, GreyRecords, JobStages
  <2>2. SetJob(j, r)
    BY <1>0, <1>1 DEF StartGreyJob
  <2>3. RowType' /\ LoadType' /\ TickType' /\ RestType'
    BY <1>1 DEF StartGreyJob, RowType, LoadType, TickType, RestType
  <2> HIDE DEF r
  <2>4. QED
    BY <2>1, <2>2, <2>3, JobSet
<1>2. CASE Recheck(j)
  <2>1. PICK e \in Emails :
          /\ SetJob(j, [greyJob[j] EXCEPT !.todo = @ \ {e}])
          /\ greyJob[j].file \in Files
    BY <1>0, <1>2 DEF Recheck, GreyRecords
  <2> DEFINE r == [greyJob[j] EXCEPT !.todo = @ \ {e}]
  <2>2. r \in GreyRecords /\ r.file \in Files
    BY <1>0, <2>1, RowConstants DEF GreyRecords, JobStages
  <2>3. SetJob(j, r)
    BY <1>0, <2>1
  <2>4. RowType' /\ LoadType' /\ TickType' /\ RestType'
    BY <1>2 DEF Recheck, RowType, LoadType, TickType, RestType, Verdicts
  <2> HIDE DEF r
  <2>5. QED
    BY <2>2, <2>3, <2>4, JobSet
<1>3. CASE FindForDone(j)
  <2>1. greyJob[j].file \in Files /\ bulkFile[greyJob[j].file] \in Rows
    BY <1>0, <1>3 DEF FindForDone, RowType
  <2> DEFINE r == [greyJob[j] EXCEPT !.stage = "save",
                  !.row = bulkFile[greyJob[j].file]]
  <2>2. r \in GreyRecords /\ r.file \in Files
    BY <1>0, <1>3, <2>1, RowConstants DEF FindForDone, GreyRecords, JobStages
  <2>3. SetJob(j, r)
    BY <1>0, <1>3, <2>1 DEF FindForDone
  <2>4. RowType' /\ LoadType' /\ TickType' /\ RestType'
    BY <1>3 DEF FindForDone, RowType, LoadType, TickType, RestType
  <2> HIDE DEF r
  <2>5. QED
    BY <2>2, <2>3, <2>4, JobSet
<1>4. CASE SaveDone(j)
  <2> DEFINE r == [greyJob[j] EXCEPT !.stage = "ack", !.row = AbsentRow]
  <2>1. r \in GreyRecords /\ r.file \in Files
    BY <1>0, <1>4, RowConstants DEF SaveDone, GreyRecords, JobStages
  <2>2. SetJob(j, r)
    BY <1>0, <1>4 DEF SaveDone
  <2> DEFINE row == [greyJob[j].row EXCEPT !.status = "done"]
  <2>3. row \in Rows /\ greyJob[j].file \in Files
    BY <1>0, <1>4 DEF SaveDone, GreyRecords, Rows, Statuses
  <2>4. WriteRow(greyJob[j].file, row)
    BY <1>0, <1>4 DEF SaveDone
  <2>5. LoadType' /\ TickType' /\ RestType'
    BY <1>4 DEF SaveDone, LoadType, TickType, RestType
  <2> HIDE DEF r, row
  <2>6. QED
    BY <2>1, <2>2, <2>3, <2>4, <2>5, JobSet, RowWritten
<1>5. CASE AckGreyJob(j)
  <2>1. SetJob(j, FreeJob)
    BY <1>5 DEF AckGreyJob
  <2>2. RowType' /\ LoadType' /\ TickType' /\ RestType'
    BY <1>5 DEF AckGreyJob, RowType, LoadType, TickType, RestType
  <2>3. QED
    BY <2>1, <2>2, JobSet, FreeJobType
<1>6. QED
  BY <1>1, <1>2, <1>3, <1>4, <1>5 DEF JobStep

\* The faults.
LEMMA FaultType ==
  ASSUME TypeOK, Fault
  PROVE  TypeOK'
<1> USE DEF TypeOK, fileVars, loadVars, ghosts, Suffer
<1>0. faults < MaxFaults => faults + 1 \in 0..MaxFaults
  BY FaultsAssumption DEF RestType
<1>1. ASSUME NEW t \in Ticks, TickFails(t) PROVE TypeOK'
  <2>1. TickType'
    BY <1>1, TickSet, IdleTickType DEF TickFails
  <2>2. RowType' /\ LoadType' /\ JobType' /\ RestType'
    BY <1>0, <1>1 DEF TickFails, RowType, LoadType, JobType, RestType
  <2>3. QED
    BY <2>1, <2>2
<1>2. ASSUME NEW f \in Files, LoadFails(f) PROVE TypeOK'
  <2>1. \E r \in LoadJobs : SetLoad(f, r)
    BY <1>2 DEF LoadFails, LoadType, LoadJobs, LoadStages
  <2>2. RowType' /\ TickType' /\ JobType' /\ RestType'
    BY <1>0, <1>2 DEF LoadFails, RowType, TickType, JobType, RestType
  <2>3. QED
    BY <2>1, <2>2, LoadSet
<1>3. ASSUME NEW f \in Files, CsvFails(f) PROVE TypeOK'
  BY <1>0, <1>3 DEF CsvFails, RowType, LoadType, TickType, JobType, RestType,
                    CsvStates
<1>4. ASSUME NEW j \in GreyJobs, GreyJobFails(j) PROVE TypeOK'
  <2>1. JobType'
    BY <1>4, JobSet, FreeJobType DEF GreyJobFails
  <2>2. RowType' /\ LoadType' /\ TickType' /\ RestType'
    BY <1>0, <1>4 DEF GreyJobFails, RowType, LoadType, TickType, RestType
  <2>3. QED
    BY <2>1, <2>2
<1>5. ASSUME NEW j \in GreyJobs, RecheckFails(j) PROVE TypeOK'
  <2>0. PICK e \in Emails :
               /\ SetJob(j, [greyJob[j] EXCEPT !.todo = @ \ {e}])
               /\ greyJob[j].file \in Files
               /\ greyJob[j] \in GreyRecords
    BY <1>5 DEF RecheckFails, JobType, GreyRecords
  <2>1. \E r \in GreyRecords : SetJob(j, r) /\ r.file \in Files
    BY <2>0 DEF GreyRecords
  <2>2. RowType' /\ LoadType' /\ TickType' /\ RestType'
    BY <1>0, <1>5, <2>0
       DEF RecheckFails, RowType, LoadType, TickType, RestType
  <2>3. QED
    BY <2>1, <2>2, JobSet
<1>6. CASE Crash
  <2>1. RowType' /\ RestType'
    BY <1>0, <1>6 DEF Crash, RowType, RestType, CsvStates
  <2>2. TickType'
    BY <1>6, IdleTickType DEF Crash, TickType
  <2>3. LoadType'
    <3>1. ASSUME NEW f \in Files PROVE loadJob'[f] \in LoadJobs
      <4>0. loadJob[f] \in LoadJobs
        BY DEF LoadType
      <4>1. CASE loadJob[f].stage = "adding"
        <5>1. loadJob'[f] = [loadJob[f] EXCEPT !.stage = "lost"]
          BY <1>6, <4>1 DEF Crash, LoadActive
        <5>2. QED
          BY <4>0, <5>1 DEF LoadJobs, LoadStages
      <4>2. CASE loadJob[f].stage \in LoadActive
        <5> DEFINE n == loadJob[f].stalls + 1
                   again == [stage |-> "waiting", read |-> {}, stalls |-> n]
                   failed == [loadJob[f] EXCEPT !.stage = "failed",
                                                !.read = {}]
        <5>1. loadJob'[f] \in {again, failed}
          BY <1>6, <4>2 DEF Crash, LoadActive
        <5>2. n \in Nat
          BY <4>0 DEF LoadJobs
        <5> HIDE DEF n
        <5>3. again \in LoadJobs
          BY <5>2 DEF LoadJobs, LoadStages
        <5>4. failed \in LoadJobs
          BY <4>0 DEF LoadJobs, LoadStages
        <5>5. QED
          BY <5>1, <5>3, <5>4
      <4>3. CASE loadJob[f].stage \notin LoadActive \union {"adding"}
        BY <1>6, <4>0, <4>3 DEF Crash
      <4>4. QED
        BY <4>1, <4>2, <4>3
    <3>2. QED
      BY <1>6, <3>1 DEF Crash, LoadType
  <2>4. JobType'
    <3>1. ASSUME NEW j \in GreyJobs
          PROVE  /\ greyJob'[j] \in GreyRecords
                 /\ greyJob'[j].stage # "free" => greyJob'[j].file \in Files
      <4>0. /\ greyJob[j] \in GreyRecords
            /\ greyJob[j].stage # "free" => greyJob[j].file \in Files
        BY DEF JobType
      <4>1. CASE greyJob[j].stage \notin JobActive
        BY <1>6, <4>0, <4>1 DEF Crash
      <4>2. CASE greyJob[j].stage \in JobActive
        <5> DEFINE r == [greyJob[j] EXCEPT !.stage = "waiting", !.todo = {},
                                           !.row = AbsentRow, !.stalls = @ + 1]
        <5>1. r \in GreyRecords /\ r.file = greyJob[j].file
          <6>1. greyJob[j].stalls + 1 \in Nat
            BY <4>0 DEF GreyRecords
          <6>2. QED
            BY <4>0, <6>1, RowConstants DEF GreyRecords, JobStages
        <5>2. greyJob'[j] = r \/ greyJob'[j] = FreeJob
          BY <1>6, <4>2 DEF Crash
        <5> HIDE DEF r
        <5>3. QED
          BY <4>0, <4>2, <5>1, <5>2, FreeJobType DEF JobActive
      <4>3. QED
        BY <4>1, <4>2
    <3>2. QED
      BY <1>6, <3>1 DEF Crash, JobType
  <2>5. QED
    BY <2>1, <2>2, <2>3, <2>4
<1>7. QED
  BY <1>1, <1>2, <1>3, <1>4, <1>5, <1>6 DEF Fault

LEMMA InitType == Init => TypeOK
<1> SUFFICES ASSUME Init PROVE TypeOK
  OBVIOUS
<1>1. RowType /\ TickType /\ JobType
  BY RowConstants, IdleTickType, FreeJobType
     DEF Init, RowType, TickType, JobType
<1>2. LoadType
  BY DEF Init, LoadType, LoadJobs, LoadStages
<1>3. RestType
  BY FaultsAssumption DEF Init, RestType, CsvStates, Verdicts
<1>4. QED
  BY <1>1, <1>2, <1>3 DEF TypeOK

LEMMA NextType == TypeOK /\ [Next]_vars => TypeOK'
<1> SUFFICES ASSUME TypeOK, [Next]_vars PROVE TypeOK'
  OBVIOUS
<1>1. ASSUME NEW e \in Emails, ValidateSingle(e) \/ Webhook(e) PROVE TypeOK'
  BY <1>1 DEF ValidateSingle, Webhook, SaveProcessed, Verdicts, TypeOK,
              RowType, LoadType, TickType, JobType, RestType, fileVars,
              loadVars, ghosts
<1>2. CASE UNCHANGED vars
  BY <1>2 DEF vars, TypeOK, RowType, LoadType, TickType, JobType, RestType
<1>3. QED
  BY <1>1, <1>2, FileStepType, TickStepType, JobStepType, FaultType DEF Next

\* Every table, job and invocation keeps its type, whatever faults happen and
\* however the crons overlap; in particular a running invocation or job has a
\* file (scheduler.service.ts:47, queue.service.ts:87).
THEOREM TypeCorrect == Spec => []TypeOK
<1>1. QED
  BY InitType, NextType, PTL DEF Spec
=============================================================================
