------------------------- MODULE BulkFilesDataProofs -------------------------
(***************************************************************************)
(* What a status says about the data behind it, for every fault and every  *)
(* overlap of the crons: emails are stored before a file is PENDING, and   *)
(* validated before it leaves PROCESSING.                                  *)
(***************************************************************************)
EXTENDS BulkFilesInvariant, BulkFilesProofs

\* How a step treats the invocations: a running one is new on a file that is
\* PENDING, READY or DONE, or was running on the same file before.
LEMMA InvocationsKeepFiles ==
  ASSUME TypeOK, [Next]_vars, NEW u \in Ticks, tick'[u].pc # "idle"
  PROVE  \/ /\ tick[u].pc # "idle"
            /\ tick'[u].file = tick[u].file
         \/ /\ tick'[u].file \in Files
            /\ bulkFile[tick'[u].file].status \in {"pending", "ready", "done"}
<1> USE DEF fileVars, loadVars, ghosts
<1>0. TickType
  BY DEF TypeOK
<1>1. ASSUME NEW t \in Ticks, NEW r, SetTick(t, r), r.file = tick[t].file,
             tick[t].pc # "idle"
      PROVE  tick[u].pc # "idle" /\ tick'[u].file = tick[u].file
  BY <1>0, <1>1 DEF TickType, SetTick
<1>2. ASSUME NEW t \in Ticks, SetTick(t, IdleTick)
      PROVE  tick[u].pc # "idle" /\ tick'[u].file = tick[u].file
  BY <1>0, <1>2, IdleTickType DEF TickType, SetTick
<1>3. CASE UNCHANGED tick
  BY <1>3
<1>4. ASSUME NEW t \in Ticks, TickStep(t)
      PROVE  tick[u].pc # "idle" /\ tick'[u].file = tick[u].file
  <2>0. tick[t] \in TickRecords
    BY <1>0 DEF TickType
  <2>1. CASE FindRow(t)
    BY <1>1, <2>0, <2>1 DEF FindRow, AfterFind, TickRecords
  <2>2. CASE MarkProcessing(t) \/ ListEmails(t) \/ ListForGrey(t)
    BY <1>1, <2>0, <2>2
       DEF MarkProcessing, ListEmails, ListForGrey, TickRecords
  <2>3. CASE ValidateEmail(t) \/ ScanEmail(t)
    BY <1>1, <2>0, <2>3 DEF ValidateEmail, ScanEmail, TickRecords
  <2>4. CASE AddGreyJob(t) \/ MergeCsv(t) \/ MarkComplete(t)
    BY <1>1, <2>0, <2>4 DEF AddGreyJob, MergeCsv, MarkComplete, TickRecords
  <2>5. CASE MarkReady(t) \/ MarkGreyList(t) \/ MergeUnreadable(t) \/ Notify(t)
    BY <1>2, <2>5 DEF MarkReady, MarkGreyList, MergeUnreadable, Notify
  <2>6. QED
    BY <1>4, <2>1, <2>2, <2>3, <2>4, <2>5 DEF TickStep
<1>5. ASSUME NEW t \in Ticks, Start(t)
      PROVE  \/ tick[u].pc # "idle" /\ tick'[u].file = tick[u].file
             \/ /\ tick'[u].file \in Files
                /\ bulkFile[tick'[u].file].status \in {"pending", "ready", "done"}
  <2>1. PICK f \in Files, pc \in Pcs :
          /\ SetTick(t, [IdleTick EXCEPT !.pc = pc, !.file = f])
          /\ bulkFile[f].status \in {"pending", "ready", "done"}
    BY <1>5, SubsetsAssumption
       DEF Start, PickPending, PickReady, PickDone, Pick, IsOldest, Pcs
  <2>2. [IdleTick EXCEPT !.pc = pc, !.file = f].file = f
    BY DEF IdleTick
  <2>3. QED
    BY <1>0, <2>1, <2>2 DEF TickType, SetTick
<1>6. CASE Fault
  <2>1. CASE \E t \in Ticks : TickFails(t)
    BY <1>2, <2>1 DEF TickFails
  <2>2. CASE Crash
    BY <2>2, IdleTickType DEF Crash
  <2>3. QED
    BY <1>3, <1>6, <2>1, <2>2
       DEF Fault, LoadFails, CsvFails, GreyJobFails, RecheckFails
<1>7. ASSUME NEW f \in Files, FileStep(f) PROVE UNCHANGED tick
  BY <1>7 DEF FileStep, LoadStep, Upload, CsvWritten, EnqueueLoad, LoadRead,
              LoadUnreadable, LoadCommit, LoadPending, LoadAck
<1>8. ASSUME NEW j \in GreyJobs, JobStep(j) PROVE UNCHANGED tick
  BY <1>8 DEF JobStep, StartGreyJob, Recheck, FindForDone, SaveDone, AckGreyJob
<1>9. ASSUME NEW e \in Emails, ValidateSingle(e) \/ Webhook(e)
      PROVE  UNCHANGED tick
  BY <1>9 DEF ValidateSingle, Webhook
<1>10. QED
  BY <1>3, <1>4, <1>5, <1>6, <1>7, <1>8, <1>9 DEF Next, vars

\* How a step treats the grey jobs: a job is new for the file of a running
\* invocation, or was there for the same file before.
LEMMA JobsKeepFiles ==
  ASSUME TypeOK, [Next]_vars, NEW k \in GreyJobs, greyJob'[k].stage # "free"
  PROVE  \/ greyJob[k].stage # "free" /\ greyJob'[k].file = greyJob[k].file
         \/ \E t \in Ticks : /\ tick[t].pc = "g_scan"
                             /\ greyJob'[k].file = tick[t].file
<1> USE DEF fileVars, loadVars, ghosts
<1>0. JobType
  BY DEF TypeOK
<1>1. ASSUME NEW j \in GreyJobs, NEW r, SetJob(j, r),
             r.file = greyJob[j].file, greyJob[j].stage # "free"
      PROVE  greyJob[k].stage # "free" /\ greyJob'[k].file = greyJob[k].file
  BY <1>0, <1>1 DEF JobType, SetJob
<1>2. ASSUME NEW j \in GreyJobs, SetJob(j, FreeJob)
      PROVE  greyJob[k].stage # "free" /\ greyJob'[k].file = greyJob[k].file
  BY <1>0, <1>2, FreeJobType DEF JobType, SetJob
<1>3. CASE UNCHANGED greyJob
  BY <1>3
<1>4. ASSUME NEW j \in GreyJobs, JobStep(j) \/ GreyJobFails(j) \/ RecheckFails(j)
      PROVE  greyJob[k].stage # "free" /\ greyJob'[k].file = greyJob[k].file
  <2>0. greyJob[j] \in GreyRecords
    BY <1>0 DEF JobType
  <2>1. CASE StartGreyJob(j) \/ FindForDone(j) \/ SaveDone(j)
    BY <1>1, <2>0, <2>1 DEF StartGreyJob, FindForDone, SaveDone, GreyRecords
  <2>2. CASE Recheck(j) \/ RecheckFails(j)
    BY <1>1, <2>0, <2>2 DEF Recheck, RecheckFails, GreyRecords
  <2>3. CASE AckGreyJob(j) \/ GreyJobFails(j)
    BY <1>2, <2>3 DEF AckGreyJob, GreyJobFails
  <2>4. QED
    BY <1>4, <2>1, <2>2, <2>3 DEF JobStep
<1>5. ASSUME NEW t \in Ticks, AddGreyJob(t)
      PROVE  \/ greyJob[k].stage # "free" /\ greyJob'[k].file = greyJob[k].file
             \/ tick[t].pc = "g_scan" /\ greyJob'[k].file = tick[t].file
  <2>1. PICK j \in GreyJobs :
          SetJob(j, [FreeJob EXCEPT !.stage = "waiting", !.file = tick[t].file,
                                    !.emails = tick[t].found])
    BY <1>5 DEF AddGreyJob
  <2> DEFINE q == [FreeJob EXCEPT !.stage = "waiting", !.file = tick[t].file,
                                  !.emails = tick[t].found]
  <2>2. q.file = tick[t].file
    BY DEF FreeJob
  <2>3. SetJob(j, q)
    BY <2>1
  <2> HIDE DEF q
  <2>4. QED
    BY <1>0, <1>5, <2>2, <2>3 DEF JobType, SetJob, AddGreyJob
<1>6. ASSUME NEW t \in Ticks, Start(t) \/ (TickStep(t) /\ ~ AddGreyJob(t))
      PROVE  UNCHANGED greyJob
  BY <1>6 DEF Start, PickPending, PickReady, PickDone, Pick, TickStep, FindRow,
       MarkProcessing, ListEmails, ValidateEmail, MarkReady, ListForGrey,
       ScanEmail, MarkGreyList, MergeCsv, MergeUnreadable, MarkComplete, Notify
<1>7. CASE Crash
  <2>1. greyJob[k] \in GreyRecords
    BY <1>0 DEF JobType
  <2>2. \/ greyJob'[k] = greyJob[k]
        \/ /\ greyJob[k].stage \in JobActive
           /\ greyJob'[k].file = greyJob[k].file
        \/ greyJob'[k] = FreeJob
    BY <1>7, <2>1 DEF Crash, GreyRecords
  <2>3. QED
    BY <2>2, FreeJobType DEF JobActive
<1>8. ASSUME NEW f \in Files, FileStep(f) PROVE UNCHANGED greyJob
  BY <1>8 DEF FileStep, LoadStep, Upload, CsvWritten, EnqueueLoad, LoadRead,
              LoadUnreadable, LoadCommit, LoadPending, LoadAck
<1>9. CASE Fault
  <2>1. CASE \/ \E t \in Ticks : TickFails(t)
             \/ \E f \in Files : LoadFails(f) \/ CsvFails(f)
    BY <1>3, <2>1 DEF TickFails, LoadFails, CsvFails
  <2>2. QED
    BY <1>4, <1>7, <1>9, <2>1 DEF Fault
<1>10. ASSUME NEW e \in Emails, ValidateSingle(e) \/ Webhook(e)
       PROVE  UNCHANGED greyJob
  BY <1>10 DEF ValidateSingle, Webhook
<1>11. CASE UNCHANGED vars
  BY <1>3, <1>11 DEF vars
<1>12. CASE \E t \in Ticks : Start(t) \/ TickStep(t)
  BY <1>3, <1>5, <1>6, <1>12
<1>13. QED
  BY <1>3, <1>4, <1>8, <1>9, <1>10, <1>11, <1>12 DEF Next

\* How a step treats the rows: they are written by the upload, the load job,
\* a running invocation or a grey job, each on its own file.
LEMMA RowsAreOwned ==
  ASSUME TypeOK, [Next]_vars, NEW f \in Files
  PROVE  \/ bulkFile'[f] = bulkFile[f]
         \/ bulkFile'[f].status = "queued"
         \/ bulkFile'[f].status = "pending" /\ loadJob[f].stage = "status"
         \/ \E t \in Ticks :
              /\ tick[t].pc # "idle" /\ tick[t].file = f
              /\ \/ tick[t].pc = "v_claim" /\ bulkFile'[f].status = "processing"
                 \/ tick[t].pc \in {"v_ready", "g_mark", "r_complete"}
         \/ \E j \in GreyJobs :
              greyJob[j].stage # "free" /\ greyJob[j].file = f
<1> USE DEF fileVars, loadVars, ghosts
<1>0. /\ RowType
      /\ \A t \in Ticks : tick[t].row \in Rows
  BY DEF TypeOK, TickType, TickRecords
<1>1. ASSUME NEW g \in Files, FileStep(g)
      PROVE  \/ bulkFile'[f] = bulkFile[f]
             \/ bulkFile'[f].status = "queued"
             \/ bulkFile'[f].status = "pending" /\ loadJob[f].stage = "status"
  <2>1. CASE Upload(g)
    BY <1>0, <2>1 DEF Upload, WriteRow, RowType, QueuedRow
  <2>2. CASE LoadPending(g)
    BY <1>0, <2>2 DEF LoadPending, WriteRow, RowType, QueuedRow
  <2>3. CASE ~ (Upload(g) \/ LoadPending(g))
    BY <1>1, <2>3 DEF FileStep, LoadStep, CsvWritten, EnqueueLoad, LoadRead,
                      LoadUnreadable, LoadCommit, LoadAck
  <2>4. QED
    BY <2>1, <2>2, <2>3
<1>2. ASSUME NEW t \in Ticks, Start(t) \/ TickStep(t)
      PROVE  \/ bulkFile'[f] = bulkFile[f]
             \/ /\ tick[t].pc # "idle" /\ tick[t].file = f
                /\ \/ tick[t].pc = "v_claim" /\ bulkFile'[f].status = "processing"
                   \/ tick[t].pc \in {"v_ready", "g_mark", "r_complete"}
  <2>1. CASE MarkProcessing(t)
    BY <1>0, <2>1 DEF MarkProcessing, WriteRow, RowType, Rows
  <2>2. CASE MarkReady(t) \/ MarkGreyList(t) \/ MarkComplete(t)
    BY <1>0, <2>2 DEF MarkReady, MarkGreyList, MarkComplete, WriteRow, RowType
  <2>3. CASE ~ (MarkProcessing(t) \/ MarkReady(t) \/ MarkGreyList(t)
                \/ MarkComplete(t))
    BY <1>2, <2>3 DEF Start, PickPending, PickReady, PickDone, Pick, TickStep,
         FindRow, ListEmails, ValidateEmail, ListForGrey, ScanEmail,
         AddGreyJob, MergeCsv, MergeUnreadable, Notify
  <2>4. QED
    BY <2>1, <2>2, <2>3
<1>3. ASSUME NEW j \in GreyJobs, JobStep(j)
      PROVE  \/ bulkFile'[f] = bulkFile[f]
             \/ greyJob[j].stage # "free" /\ greyJob[j].file = f
  <2>1. CASE SaveDone(j)
    BY <1>0, <2>1 DEF SaveDone, WriteRow, RowType
  <2>2. CASE ~ SaveDone(j)
    BY <1>3, <2>2 DEF JobStep, StartGreyJob, Recheck, FindForDone, AckGreyJob
  <2>3. QED
    BY <2>1, <2>2
<1>4. CASE (\E e \in Emails : ValidateSingle(e) \/ Webhook(e)) \/ Fault
  BY <1>4 DEF ValidateSingle, Webhook, Fault, TickFails, LoadFails, CsvFails,
              GreyJobFails, RecheckFails, Crash
<1>5. CASE UNCHANGED vars
  BY <1>5 DEF vars
<1>6. QED
  BY <1>1, <1>2, <1>3, <1>4, <1>5 DEF Next

\* How a step treats the stored emails: only the load job adds some, counts
\* it, and does nothing else; what was tried stays tried.
LEMMA LoadsAreCounted ==
  ASSUME TypeOK, [Next]_vars, NEW f \in Files
  PROVE  /\ \/ /\ copies'[f] = copies[f]
               /\ fileEmails'[f] = fileEmails[f]
               /\ loadJob'[f].stage = "status" => loadJob[f].stage = "status"
            \/ /\ copies'[f] = copies[f] + 1
               /\ UNCHANGED <<bulkFile, tick, greyJob>>
         /\ tried[f] \subseteq tried'[f]
<1> USE DEF fileVars, loadVars, ghosts
<1>0. /\ LoadType /\ copies \in [Files -> Nat]
      /\ fileEmails \in [Files -> SUBSET Emails]
      /\ tried \in [Files -> SUBSET Emails]
      /\ \A t \in Ticks : tick[t].pc # "idle" => tick[t].file \in Files
  BY DEF TypeOK, RestType, TickType
<1>1. CASE UNCHANGED <<loadVars, tried>>
  BY <1>1
<1>2. ASSUME NEW g \in Files, FileStep(g)
      PROVE  /\ \/ /\ copies'[f] = copies[f]
                   /\ fileEmails'[f] = fileEmails[f]
                   /\ loadJob'[f].stage = "status" => loadJob[f].stage = "status"
                \/ /\ copies'[f] = copies[f] + 1
                   /\ UNCHANGED <<bulkFile, tick, greyJob>>
             /\ tried[f] \subseteq tried'[f]
  <2>0. loadJob[g] \in LoadJobs
    BY <1>0 DEF LoadType
  <2>1. ASSUME NEW r, r.stage # "status", SetLoad(g, r),
               UNCHANGED <<copies, fileEmails, tried>>
        PROVE  /\ copies'[f] = copies[f]
               /\ fileEmails'[f] = fileEmails[f]
               /\ loadJob'[f].stage = "status" => loadJob[f].stage = "status"
               /\ tried[f] \subseteq tried'[f]
    BY <1>0, <2>1 DEF SetLoad, LoadType
  <2>2. CASE Upload(g) \/ EnqueueLoad(g) \/ LoadUnreadable(g)
    BY <2>0, <2>1, <2>2 DEF Upload, EnqueueLoad, LoadUnreadable, LoadJobs
  <2>3. CASE LoadRead(g)
    BY <2>0, <2>1, <2>3 DEF LoadRead, LoadJobs
  <2>4. CASE LoadPending(g) \/ LoadAck(g)
    BY <2>0, <2>1, <2>4 DEF LoadPending, LoadAck, LoadJobs
  <2>5. CASE CsvWritten(g)
    BY <1>1, <2>5 DEF CsvWritten
  <2>6. CASE LoadCommit(g)
    BY <1>0, <2>6 DEF LoadCommit, SetLoad, LoadType
  <2>7. QED
    BY <1>2, <2>2, <2>3, <2>4, <2>5, <2>6 DEF FileStep, LoadStep
<1>3. ASSUME NEW t \in Ticks, Start(t) \/ TickStep(t)
      PROVE  UNCHANGED loadVars /\ tried[f] \subseteq tried'[f]
  <2>1. CASE ValidateEmail(t)
    BY <1>0, <2>1 DEF ValidateEmail
  <2>2. CASE ~ ValidateEmail(t)
    BY <1>3, <2>2 DEF Start, PickPending, PickReady, PickDone, Pick, TickStep,
         FindRow, MarkProcessing, ListEmails, MarkReady, ListForGrey,
         ScanEmail, AddGreyJob, MarkGreyList, MergeCsv, MergeUnreadable,
         MarkComplete, Notify
  <2>3. QED
    BY <2>1, <2>2
<1>4. ASSUME NEW j \in GreyJobs, JobStep(j) PROVE UNCHANGED <<loadVars, tried>>
  BY <1>4 DEF JobStep, StartGreyJob, Recheck, FindForDone, SaveDone, AckGreyJob
<1>5. CASE Fault
  <2>1. CASE \E g \in Files : LoadFails(g)
    <3>1. PICK g \in Files : LoadFails(g)
      BY <2>1
    <3>2. loadJob'[f].stage = "status" => loadJob[f].stage = "status"
      BY <1>0, <3>1 DEF LoadFails, SetLoad, LoadType, LoadJobs
    <3>3. QED
      BY <3>1, <3>2 DEF LoadFails
  <2>2. CASE Crash
    <3>1. loadJob[f] \in LoadJobs
      BY <1>0 DEF LoadType
    <3>2. loadJob'[f].stage = "status" => loadJob[f].stage = "status"
      <4>1. CASE loadJob[f].stage \in LoadActive
        <5>1. loadJob'[f].stage \in {"waiting", "failed"}
          BY <2>2, <3>1, <4>1 DEF Crash, LoadActive, LoadJobs
        <5>2. QED
          BY <5>1
      <4>2. CASE loadJob[f].stage = "adding"
        BY <2>2, <3>1, <4>2 DEF Crash, LoadActive, LoadJobs
      <4>3. CASE loadJob[f].stage \notin LoadActive \union {"adding"}
        BY <2>2, <4>3 DEF Crash
      <4>4. QED
        BY <4>1, <4>2, <4>3
    <3>3. QED
      BY <2>2, <3>2 DEF Crash
  <2>3. QED
    BY <1>1, <1>5, <2>1, <2>2
       DEF Fault, TickFails, CsvFails, GreyJobFails, RecheckFails
<1>6. ASSUME NEW e \in Emails, ValidateSingle(e) \/ Webhook(e)
      PROVE  UNCHANGED <<loadVars, tried>>
  BY <1>6 DEF ValidateSingle, Webhook
<1>7. CASE UNCHANGED vars
  BY <1>1, <1>7 DEF vars
<1>8. QED
  BY <1>1, <1>2, <1>3, <1>4, <1>5, <1>6, <1>7 DEF Next

-----------------------------------------------------------------------------
(* Emails are stored before anything else happens to a file *)

LEMMA NextLoaded ==
  ASSUME TypeOK, LoadedBehind, [Next]_vars
  PROVE  LoadedBehind'
<1>0. copies \in [Files -> Nat] /\ TickType /\ TickType' /\ JobType /\ JobType'
  BY NextType DEF TypeOK, RestType
<1>1. \A f \in Files : copies[f] > 0 => copies'[f] > 0
  BY <1>0, LoadsAreCounted
<1>2. LoadedBeforePending'
  <2>1. ASSUME NEW f \in Files, bulkFile'[f].status \notin {"absent", "queued"}
        PROVE  copies'[f] > 0
    BY <1>1, <2>1, RowsAreOwned DEF LoadedBehind, LoadedBeforePending
  <2>2. QED
    BY <2>1 DEF LoadedBeforePending
<1>3. \A f \in Files : loadJob'[f].stage = "status" => copies'[f] > 0
  BY <1>0, <1>1, LoadsAreCounted DEF LoadedBehind
<1>4. \A t \in Ticks : tick'[t].pc # "idle" => copies'[tick'[t].file] > 0
  BY <1>0, <1>1, InvocationsKeepFiles
     DEF LoadedBehind, LoadedBeforePending, TickType
<1>5. \A j \in GreyJobs :
        greyJob'[j].stage # "free" => copies'[greyJob'[j].file] > 0
  BY <1>0, <1>1, JobsKeepFiles DEF LoadedBehind, TickType, JobType
<1>6. QED
  BY <1>2, <1>3, <1>4, <1>5 DEF LoadedBehind

LEMMA InitLoaded == Init => LoadedBehind
BY IdleTickType, FreeJobType
   DEF Init, LoadedBehind, LoadedBeforePending, AbsentRow

-----------------------------------------------------------------------------
(* Every stored email is validated before a file leaves PROCESSING *)

Early == {"idle", "v_find", "v_claim", "v_list", "v_run"}

\* How a step treats the batches of an invocation.
LEMMA BatchesShrink ==
  ASSUME TypeOK, [Next]_vars, NEW u \in Ticks
  PROVE  /\ tick'[u].pc = "v_run" =>
              \/ tick[u].pc = "v_run" /\ tick'[u] = tick[u]
              \/ /\ tick[u].pc = "v_run" /\ tick'[u].file = tick[u].file
                 /\ tick[u].todo \union tried[tick[u].file]
                      \subseteq tick'[u].todo \union tried'[tick[u].file]
              \/ tick'[u].todo =
                   fileEmails[tick'[u].file] \ (NoMx \union Outlook)
         /\ tick'[u].pc \notin Early =>
              \/ tick[u].pc \notin Early /\ tick'[u].file = tick[u].file
              \/ /\ tick[u].pc = "v_run" /\ tick[u].todo = {}
                 /\ tick'[u].file = tick[u].file
              \/ /\ tick'[u].file \in Files
                 /\ bulkFile[tick'[u].file].status \in {"ready", "done"}
<1> USE DEF fileVars, loadVars, ghosts
<1> DEFINE Runs == \/ tick[u].pc = "v_run" /\ tick'[u] = tick[u]
                   \/ /\ tick[u].pc = "v_run" /\ tick'[u].file = tick[u].file
                      /\ tick[u].todo \union tried[tick[u].file]
                           \subseteq tick'[u].todo \union tried'[tick[u].file]
                   \/ tick'[u].todo =
                        fileEmails[tick'[u].file] \ (NoMx \union Outlook)
           Later == \/ tick[u].pc \notin Early /\ tick'[u].file = tick[u].file
                    \/ /\ tick[u].pc = "v_run" /\ tick[u].todo = {}
                       /\ tick'[u].file = tick[u].file
                    \/ /\ tick'[u].file \in Files
                       /\ bulkFile[tick'[u].file].status \in {"ready", "done"}
           Goal == /\ tick'[u].pc = "v_run" => Runs
                   /\ tick'[u].pc \notin Early => Later
<1>0. /\ TickType /\ tick[u] \in TickRecords
      /\ tried \in [Files -> SUBSET Emails]
  BY DEF TypeOK, TickType, RestType
<1>1. CASE tick'[u] = tick[u]
  BY <1>1
<1>2. CASE tick'[u] = IdleTick
  BY <1>2, IdleTickType DEF Early
<1>3. ASSUME NEW t \in Ticks, Start(t) \/ TickStep(t) PROVE Goal
  <2>1. CASE t # u
    <3>1. tick'[u] = tick[u]
      BY <1>0, <1>3, <2>1
         DEF Start, PickPending, PickReady, PickDone, Pick, TickStep, FindRow,
             MarkProcessing, ListEmails, ValidateEmail, MarkReady, ListForGrey,
             ScanEmail, AddGreyJob, MarkGreyList, MergeCsv, MergeUnreadable,
             MarkComplete, Notify, SetTick, TickType
    <3>2. QED
      BY <1>1, <3>1
  <2>2. ASSUME NEW r, SetTick(u, r) PROVE tick'[u] = r
    BY <1>0, <2>2 DEF SetTick, TickType
  <2>3. CASE Start(u)
    <3>1. PICK f \in Files, pc \in {"v_find", "g_list", "r_merge"} :
            /\ SetTick(u, [IdleTick EXCEPT !.pc = pc, !.file = f])
            /\ pc \in {"g_list", "r_merge"} =>
                 bulkFile[f].status \in {"ready", "done"}
      BY <2>3, SubsetsAssumption
         DEF Start, PickPending, PickReady, PickDone, Pick, IsOldest
    <3>2. tick'[u].pc = pc /\ tick'[u].file = f
      BY <2>2, <3>1 DEF IdleTick
    <3>3. QED
      BY <3>1, <3>2 DEF Early
  <2>4. CASE FindRow(u)
    <3>1. tick'[u].pc = AfterFind[tick[u].pc] /\ tick'[u].file = tick[u].file
      BY <1>0, <2>2, <2>4 DEF FindRow, TickRecords
    <3>2. QED
      BY <2>4, <3>1 DEF FindRow, AfterFind, Early
  <2>5. CASE MarkProcessing(u) \/ ListForGrey(u)
    <3>1. \/ tick'[u].pc = "v_list"
          \/ /\ tick[u].pc = "g_list" /\ tick'[u].pc = "g_scan"
             /\ tick'[u].file = tick[u].file
      BY <1>0, <2>2, <2>5 DEF MarkProcessing, ListForGrey, TickRecords
    <3>2. QED
      BY <3>1 DEF Early
  <2>6. CASE ListEmails(u)
    <3>1. /\ tick'[u].pc = "v_run" /\ tick'[u].file = tick[u].file
          /\ tick'[u].todo = fileEmails[tick[u].file] \ (NoMx \union Outlook)
      BY <1>0, <2>2, <2>6 DEF ListEmails, TickRecords
    <3>2. QED
      BY <3>1 DEF Early
  <2>7. CASE ValidateEmail(u)
    <3>1. PICK e \in Emails :
            /\ SetTick(u, [tick[u] EXCEPT !.todo = @ \ {e}])
            /\ tried' = [tried EXCEPT ![tick[u].file] = @ \union {e}]
      BY <1>0, <2>7 DEF ValidateEmail, TickRecords
    <3>2. /\ tick'[u].pc = "v_run" /\ tick[u].pc = "v_run"
          /\ tick'[u].file = tick[u].file /\ tick[u].file \in Files
          /\ tick'[u].todo = tick[u].todo \ {e}
      BY <1>0, <2>2, <2>7, <3>1 DEF ValidateEmail, TickRecords, TickType
    <3>3. tried'[tick[u].file] = tried[tick[u].file] \union {e}
      BY <1>0, <3>1, <3>2
    <3>4. QED
      BY <3>2, <3>3 DEF Early
  <2>8. CASE ScanEmail(u)
    BY <1>0, <2>2, <2>8 DEF ScanEmail, TickRecords, Early
  <2>9. CASE AddGreyJob(u) \/ MergeCsv(u) \/ MarkComplete(u)
    BY <1>0, <2>2, <2>9
       DEF AddGreyJob, MergeCsv, MarkComplete, TickRecords, Early
  <2>10. CASE MarkReady(u) \/ MarkGreyList(u) \/ MergeUnreadable(u) \/ Notify(u)
    BY <1>2, <2>2, <2>10 DEF MarkReady, MarkGreyList, MergeUnreadable, Notify
  <2>11. QED
    BY <1>3, <2>1, <2>3, <2>4, <2>5, <2>6, <2>7, <2>8, <2>9, <2>10
       DEF TickStep
<1>4. CASE Fault
  <2>1. ASSUME NEW t \in Ticks, TickFails(t)
        PROVE  tick'[u] = tick[u] \/ tick'[u] = IdleTick
    BY <1>0, <2>1 DEF TickFails, SetTick, TickType
  <2>2. CASE Crash
    BY <1>2, <2>2 DEF Crash
  <2>3. tick'[u] = tick[u] \/ tick'[u] = IdleTick \/ Crash
    BY <1>4, <2>1 DEF Fault, LoadFails, CsvFails, GreyJobFails, RecheckFails
  <2>4. QED
    BY <1>1, <1>2, <2>2, <2>3
<1>5. ASSUME NEW f \in Files, FileStep(f) PROVE UNCHANGED tick
  BY <1>5 DEF FileStep, LoadStep, Upload, CsvWritten, EnqueueLoad, LoadRead,
              LoadUnreadable, LoadCommit, LoadPending, LoadAck
<1>6. ASSUME NEW j \in GreyJobs, JobStep(j) PROVE UNCHANGED tick
  BY <1>6 DEF JobStep, StartGreyJob, Recheck, FindForDone, SaveDone, AckGreyJob
<1>7. ASSUME NEW e \in Emails, ValidateSingle(e) \/ Webhook(e)
      PROVE  UNCHANGED tick
  BY <1>7 DEF ValidateSingle, Webhook
<1>8. CASE UNCHANGED vars
  BY <1>1, <1>8 DEF vars
<1>9. Goal
  BY <1>1, <1>3, <1>4, <1>5, <1>6, <1>7, <1>8 DEF Next
<1>10. QED
  BY <1>9

LEMMA NextValidated ==
  ASSUME TypeOK, LoadedBehind, ValidatedBehind, [Next]_vars
  PROVE  ValidatedBehind'
<1>0. /\ copies \in [Files -> Nat] /\ TickType /\ TickType' /\ JobType /\ JobType'
      /\ \A t \in Ticks : tick[t].pc \in Pcs
  BY NextType DEF TypeOK, RestType, TickType, TickRecords
\* A loaded file stays as validated as it was: a second load ends the claim.
<1>1. ASSUME NEW f \in Files, copies[f] > 0, NEW S, NEW T, TriedBut(f, S),
             S \union tried[f] \subseteq T \union tried'[f]
      PROVE  TriedBut(f, T)'
  <2>1. CASE copies'[f] = copies[f] + 1
    BY <1>0, <1>1, <2>1 DEF TriedBut
  <2>2. CASE copies'[f] = copies[f] /\ fileEmails'[f] = fileEmails[f]
    BY <1>1, <2>2 DEF TriedBut
  <2>3. QED
    BY <2>1, <2>2, LoadsAreCounted
<1>2. ASSUME NEW f \in Files, copies[f] > 0, TriedBut(f, {})
      PROVE  TriedBut(f, {})'
  BY <1>1, <1>2, LoadsAreCounted
<1>3. ASSUME NEW f \in Files, bulkFile[f].status \in Validated
      PROVE  copies[f] > 0 /\ TriedBut(f, {})
  BY <1>3 DEF LoadedBehind, LoadedBeforePending, ValidatedBehind,
              ValidatedBeforeReady, TriedBut, Validated
<1>4. ASSUME NEW f \in Files, bulkFile'[f].status \in Validated
      PROVE  TriedBut(f, {})'
  <2>1. CASE bulkFile'[f] = bulkFile[f]
    BY <1>2, <1>3, <1>4, <2>1
  <2>2. CASE \E t \in Ticks : /\ tick[t].file = f
                            /\ tick[t].pc \in {"v_ready", "g_mark", "r_complete"}
    BY <1>2, <2>2 DEF LoadedBehind, ValidatedBehind
  <2>3. CASE \E j \in GreyJobs : greyJob[j].stage # "free" /\ greyJob[j].file = f
    BY <1>2, <2>3 DEF LoadedBehind, ValidatedBehind
  <2>4. QED
    BY <1>4, <2>1, <2>2, <2>3, RowsAreOwned DEF Validated
<1>5. ASSUME NEW t \in Ticks, tick'[t].pc = "v_run",
             NEW f \in Files, f = tick'[t].file, NEW T, T = tick'[t].todo
      PROVE  TriedBut(f, T)'
  <2>1. CASE tick[t].pc = "v_run" /\ tick'[t] = tick[t]
    <3>1. copies[f] > 0 /\ TriedBut(f, tick[t].todo)
      BY <1>5, <2>1 DEF LoadedBehind, ValidatedBehind
    <3>2. tick[t].todo \union tried[f] \subseteq T \union tried'[f]
      BY <1>5, <2>1, LoadsAreCounted
    <3>3. QED
      BY <1>1, <3>1, <3>2
  <2>2. CASE /\ tick[t].pc = "v_run" /\ tick'[t].file = tick[t].file
             /\ tick[t].todo \union tried[tick[t].file]
                  \subseteq tick'[t].todo \union tried'[tick[t].file]
    <3>1. copies[f] > 0 /\ TriedBut(f, tick[t].todo)
      BY <1>5, <2>2 DEF LoadedBehind, ValidatedBehind
    <3>2. QED
      BY <1>1, <1>5, <2>2, <3>1
  <2>3. CASE T = fileEmails[f] \ (NoMx \union Outlook)
    <3>1. CASE copies'[f] = copies[f] /\ fileEmails'[f] = fileEmails[f]
      BY <2>3, <3>1 DEF TriedBut
    <3>2. CASE copies'[f] = copies[f] + 1 /\ UNCHANGED tick
      <4>1. copies[f] > 0
        BY <1>5, <3>2 DEF LoadedBehind
      <4>2. QED
        BY <1>0, <3>2, <4>1 DEF TriedBut
    <3>3. QED
      BY <3>1, <3>2, LoadsAreCounted
  <2>4. QED
    BY <1>5, <2>1, <2>2, <2>3, BatchesShrink
<1>6. ASSUME NEW t \in Ticks, tick'[t].pc \notin Early,
             NEW f \in Files, f = tick'[t].file
      PROVE  TriedBut(f, {})'
  <2>1. CASE tick[t].pc \notin Early /\ tick'[t].file = tick[t].file
    <3>1. copies[f] > 0 /\ TriedBut(f, {})
      BY <1>6, <2>1 DEF LoadedBehind, ValidatedBehind, Early
    <3>2. QED
      BY <1>2, <3>1
  <2>2. CASE /\ tick[t].pc = "v_run" /\ tick[t].todo = {}
             /\ tick'[t].file = tick[t].file
    <3>1. copies[f] > 0 /\ TriedBut(f, {})
      BY <1>6, <2>2 DEF LoadedBehind, ValidatedBehind
    <3>2. QED
      BY <1>2, <3>1
  <2>3. CASE bulkFile[f].status \in {"ready", "done"}
    BY <1>2, <1>3, <2>3 DEF Validated
  <2>4. QED
    BY <1>6, <2>1, <2>2, <2>3, BatchesShrink
<1>7. ASSUME NEW j \in GreyJobs, greyJob'[j].stage # "free",
             NEW f \in Files, f = greyJob'[j].file
      PROVE  TriedBut(f, {})'
  <2>1. CASE greyJob[j].stage # "free" /\ greyJob[j].file = f
    BY <1>2, <2>1 DEF LoadedBehind, ValidatedBehind
  <2>2. CASE \E t \in Ticks : tick[t].pc = "g_scan" /\ tick[t].file = f
    BY <1>2, <2>2 DEF LoadedBehind, ValidatedBehind
  <2>3. QED
    BY <1>7, <2>1, <2>2, JobsKeepFiles
<1>8. ValidatedBeforeReady'
  BY <1>4 DEF ValidatedBeforeReady, TriedBut
<1>9. \A t \in Ticks :
        /\ (tick[t].pc = "v_run" => TriedBut(tick[t].file, tick[t].todo))'
        /\ (tick[t].pc \notin Early => TriedBut(tick[t].file, {}))'
  <2>1. \A t \in Ticks : tick'[t].pc # "idle" => tick'[t].file \in Files
    BY <1>0 DEF TickType
  <2>2. QED
    BY <1>5, <1>6, <2>1 DEF TriedBut, Early
<1>10. \A j \in GreyJobs :
         (greyJob[j].stage # "free" => TriedBut(greyJob[j].file, {}))'
  BY <1>0, <1>7 DEF TriedBut, JobType
<1>11. QED
  BY <1>8, <1>9, <1>10 DEF ValidatedBehind, Early

LEMMA InitValidated == Init => ValidatedBehind
BY IdleTickType, FreeJobType
   DEF Init, ValidatedBehind, ValidatedBeforeReady, Validated, AbsentRow

\* A status, a running invocation and a grey job can be relied on for the
\* emails of their file, under every fault and overlap.
THEOREM DataCorrect == Spec => []DataBehindStatus
<1>1. TypeOK /\ DataBehindStatus /\ [Next]_vars => DataBehindStatus'
  BY NextLoaded, NextValidated DEF DataBehindStatus
<1>2. Init => DataBehindStatus
  BY InitLoaded, InitValidated DEF DataBehindStatus
<1>3. QED
  BY <1>1, <1>2, TypeCorrect, PTL DEF Spec

\* No cron sees a file before its emails are committed
\* (bulk-file-emails.service.ts:37 before 47), under every fault and overlap.
THEOREM LoadedCorrect == Spec => []LoadedBeforePending
<1>1. DataBehindStatus => LoadedBeforePending
  BY DEF DataBehindStatus, LoadedBehind
<1>2. QED
  BY <1>1, DataCorrect, PTL

\* A file leaves PROCESSING only with all its emails validated
\* (scheduler.service.ts:402-409 before 65), under every fault and overlap.
THEOREM ValidatedCorrect == Spec => []ValidatedBeforeReady
<1>1. DataBehindStatus => ValidatedBeforeReady
  BY DEF DataBehindStatus, ValidatedBehind
<1>2. QED
  BY <1>1, DataCorrect, PTL
=============================================================================
