------------------------- MODULE BulkFilesGreyProofs -------------------------
(***************************************************************************)
(* The grey check leaves nothing grey, for every fault but a failed        *)
(* re-check and every overlap of the grey and the report cron: an          *)
(* inductive invariant of what scans and grey jobs still have to do.       *)
(***************************************************************************)
EXTENDS BulkFilesDataProofs

\* The claim of a validation is two database calls: the next invocation, a minute
\* later, comes after it (scheduler.service.ts:46-61).
PromptClaim == "validate" \notin SlowHandlers

\* No re-check throws: allSettled would drop it and leave its email grey, which the
\* run failed_recheck shows (queue.service.ts:117, 123).
NoFailedRecheck == "recheck" \notin FaultKinds

Scanning == {"g_scan", "g_find", "g_mark"}
Reporting == {"r_merge", "r_find", "r_complete"}

-----------------------------------------------------------------------------
(* What a step does to the invocations *)

\* An invocation goes on with its file: its place changes,
PlaceMoves(u) ==
  /\ tick[u].pc # "idle" /\ tick'[u].file = tick[u].file
  /\ \/ StatusesAt(tick'[u].pc) = StatusesAt(tick[u].pc)
     \/ /\ tick[u].pc = "v_claim" /\ tick'[u].pc = "v_list"
        /\ bulkFile'[tick[u].file].status = "processing"
  /\ tick'[u].pc \in Claiming => tick[u].pc \in Claiming
  /\ tick'[u].pc \in Reporting => tick[u].pc \in Reporting

\* its batches shrink,
BatchMoves(u) ==
  tick'[u].pc = "v_run" =>
    \/ tick[u].pc = "v_run" /\ tick'[u].todo \subseteq tick[u].todo
    \/ tick'[u].todo \subseteq fileEmails[tick[u].file]

\* and a scan drops what is not grey.
ScanMoves(u) ==
  tick'[u].pc \in Scanning =>
    \/ /\ tick[u].pc \in Scanning
       /\ \A e \in tick[u].todo \union tick[u].found :
            e \in tick'[u].todo \union tick'[u].found \/ processed[e] # "grey"
       /\ tick'[u].pc # "g_scan" =>
            /\ tick'[u].todo = tick[u].todo
            /\ tick[u].pc = "g_scan" => tick[u].todo = {}
    \/ tick'[u].pc = "g_scan" /\ tick'[u].todo = fileEmails[tick[u].file]

Goes(u) == PlaceMoves(u) /\ BatchMoves(u) /\ ScanMoves(u)

\* An invocation begins with a file of the status its cron asks for.
Begins(u) ==
  /\ tick[u].pc = "idle" /\ tick'[u].file \in Files
  /\ UNCHANGED <<bulkFile, loadJob, copies, greyJob, processed, kept>>
  /\ \A v \in Ticks : v # u => tick'[v] = tick[v]
  /\ \/ /\ tick'[u].pc = "v_find" /\ bulkFile[tick'[u].file].status = "pending"
        /\ \A v \in Ticks : tick[v].pc \notin Claiming
     \/ tick'[u].pc = "g_list" /\ bulkFile[tick'[u].file].status = "ready"
     \/ tick'[u].pc = "r_merge" /\ bulkFile[tick'[u].file].status = "done"

\* A busy invocation goes on with its file, or begins with one of the status it looks for.
LEMMA InvocationMoves ==
  ASSUME TypeOK, [Next]_vars, PromptClaim,
         NEW u \in Ticks, tick'[u].pc # "idle"
  PROVE  Goes(u) \/ Begins(u)
<1> USE DEF fileVars, loadVars, ghosts
<1> DEFINE Goal == tick'[u].pc # "idle" => Goes(u) \/ Begins(u)
<1>0. /\ TickType /\ tick[u] \in TickRecords /\ tick[u].pc \in Pcs
      /\ tick[u].pc # "idle" => tick[u].file \in Files
  BY DEF TypeOK, TickType, TickRecords
<1>1. CASE tick'[u] = tick[u]
  BY <1>1 DEF Goes, PlaceMoves, BatchMoves, ScanMoves
<1>2. CASE tick'[u] = IdleTick
  BY <1>2, IdleTickType
<1>3. ASSUME NEW t \in Ticks, Start(t) \/ TickStep(t) PROVE Goal
  <2>1. CASE t # u
    <3>1. tick'[u] = tick[u]
      BY <1>0, <1>3, <2>1
         DEF Start, PickPending, PickReady, PickDone, Pick, TickStep, FindRow,
             MarkProcessing, ListEmails, ValidateEmail, MarkReady, ListForGrey,
             ScanEmail, AddGreyJob, MarkGreyList, MergeCsv, MergeUnreadable,
             MarkComplete, Notify, SetTick, TickType
    <3>2. QED
      BY <1>1, <3>1
  <2>2. ASSUME NEW r, SetTick(u, r) PROVE tick'[u] = r
    BY <1>0, <2>2 DEF SetTick, TickType
  <2>10. ASSUME NEW r, SetTick(u, r), NEW v \in Ticks, v # u
         PROVE  tick'[v] = tick[v]
    BY <1>0, <2>10 DEF SetTick, TickType
  <2>3. CASE Start(u)
    <3>1. ASSUME NEW handler, NEW status, NEW pc, Pick(u, handler, status, pc)
          PROVE  /\ tick[u].pc = "idle" /\ MayStart(handler)
                 /\ tick'[u].pc = pc /\ tick'[u].file \in Files
                 /\ bulkFile[tick'[u].file].status = status
                 /\ UNCHANGED <<bulkFile, loadJob, copies, greyJob, processed, kept>>
                 /\ \A v \in Ticks : v # u => tick'[v] = tick[v]
      <4>1. PICK f \in Files :
              /\ bulkFile[f].status = status
              /\ SetTick(u, [IdleTick EXCEPT !.pc = pc, !.file = f])
        BY <3>1, SubsetsAssumption DEF Pick, IsOldest
      <4>2. tick'[u].pc = pc /\ tick'[u].file = f
        BY <2>2, <4>1 DEF IdleTick
      <4>3. QED
        BY <2>10, <3>1, <4>1, <4>2 DEF Pick
    <3>2. CASE PickPending(u)
      <4>1. Pick(u, "validate", "pending", "v_find")
        BY <3>2 DEF PickPending
      <4>2. \A v \in Ticks : tick[v].pc \notin Claiming
        BY <3>1, <4>1 DEF MayStart, PromptClaim, ClaimPcs, Claiming
      <4>3. QED
        BY <3>1, <4>1, <4>2 DEF Begins
    <3>3. CASE PickReady(u) \/ PickDone(u)
      <4>1. \/ Pick(u, "grey", "ready", "g_list")
            \/ Pick(u, "report", "done", "r_merge")
        BY <3>3 DEF PickReady, PickDone
      <4>2. QED
        BY <3>1, <4>1 DEF Begins
    <3>4. QED
      BY <2>3, <3>2, <3>3 DEF Start
  <2>4. CASE FindRow(u)
    <3>1. /\ tick'[u].pc = AfterFind[tick[u].pc] /\ tick'[u].file = tick[u].file
          /\ tick'[u].todo = tick[u].todo /\ tick'[u].found = tick[u].found
      BY <1>0, <2>2, <2>4 DEF FindRow, TickRecords
    <3>2. QED
      BY <2>4, <3>1 DEF FindRow, AfterFind, Goes, PlaceMoves, BatchMoves,
         ScanMoves, Scanning, Reporting, StatusesAt, Claiming, Batching
  <2>5. CASE MarkProcessing(u) \/ ListForGrey(u) \/ MergeCsv(u) \/ MarkComplete(u)
    <3>1. /\ tick'[u].file = tick[u].file
          /\ \/ MarkProcessing(u) /\ tick[u].pc = "v_claim" /\ tick'[u].pc = "v_list"
             \/ /\ tick[u].pc = "g_list" /\ tick'[u].pc = "g_scan"
                /\ tick'[u].todo = fileEmails[tick[u].file]
             \/ tick[u].pc = "r_merge" /\ tick'[u].pc = "r_find"
             \/ tick[u].pc = "r_complete" /\ tick'[u].pc = "r_notify"
      BY <1>0, <2>2, <2>5
         DEF MarkProcessing, ListForGrey, MergeCsv, MarkComplete, TickRecords
    <3>2. MarkProcessing(u) => bulkFile'[tick[u].file].status = "processing"
      BY <1>0 DEF MarkProcessing, WriteRow, RowType, TypeOK, TickRecords, Rows
    <3>3. QED
      BY <3>1, <3>2 DEF Goes, PlaceMoves, BatchMoves, ScanMoves, Scanning,
                        Reporting, StatusesAt, Claiming, Batching
  <2>6. CASE ListEmails(u) \/ ValidateEmail(u)
    <3>1. /\ tick'[u].file = tick[u].file /\ tick'[u].pc = "v_run"
          /\ \/ /\ tick[u].pc = "v_list"
                /\ tick'[u].todo \subseteq fileEmails[tick[u].file]
             \/ /\ tick[u].pc = "v_run"
                /\ tick'[u].todo \subseteq tick[u].todo
      <4>1. CASE ListEmails(u)
        BY <1>0, <2>2, <4>1 DEF ListEmails, TickRecords
      <4>2. CASE ValidateEmail(u)
        <5>1. PICK e : SetTick(u, [tick[u] EXCEPT !.todo = @ \ {e}])
          BY <4>2 DEF ValidateEmail
        <5>2. /\ tick'[u].file = tick[u].file /\ tick'[u].pc = tick[u].pc
              /\ tick'[u].todo = tick[u].todo \ {e}
          BY <1>0, <2>2, <5>1 DEF TickRecords
        <5>3. QED
          BY <4>2, <5>2 DEF ValidateEmail
      <4>3. QED
        BY <2>6, <4>1, <4>2
    <3>2. QED
      BY <3>1 DEF Goes, PlaceMoves, BatchMoves, ScanMoves, Scanning, Reporting,
                  StatusesAt, Claiming, Batching
  <2>7. CASE ScanEmail(u) \/ AddGreyJob(u)
    <3>1. /\ tick'[u].file = tick[u].file /\ tick[u].pc = "g_scan"
          /\ \/ tick'[u].pc = "g_scan"
             \/ tick'[u].pc = "g_find" /\ tick[u].todo = {} /\ tick'[u].todo = {}
          /\ \A e \in tick[u].todo \union tick[u].found :
               e \in tick'[u].todo \union tick'[u].found \/ processed[e] # "grey"
      <4>1. CASE ScanEmail(u)
        <5>1. PICK e \in tick[u].todo :
                SetTick(u, [tick[u] EXCEPT
                     !.todo = @ \ {e},
                     !.found = IF processed[e] = "grey" THEN @ \union {e}
                                                        ELSE @])
          BY <4>1 DEF ScanEmail
        <5>2. /\ tick'[u].file = tick[u].file /\ tick'[u].pc = tick[u].pc
              /\ tick'[u].todo = tick[u].todo \ {e}
              /\ tick'[u].found = IF processed[e] = "grey"
                                  THEN tick[u].found \union {e} ELSE tick[u].found
          BY <1>0, <2>2, <5>1 DEF TickRecords
        <5>3. QED
          BY <4>1, <5>2 DEF ScanEmail
      <4>2. CASE AddGreyJob(u)
        <5>1. PICK j \in GreyJobs :
                SetTick(u, [tick[u] EXCEPT !.pc = "g_find", !.job = j])
          BY <4>2 DEF AddGreyJob
        <5>2. /\ tick'[u].file = tick[u].file /\ tick'[u].pc = "g_find"
              /\ tick'[u].todo = tick[u].todo /\ tick'[u].found = tick[u].found
          BY <1>0, <2>2, <5>1 DEF TickRecords
        <5>3. QED
          BY <4>2, <5>2 DEF AddGreyJob
      <4>3. QED
        BY <2>7, <4>1, <4>2
    <3>2. QED
      BY <3>1 DEF Goes, PlaceMoves, BatchMoves, ScanMoves, Scanning, Reporting,
                  StatusesAt, Claiming, Batching
  <2>8. CASE MarkReady(u) \/ MarkGreyList(u) \/ MergeUnreadable(u) \/ Notify(u)
    BY <1>2, <2>2, <2>8 DEF MarkReady, MarkGreyList, MergeUnreadable, Notify
  <2>9. QED
    BY <1>3, <2>1, <2>3, <2>4, <2>5, <2>6, <2>7, <2>8 DEF TickStep
<1>4. CASE Fault
  <2>1. ASSUME NEW t \in Ticks, TickFails(t)
        PROVE  tick'[u] = tick[u] \/ tick'[u] = IdleTick
    BY <1>0, <2>1 DEF TickFails, SetTick, TickType
  <2>2. tick'[u] = tick[u] \/ tick'[u] = IdleTick
    BY <1>4, <2>1 DEF Fault, LoadFails, CsvFails, GreyJobFails, RecheckFails, Crash
  <2>3. QED
    BY <1>1, <1>2, <2>2
<1>5. CASE \/ \E f \in Files : FileStep(f)
           \/ \E j \in GreyJobs : JobStep(j)
           \/ \E e \in Emails : ValidateSingle(e) \/ Webhook(e)
           \/ UNCHANGED vars
  <2>1. UNCHANGED tick
    BY <1>5 DEF FileStep, LoadStep, Upload, CsvWritten, EnqueueLoad, LoadRead,
      LoadUnreadable, LoadCommit, LoadPending, LoadAck, JobStep, StartGreyJob,
      Recheck, FindForDone, SaveDone, AckGreyJob, ValidateSingle, Webhook, vars
  <2>2. QED
    BY <1>1, <2>1
<1>6. Goal
  BY <1>3, <1>4, <1>5 DEF Next
<1>7. QED
  BY <1>6

-----------------------------------------------------------------------------
(* What a step does to the rows, the grey jobs and the emails *)

\* A row is written by the one that holds its file, with the status of its place.
RowMoves(f) ==
  \/ bulkFile'[f] = bulkFile[f]
  \/ bulkFile[f].status = "absent" /\ bulkFile'[f].status = "queued"
  \/ /\ loadJob[f].stage = "status" /\ loadJob'[f].stage = "ack"
     /\ bulkFile'[f].status = "pending"
  \/ \E t \in Ticks :
       /\ tick[t].file = f
       /\ \/ /\ tick[t].pc = "v_claim" /\ tick'[t].pc = "v_list"
             /\ bulkFile'[f].status = "processing"
          \/ /\ tick[t].pc = "v_ready" /\ tick'[t].pc = "idle"
             /\ bulkFile'[f].status = "ready"
          \/ /\ tick[t].pc = "g_mark"
             /\ bulkFile'[f].status = IF tick[t].found = {} THEN "done"
                                                            ELSE "progress"
          \/ tick[t].pc = "r_complete" /\ bulkFile'[f].status = "complete"
  \/ \E j \in GreyJobs : /\ greyJob[j].stage = "save" /\ greyJob[j].file = f
                         /\ bulkFile'[f].status = "done"

\* How the row of a file changes.
LEMMA RowsMove ==
  ASSUME TypeOK, [Next]_vars, NEW f \in Files
  PROVE  RowMoves(f)
<1> USE DEF fileVars, loadVars, ghosts, RowMoves
<1>0. /\ RowType /\ TickType /\ JobType /\ LoadType
      /\ \A t \in Ticks : tick[t].row \in Rows
      /\ \A j \in GreyJobs : greyJob[j].row \in Rows
  BY DEF TypeOK, TickType, TickRecords, JobType, GreyRecords
<1>1. ASSUME NEW g \in Files, NEW r, WriteRow(g, r), g # f
      PROVE  bulkFile'[f] = bulkFile[f]
  BY <1>0, <1>1 DEF WriteRow, RowType
<1>2. ASSUME NEW r, WriteRow(f, r) PROVE bulkFile'[f] = r
  BY <1>0, <1>2 DEF WriteRow, RowType
<1>3. ASSUME NEW g \in Files, FileStep(g) PROVE RowMoves(f)
  <2>1. CASE Upload(g)
    <3>1. bulkFile'[f] = bulkFile[f] \/ g = f
      BY <1>1, <2>1 DEF Upload
    <3>2. QED
      BY <1>2, <2>1, <3>1 DEF Upload, QueuedRow
  <2>2. CASE LoadPending(g)
    <3>1. bulkFile'[f] = bulkFile[f] \/ g = f
      BY <1>1, <2>2 DEF LoadPending
    <3>2. loadJob'[g].stage = "ack"
      BY <1>0, <2>2 DEF LoadPending, SetLoad, LoadType, LoadJobs
    <3>3. [QueuedRow EXCEPT !.status = "pending"].status = "pending"
      BY DEF QueuedRow
    <3>4. QED
      BY <1>2, <2>2, <3>1, <3>2, <3>3 DEF LoadPending
  <2>3. CASE ~ (Upload(g) \/ LoadPending(g))
    BY <1>3, <2>3 DEF FileStep, LoadStep, CsvWritten, EnqueueLoad, LoadRead,
                      LoadUnreadable, LoadCommit, LoadAck
  <2>4. QED
    BY <2>1, <2>2, <2>3
<1>4. ASSUME NEW t \in Ticks, Start(t) \/ TickStep(t) PROVE RowMoves(f)
  <2>1. CASE MarkProcessing(t)
    <3>1. tick'[t].pc = "v_list" /\ tick[t].file \in Files
      BY <1>0, <2>1 DEF MarkProcessing, SetTick, TickType, TickRecords
    <3>2. bulkFile'[f] = bulkFile[f] \/ tick[t].file = f
      BY <1>1, <2>1, <3>1 DEF MarkProcessing
    <3>3. [tick[t].row EXCEPT !.status = "processing"].status = "processing"
      BY <1>0 DEF Rows
    <3>4. QED
      BY <1>2, <2>1, <3>1, <3>2, <3>3 DEF MarkProcessing
  <2>2. CASE MarkReady(t)
    <3>1. tick'[t].pc = "idle" /\ tick[t].file \in Files
      BY <1>0, <2>2, IdleTickType DEF MarkReady, SetTick, TickType
    <3>2. bulkFile'[f] = bulkFile[f] \/ tick[t].file = f
      BY <1>1, <2>2, <3>1 DEF MarkReady
    <3>3. [tick[t].row EXCEPT !.status = "ready"].status = "ready"
      BY <1>0 DEF Rows
    <3>4. QED
      BY <1>2, <2>2, <3>1, <3>2, <3>3 DEF MarkReady
  <2>3. CASE MarkGreyList(t)
    <3> DEFINE s == IF tick[t].found = {} THEN "done" ELSE "progress"
    <3>1. tick[t].file \in Files
      BY <1>0, <2>3 DEF MarkGreyList, TickType
    <3>2. bulkFile'[f] = bulkFile[f] \/ tick[t].file = f
      BY <1>1, <2>3, <3>1 DEF MarkGreyList
    <3>3. [tick[t].row EXCEPT !.status = s].status = s
      BY <1>0 DEF Rows
    <3>4. tick[t].file = f => bulkFile'[f].status = s
      BY <1>2, <2>3, <3>3 DEF MarkGreyList
    <3>5. QED
      BY <2>3, <3>2, <3>4 DEF MarkGreyList
  <2>4. CASE MarkComplete(t)
    <3>1. tick[t].file \in Files
      BY <1>0, <2>4 DEF MarkComplete, TickType
    <3>2. bulkFile'[f] = bulkFile[f] \/ tick[t].file = f
      BY <1>1, <2>4, <3>1 DEF MarkComplete
    <3>3. QED
      BY <1>2, <2>4, <3>2 DEF MarkComplete
  <2>5. CASE ~ (\/ MarkProcessing(t) \/ MarkReady(t) \/ MarkGreyList(t)
                \/ MarkComplete(t))
    BY <1>4, <2>5 DEF Start, PickPending, PickReady, PickDone, Pick, TickStep,
         FindRow, ListEmails, ValidateEmail, ListForGrey, ScanEmail,
         AddGreyJob, MergeCsv, MergeUnreadable, Notify
  <2>6. QED
    BY <2>1, <2>2, <2>3, <2>4, <2>5
<1>5. ASSUME NEW j \in GreyJobs, JobStep(j) PROVE RowMoves(f)
  <2>1. CASE SaveDone(j)
    <3>1. greyJob[j].file \in Files
      BY <1>0, <2>1 DEF SaveDone, JobType
    <3>2. bulkFile'[f] = bulkFile[f] \/ greyJob[j].file = f
      BY <1>1, <2>1, <3>1 DEF SaveDone
    <3>3. [greyJob[j].row EXCEPT !.status = "done"].status = "done"
      BY <1>0 DEF Rows
    <3>4. QED
      BY <1>2, <2>1, <3>2, <3>3 DEF SaveDone
  <2>2. CASE ~ SaveDone(j)
    BY <1>5, <2>2 DEF JobStep, StartGreyJob, Recheck, FindForDone, AckGreyJob
  <2>3. QED
    BY <2>1, <2>2
<1>6. CASE (\E e \in Emails : ValidateSingle(e) \/ Webhook(e)) \/ Fault
  BY <1>6 DEF ValidateSingle, Webhook, Fault, TickFails, LoadFails, CsvFails,
              GreyJobFails, RecheckFails, Crash
<1>7. CASE UNCHANGED vars
  BY <1>7 DEF vars
<1>8. QED
  BY <1>3, <1>4, <1>5, <1>6, <1>7 DEF Next

\* Stored emails and rows stay; a final verdict stays, unless Verify+ events reopen
\* it; and an email is kept by the batch that leaves a row for it.
EmailMoves(f) ==
  /\ fileEmails[f] \subseteq fileEmails'[f]
  /\ \A e \in Emails :
       /\ processed[e] # "none" => processed'[e] # "none"
       /\ e \notin VerifyPlus /\ processed'[e] = "grey" =>
            processed[e] \in {"none", "grey"}
  /\ \A e \in kept'[f] :
       \/ e \in kept[f]
       \/ /\ processed'[e] # "none"
          /\ \E t \in Ticks : /\ tick[t].pc = "v_run" /\ tick[t].file = f
                              /\ e \in tick[t].todo

\* How the emails of a file and their verdicts change.
LEMMA EmailsMove ==
  ASSUME TypeOK, [Next]_vars, NEW f \in Files
  PROVE  EmailMoves(f)
<1> USE DEF fileVars, loadVars, ghosts, EmailMoves
<1>0. /\ TickType /\ JobType
      /\ \A t \in Ticks : tick[t].todo \subseteq Emails
      /\ \A j \in GreyJobs : greyJob[j].todo \subseteq Emails
      /\ fileEmails \in [Files -> SUBSET Emails]
      /\ kept \in [Files -> SUBSET Emails]
      /\ processed \in [Emails -> Verdicts]
  BY DEF TypeOK, TickType, TickRecords, JobType, GreyRecords, RestType
<1>1. ASSUME NEW e \in Emails, NEW verdict, SaveProcessed(e, verdict), NEW d \in Emails
      PROVE  /\ processed[d] # "none" => processed'[d] # "none"
             /\ processed'[d] = "grey" => processed[d] \in {"none", "grey"}
  BY <1>0, <1>1 DEF SaveProcessed
<1>2. CASE UNCHANGED <<fileEmails, processed, kept>>
  BY <1>0, <1>2
<1>3. ASSUME NEW g \in Files, FileStep(g) PROVE EmailMoves(f)
  <2>1. CASE LoadCommit(g)
    BY <1>0, <2>1 DEF LoadCommit
  <2>2. CASE ~ LoadCommit(g)
    BY <1>2, <1>3, <2>2 DEF FileStep, LoadStep, Upload, CsvWritten, EnqueueLoad,
       LoadRead, LoadUnreadable, LoadPending, LoadAck
  <2>3. QED
    BY <2>1, <2>2
<1>4. ASSUME NEW t \in Ticks, Start(t) \/ TickStep(t) PROVE EmailMoves(f)
  <2>1. CASE ValidateEmail(t)
    <3>1. PICK e \in tick[t].todo, verdict \in Verdicts :
            /\ SaveProcessed(e, verdict)
            /\ kept' = [kept EXCEPT ![tick[t].file] =
                 IF processed'[e] = "none" THEN @ ELSE @ \union {e}]
      BY <2>1 DEF ValidateEmail
    <3>2. e \in Emails /\ tick[t].pc = "v_run"
      BY <1>0, <2>1, <3>1 DEF ValidateEmail
    <3>3. \A d \in kept'[f] :
            \/ d \in kept[f]
            \/ d = e /\ processed'[e] # "none" /\ tick[t].file = f
      BY <1>0, <3>1
    <3>4. UNCHANGED fileEmails
      BY <2>1 DEF ValidateEmail
    <3>5. QED
      BY <1>1, <3>1, <3>2, <3>3, <3>4
  <2>2. CASE ~ ValidateEmail(t)
    BY <1>2, <1>4, <2>2 DEF Start, PickPending, PickReady, PickDone, Pick,
         TickStep, FindRow, MarkProcessing, ListEmails, MarkReady, ListForGrey,
         ScanEmail, AddGreyJob, MarkGreyList, MergeCsv, MergeUnreadable,
         MarkComplete, Notify
  <2>3. QED
    BY <2>1, <2>2
<1>5. ASSUME NEW j \in GreyJobs, JobStep(j) PROVE EmailMoves(f)
  <2>1. CASE Recheck(j)
    <3>1. PICK e \in greyJob[j].todo :
            processed' = [processed EXCEPT ![e] = IF @ = "none" THEN "none"
                                                                ELSE "final"]
      BY <2>1 DEF Recheck
    <3>2. UNCHANGED <<fileEmails, kept>>
      BY <2>1 DEF Recheck
    <3>3. QED
      BY <1>0, <3>1, <3>2
  <2>2. CASE ~ Recheck(j)
    BY <1>2, <1>5, <2>2 DEF JobStep, StartGreyJob, FindForDone, SaveDone, AckGreyJob
  <2>3. QED
    BY <2>1, <2>2
<1>6. ASSUME NEW e \in Emails, ValidateSingle(e) \/ Webhook(e) PROVE EmailMoves(f)
  <2>1. UNCHANGED <<fileEmails, kept>>
    BY <1>6 DEF ValidateSingle, Webhook
  <2>2. CASE ValidateSingle(e)
    BY <1>1, <2>1, <2>2 DEF ValidateSingle
  <2>3. CASE Webhook(e)
    <3>1. PICK verdict \in {"grey", "final"} :
            processed' = [processed EXCEPT ![e] = verdict]
      BY <2>3 DEF Webhook
    <3>2. e \in VerifyPlus
      BY <2>3 DEF Webhook
    <3>3. QED
      BY <1>0, <2>1, <3>1, <3>2
  <2>4. QED
    BY <1>6, <2>2, <2>3
<1>7. CASE Fault
  BY <1>2, <1>7 DEF Fault, TickFails, LoadFails, CsvFails, GreyJobFails, RecheckFails,
                    Crash
<1>8. CASE UNCHANGED vars
  BY <1>2, <1>8 DEF vars
<1>9. QED
  BY <1>3, <1>4, <1>5, <1>6, <1>7, <1>8 DEF Next

\* A grey job keeps its file and its emails, and drops an email once it is final; it
\* is enqueued with what a scan has found.
JobGoes(k) ==
  /\ greyJob[k].stage # "free" /\ greyJob'[k].file = greyJob[k].file
  /\ greyJob'[k].emails = greyJob[k].emails
  /\ greyJob'[k].stage = "waiting" =>
       greyJob[k].stage \in JobActive \union {"waiting"}
  /\ greyJob'[k].stage \in JobActive =>
       \/ greyJob[k].stage = "waiting" /\ greyJob'[k].todo = greyJob[k].emails
       \/ /\ greyJob[k].stage \in JobActive
          /\ greyJob'[k].todo \subseteq greyJob[k].todo
          /\ \A e \in greyJob[k].todo : \/ e \in greyJob'[k].todo
                                        \/ processed'[e] # "grey"
  /\ greyJob'[k].stage \in {"save", "ack"} =>
       greyJob'[k].todo = {} \/ greyJob[k].stage \in {"save", "ack"}

JobBegins(k) ==
  /\ greyJob'[k].stage = "waiting"
  /\ \E t \in Ticks :
       /\ tick[t].pc = "g_scan" /\ tick[t].todo = {}
       /\ greyJob'[k].file = tick[t].file /\ greyJob'[k].emails = tick[t].found

\* A grey job goes on with its emails, or is one that has just been queued.
LEMMA JobsMove ==
  ASSUME TypeOK, [Next]_vars, NoFailedRecheck,
         NEW k \in GreyJobs, greyJob'[k].stage # "free"
  PROVE  JobGoes(k) \/ JobBegins(k)
<1> USE DEF fileVars, loadVars, ghosts
<1> DEFINE Goal == greyJob'[k].stage # "free" => JobGoes(k) \/ JobBegins(k)
<1>0. /\ JobType /\ greyJob[k] \in GreyRecords /\ greyJob[k].stage \in JobStages
      /\ greyJob[k].stage # "free" => greyJob[k].file \in Files
      /\ processed \in [Emails -> Verdicts]
  BY DEF TypeOK, JobType, GreyRecords, RestType
<1>1. CASE greyJob'[k] = greyJob[k]
  BY <1>0, <1>1 DEF JobGoes, JobActive, JobStages
<1>2. CASE greyJob'[k] = FreeJob
  BY <1>2, FreeJobType
<1>3. ASSUME NEW j \in GreyJobs, NEW r, SetJob(j, r), j # k
      PROVE  greyJob'[k] = greyJob[k]
  BY <1>0, <1>3 DEF SetJob, JobType
<1>4. ASSUME NEW r, SetJob(k, r) PROVE greyJob'[k] = r
  BY <1>0, <1>4 DEF SetJob, JobType
<1>5. ASSUME NEW j \in GreyJobs, JobStep(j) PROVE Goal
  <2>1. CASE j # k
    BY <1>1, <1>3, <1>5, <2>1
       DEF JobStep, StartGreyJob, Recheck, FindForDone, SaveDone, AckGreyJob
  <2>2. CASE StartGreyJob(k)
    BY <1>0, <1>4, <2>2 DEF StartGreyJob, GreyRecords, JobGoes, JobActive
  <2>3. CASE Recheck(k)
    <3>1. PICK e \in greyJob[k].todo :
            /\ processed' = [processed EXCEPT ![e] = IF @ = "none" THEN "none"
                                                                   ELSE "final"]
            /\ SetJob(k, [greyJob[k] EXCEPT !.todo = @ \ {e}])
      BY <2>3 DEF Recheck
    <3>2. /\ greyJob'[k].stage = greyJob[k].stage
          /\ greyJob'[k].file = greyJob[k].file
          /\ greyJob'[k].emails = greyJob[k].emails
          /\ greyJob'[k].todo = greyJob[k].todo \ {e}
      BY <1>0, <1>4, <3>1 DEF GreyRecords
    <3>3. processed'[e] # "grey"
      BY <1>0, <3>1 DEF GreyRecords
    <3>4. QED
      BY <2>3, <3>2, <3>3 DEF Recheck, JobGoes, JobActive
  <2>4. CASE FindForDone(k)
    <3>1. /\ greyJob'[k].stage = "save" /\ greyJob'[k].file = greyJob[k].file
          /\ greyJob'[k].emails = greyJob[k].emails
          /\ greyJob'[k].todo = greyJob[k].todo
      BY <1>0, <1>4, <2>4 DEF FindForDone, GreyRecords
    <3>2. QED
      BY <2>4, <3>1 DEF FindForDone, JobGoes, JobActive
  <2>5. CASE SaveDone(k)
    <3>1. /\ greyJob'[k].stage = "ack" /\ greyJob'[k].file = greyJob[k].file
          /\ greyJob'[k].emails = greyJob[k].emails
          /\ greyJob'[k].todo = greyJob[k].todo
      BY <1>0, <1>4, <2>5 DEF SaveDone, GreyRecords
    <3>2. QED
      BY <2>5, <3>1 DEF SaveDone, JobGoes, JobActive
  <2>6. CASE AckGreyJob(k)
    BY <1>2, <1>4, <2>6 DEF AckGreyJob
  <2>7. QED
    BY <1>5, <2>1, <2>2, <2>3, <2>4, <2>5, <2>6 DEF JobStep
<1>6. ASSUME NEW t \in Ticks, Start(t) \/ TickStep(t) PROVE Goal
  <2>1. CASE AddGreyJob(t)
    <3>1. PICK j \in GreyJobs :
            SetJob(j, [FreeJob EXCEPT !.stage = "waiting", !.file = tick[t].file,
                                      !.emails = tick[t].found])
      BY <2>1 DEF AddGreyJob
    <3>2. CASE j # k
      BY <1>1, <1>3, <3>1, <3>2
    <3>3. CASE j = k
      <4>1. /\ greyJob'[k].stage = "waiting" /\ greyJob'[k].file = tick[t].file
            /\ greyJob'[k].emails = tick[t].found
        BY <1>4, <3>1, <3>3 DEF FreeJob
      <4>2. QED
        BY <2>1, <4>1 DEF AddGreyJob, JobBegins
    <3>4. QED
      BY <3>2, <3>3
  <2>2. CASE ~ AddGreyJob(t)
    BY <1>1, <1>6, <2>2 DEF Start, PickPending, PickReady, PickDone, Pick, TickStep,
       FindRow, MarkProcessing, ListEmails, ValidateEmail, MarkReady, ListForGrey,
       ScanEmail, MarkGreyList, MergeCsv, MergeUnreadable, MarkComplete, Notify
  <2>3. QED
    BY <2>1, <2>2
<1>7. CASE Fault
  <2>1. ASSUME NEW j \in GreyJobs, GreyJobFails(j) PROVE Goal
    BY <1>1, <1>2, <1>3, <1>4, <2>1 DEF GreyJobFails
  <2>2. ASSUME NEW j \in GreyJobs, RecheckFails(j) PROVE Goal
    BY <2>2 DEF RecheckFails, Suffer, NoFailedRecheck
  <2>3. CASE Crash
    <3>1. CASE greyJob[k].stage \notin JobActive
      BY <1>1, <2>3, <3>1 DEF Crash
    <3>2. CASE greyJob[k].stage \in JobActive
      <4>1. \/ greyJob'[k] = FreeJob
            \/ greyJob'[k] = [greyJob[k] EXCEPT !.stage = "waiting", !.todo = {},
                                  !.row = AbsentRow, !.stalls = @ + 1]
        BY <2>3, <3>2 DEF Crash
      <4>2. \/ greyJob'[k] = FreeJob
            \/ /\ greyJob'[k].stage = "waiting"
               /\ greyJob'[k].file = greyJob[k].file
               /\ greyJob'[k].emails = greyJob[k].emails
        BY <1>0, <4>1 DEF GreyRecords
      <4>3. QED
        BY <1>2, <3>2, <4>2 DEF JobGoes, JobActive
    <3>3. QED
      BY <3>1, <3>2
  <2>4. QED
    BY <1>1, <1>7, <2>1, <2>2, <2>3 DEF Fault, TickFails, LoadFails, CsvFails
<1>8. CASE \/ \E f \in Files : FileStep(f)
           \/ \E e \in Emails : ValidateSingle(e) \/ Webhook(e)
           \/ UNCHANGED vars
  <2>1. UNCHANGED greyJob
    BY <1>8 DEF FileStep, LoadStep, Upload, CsvWritten, EnqueueLoad, LoadRead,
      LoadUnreadable, LoadCommit, LoadPending, LoadAck, ValidateSingle, Webhook, vars
  <2>2. QED
    BY <1>1, <2>1
<1>9. Goal
  BY <1>5, <1>6, <1>7, <1>8 DEF Next
<1>10. QED
  BY <1>9

-----------------------------------------------------------------------------
(* One batch run, before the grey check *)

\* Every step keeps the batches before the grey check, and one at a time.
LEMMA NextBatchesFirst ==
  ASSUME TypeOK, LoadedBehind, BatchesFirst, [Next]_vars, PromptClaim
  PROVE  BatchesFirst'
<1> DEFINE Validating == Claiming \union Batching
<1>0. /\ copies \in [Files -> Nat] /\ TickType /\ TickType' /\ JobType /\ JobType'
      /\ \A t \in Ticks : tick[t].pc # "idle" => tick[t].file \in Files
      /\ \A t \in Ticks : tick'[t].pc # "idle" => tick'[t].file \in Files
      /\ \A j \in GreyJobs : greyJob'[j].stage # "free" => greyJob'[j].file \in Files
  BY NextType DEF TypeOK, RestType, TickType, JobType
<1>1. /\ \A pc : pc \in Claiming => StatusesAt(pc) = {"pending"}
      /\ \A pc : pc \in Batching => StatusesAt(pc) = {"processing"}
      /\ \A pc : pc \notin Validating => StatusesAt(pc) = Validated
      /\ {"absent", "queued", "pending", "processing"} \intersect Validated = {}
  BY DEF StatusesAt, Claiming, Batching, Validated
<1>2. ASSUME NEW f \in Files, copies[f] = 1, bulkFile[f].status \in Validated
      PROVE  bulkFile'[f].status \in Validated
  <2>1. /\ loadJob[f].stage # "status"
        /\ \A t \in Ticks : tick[t].pc # "idle" /\ tick[t].file = f =>
             tick[t].pc \notin Validating
    BY <1>1, <1>2 DEF BatchesFirst
  <2>2. RowMoves(f)
    BY RowsMove
  <2>3. QED
    BY <1>2, <2>1, <2>2 DEF RowMoves, Claiming, Batching, Validated
<1>3. ASSUME NEW f \in Files, copies'[f] = 1,
             NEW t \in Ticks, tick'[t].pc # "idle", tick'[t].file = f
      PROVE  copies[f] = 1
  <2>1. copies[f] > 0
    BY <1>0, <1>3, InvocationsKeepFiles DEF LoadedBehind, LoadedBeforePending
  <2>2. QED
    BY <1>0, <1>3, <2>1, LoadsAreCounted
<1>4. ASSUME NEW f \in Files, copies'[f] = 1,
             NEW t \in Ticks, tick'[t].pc # "idle", tick'[t].file = f
      PROVE  bulkFile'[f].status \in StatusesAt(tick'[t].pc)
  <2>0. copies[f] = 1
    BY <1>3, <1>4
  <2>1. CASE Begins(t)
    BY <1>4, <2>1 DEF Begins, StatusesAt, Claiming, Batching, Validated
  <2>2. CASE Goes(t)
    <3>1. /\ tick[t].pc # "idle" /\ tick[t].file = f
          /\ bulkFile[f].status \in StatusesAt(tick[t].pc)
          /\ \/ StatusesAt(tick'[t].pc) = StatusesAt(tick[t].pc)
             \/ bulkFile'[f].status = "processing" /\ tick'[t].pc = "v_list"
      BY <1>4, <2>0, <2>2 DEF Goes, PlaceMoves, BatchesFirst
    <3>2. CASE bulkFile'[f] = bulkFile[f]
      BY <3>1, <3>2 DEF StatusesAt, Claiming, Batching
    <3>3. CASE tick[t].pc \notin Validating
      <4>1. bulkFile[f].status \in Validated
        BY <1>1, <3>1, <3>3
      <4>2. bulkFile'[f].status \in Validated
        BY <1>2, <2>0, <4>1
      <4>3. QED
        BY <1>1, <3>1, <3>3, <4>2 DEF Batching, StatusesAt, Claiming
    <3>4. CASE tick[t].pc \in Validating /\ bulkFile'[f] # bulkFile[f]
      <4>1. bulkFile[f].status \in {"pending", "processing"}
        BY <1>1, <3>1, <3>4
      <4>2. /\ loadJob[f].stage # "status"
            /\ \A j \in GreyJobs : greyJob[j].stage # "free" => greyJob[j].file # f
        BY <1>1, <2>0, <4>1 DEF BatchesFirst
      <4>3. PICK u \in Ticks :
              /\ tick[u].file = f
              /\ \/ tick[u].pc \in {"g_mark", "r_complete"}
                 \/ /\ tick[u].pc = "v_claim" /\ tick'[u].pc = "v_list"
                    /\ bulkFile'[f].status = "processing"
                 \/ tick[u].pc = "v_ready" /\ tick'[u].pc = "idle"
        <5>1. RowMoves(f)
          BY RowsMove
        <5>2. QED
          BY <3>4, <4>1, <4>2, <5>1 DEF RowMoves
      <4>4. tick[u].pc \in Validating
        BY <1>1, <2>0, <4>1, <4>3 DEF BatchesFirst
      <4>5. u = t
        BY <2>0, <3>1, <3>4, <4>3, <4>4 DEF BatchesFirst
      <4>6. QED
        BY <1>4, <4>3, <4>4, <4>5 DEF StatusesAt, Claiming, Batching
    <3>5. QED
      BY <3>2, <3>3, <3>4
  <2>3. QED
    BY <1>4, <2>1, <2>2, InvocationMoves
<1>5. ASSUME NEW f \in Files, copies'[f] = 1,
             NEW j \in GreyJobs, greyJob'[j].stage # "free", greyJob'[j].file = f
      PROVE  bulkFile'[f].status \in Validated
  <2>1. \/ greyJob[j].stage # "free" /\ greyJob[j].file = f
        \/ \E t \in Ticks : tick[t].pc = "g_scan" /\ tick[t].file = f
    BY <1>5, JobsKeepFiles
  <2>2. copies[f] > 0
    BY <2>1 DEF LoadedBehind
  <2>3. copies[f] = 1
    BY <1>0, <1>5, <2>2, LoadsAreCounted
  <2>4. bulkFile[f].status \in Validated
    BY <2>1, <2>3 DEF BatchesFirst, StatusesAt, Claiming, Batching
  <2>5. QED
    BY <1>2, <2>3, <2>4
<1>6. ASSUME NEW f \in Files, copies'[f] = 1, loadJob'[f].stage = "status"
      PROVE  bulkFile'[f].status \in {"absent", "queued"}
  <2>1. CASE copies'[f] = copies[f] + 1 /\ UNCHANGED bulkFile
    BY <1>0, <1>6, <2>1 DEF LoadedBehind, LoadedBeforePending
  <2>2. CASE copies'[f] = copies[f] /\ loadJob[f].stage = "status"
    <3>1. bulkFile[f].status \in {"absent", "queued"}
      BY <1>6, <2>2 DEF BatchesFirst
    <3>2. /\ \A t \in Ticks : tick[t].pc # "idle" => tick[t].file # f
          /\ \A j \in GreyJobs : greyJob[j].stage # "free" => greyJob[j].file # f
      BY <1>1, <1>6, <2>2, <3>1 DEF BatchesFirst
    <3>3. RowMoves(f)
      BY RowsMove
    <3>4. QED
      BY <1>6, <3>1, <3>2, <3>3 DEF RowMoves
  <2>3. QED
    BY <1>6, <2>1, <2>2, LoadsAreCounted
<1>7. ASSUME NEW t \in Ticks, NEW u \in Ticks,
             tick'[t].pc \in Validating, tick'[u].pc \in Validating,
             tick'[t].file = tick'[u].file, copies'[tick'[t].file] = 1, t # u
      PROVE  FALSE
  <2> DEFINE f == tick'[t].file
  <2>0. /\ tick'[t].pc # "idle" /\ tick'[u].pc # "idle" /\ f \in Files
        /\ copies[f] = 1
    BY <1>0, <1>3, <1>7 DEF Claiming, Batching
  <2>1. ASSUME NEW v \in {t, u}, Goes(v)
        PROVE  tick[v].pc \in Validating /\ tick[v].file = f
    BY <1>1, <1>7, <2>1 DEF Goes, PlaceMoves, Claiming
  <2>2. ASSUME NEW v \in {t, u}, NEW w \in {t, u}, v # w, Begins(v), Goes(w)
        PROVE  FALSE
    <3>1. /\ bulkFile[f].status = "pending"
          /\ \A x \in Ticks : tick[x].pc \notin Claiming
      BY <1>7, <2>2 DEF Begins, Claiming, Batching
    <3>2. tick[w].pc \in Batching /\ tick[w].file = f
      BY <2>1, <2>2, <3>1
    <3>3. bulkFile[f].status = "processing"
      BY <1>1, <2>0, <3>2 DEF BatchesFirst, Batching
    <3>4. QED
      BY <3>1, <3>3
  <2>3. CASE Begins(t) /\ Begins(u)
    BY <1>7, <2>0, <2>3 DEF Begins
  <2>4. CASE Goes(t) /\ Goes(u)
    BY <1>7, <2>0, <2>1, <2>4 DEF BatchesFirst
  <2>5. QED
    BY <1>7, <2>0, <2>2, <2>3, <2>4, InvocationMoves
<1>8. QED
  BY <1>4, <1>5, <1>6, <1>7 DEF BatchesFirst

\* Every step keeps a row for each kept email.
LEMMA NextKeptHasRow ==
  ASSUME TypeOK, KeptHasRow, [Next]_vars, PromptClaim
  PROVE  KeptHasRow'
<1>0. /\ kept' \in [Files -> SUBSET Emails]
      /\ \A t \in Ticks : tick[t].pc # "idle" => tick[t].file \in Files
      /\ \A f \in Files : EmailMoves(f)
  BY NextType, EmailsMove DEF TypeOK, RestType, TickType
<1>1. ASSUME NEW f \in Files, NEW e \in kept'[f]
      PROVE  processed'[e] # "none" /\ e \in fileEmails'[f]
  <2>1. e \in Emails
    BY <1>0
  <2>2. e \in fileEmails[f] /\ (processed[e] # "none" \/ processed'[e] # "none")
    BY <1>0, <1>1 DEF EmailMoves, KeptHasRow
  <2>3. QED
    BY <1>0, <2>1, <2>2 DEF EmailMoves
<1>2. ASSUME NEW t \in Ticks, tick'[t].pc = "v_run"
      PROVE  tick'[t].todo \subseteq fileEmails'[tick'[t].file]
  <2>1. Goes(t)
    BY <1>2, InvocationMoves DEF Begins
  <2>2. /\ tick'[t].file = tick[t].file /\ tick[t].file \in Files
        /\ tick'[t].todo \subseteq fileEmails[tick[t].file]
    BY <1>0, <1>2, <2>1 DEF Goes, PlaceMoves, BatchMoves, KeptHasRow
  <2>3. QED
    BY <1>0, <2>2 DEF EmailMoves
<1>3. QED
  BY <1>1, <1>2 DEF KeptHasRow
-----------------------------------------------------------------------------
(* Nothing turns grey again, and what is grey is known *)

\* A file whose batches are over gets no further grey email.
LEMMA GreyIsOld ==
  ASSUME TypeOK, KeptHasRow, BatchesFirst, [Next]_vars,
         NEW f \in Files, copies[f] = 1, bulkFile[f].status \in Validated,
         NEW e \in kept'[f] \ VerifyPlus, processed'[e] = "grey"
  PROVE  e \in kept[f] /\ processed[e] = "grey"
<1>1. EmailMoves(f) /\ e \in Emails
  BY EmailsMove, NextType DEF TypeOK, RestType
<1>2. \A t \in Ticks : tick[t].file = f => tick[t].pc # "v_run"
  BY DEF BatchesFirst, StatusesAt, Claiming, Batching, Validated
<1>3. e \in kept[f]
  BY <1>1, <1>2 DEF EmailMoves
<1>4. processed[e] # "none"
  BY <1>3 DEF KeptHasRow
<1>5. QED
  BY <1>1, <1>3, <1>4 DEF EmailMoves

\* NoGreyBut after the step, for what is left to do after the step.
NoGreyNext(f, T) ==
  copies'[f] = 1 => \A e \in kept'[f] \ VerifyPlus : processed'[e] = "grey" => e \in T

\* Every step leaves the grey emails known to a scan or a job.
LEMMA NextGreyIsKnown ==
  ASSUME TypeOK, LoadedBehind, GreyBehind, [Next]_vars, PromptClaim, NoFailedRecheck
  PROVE  GreyIsKnown'
<1>0. /\ copies \in [Files -> Nat]
      /\ \A t \in Ticks : tick[t].pc # "idle" => tick[t].file \in Files
      /\ \A t \in Ticks : tick'[t].pc # "idle" => tick'[t].file \in Files
      /\ \A j \in GreyJobs : greyJob[j].stage # "free" => greyJob[j].file \in Files
      /\ \A j \in GreyJobs : greyJob'[j].stage # "free" => greyJob'[j].file \in Files
  BY NextType DEF TypeOK, RestType, TickType, JobType
<1> USE DEF GreyBehind
<1>1. ASSUME NEW f \in Files, copies[f] > 0,
             copies[f] = 1 => bulkFile[f].status \in Validated,
             NEW S, NoGreyBut(f, S), NEW T,
             \A e \in (S \intersect kept'[f]) \ VerifyPlus :
               processed[e] = "grey" /\ processed'[e] = "grey" => e \in T
      PROVE  NoGreyNext(f, T)
  <2>1. ASSUME copies'[f] = 1, NEW e \in kept'[f] \ VerifyPlus, processed'[e] = "grey"
        PROVE  e \in T
    <3>1. copies[f] = 1
      BY <1>0, <1>1, <2>1, LoadsAreCounted
    <3>2. e \in kept[f] /\ processed[e] = "grey"
      BY <1>1, <2>1, <3>1, GreyIsOld
    <3>3. QED
      BY <1>1, <2>1, <3>1, <3>2 DEF NoGreyBut
  <2>2. QED
    BY <2>1 DEF NoGreyNext
<1>2. ASSUME NEW t \in Ticks, tick[t].pc # "idle",
             tick[t].pc \notin Claiming \union Batching
      PROVE  LET f == tick[t].file IN
             /\ f \in Files /\ copies[f] > 0
             /\ copies[f] = 1 => bulkFile[f].status \in Validated
  BY <1>0, <1>2 DEF LoadedBehind, BatchesFirst, StatusesAt
<1>3. ASSUME NEW j \in GreyJobs, greyJob[j].stage # "free"
      PROVE  LET f == greyJob[j].file IN
             /\ f \in Files /\ copies[f] > 0
             /\ copies[f] = 1 => bulkFile[f].status \in Validated
  BY <1>0, <1>3 DEF LoadedBehind, BatchesFirst
<1>4. ASSUME NEW t \in Ticks, tick'[t].pc \in Scanning
      PROVE  /\ NoGreyNext(tick'[t].file, tick'[t].todo \union tick'[t].found)
             /\ tick'[t].pc # "g_scan" => tick'[t].todo = {}
  <2> DEFINE f == tick[t].file
             S == tick[t].todo \union tick[t].found
             T == tick'[t].todo \union tick'[t].found
  <2>0. /\ Goes(t) /\ tick'[t].file = f /\ tick[t].pc # "idle"
        /\ tick[t].pc \notin Claiming \union Batching
    <3>1. Goes(t)
      BY <1>4, InvocationMoves DEF Begins, Scanning
    <3>2. QED
      BY <1>4, <3>1 DEF Goes, PlaceMoves, Scanning, StatusesAt, Claiming,
                        Batching, Validated
  <2>1. /\ f \in Files /\ copies[f] > 0
        /\ copies[f] = 1 => bulkFile[f].status \in Validated
    BY <1>2, <2>0
  <2>2. CASE /\ tick[t].pc \in Scanning
             /\ \A e \in S : e \in T \/ processed[e] # "grey"
             /\ tick'[t].pc # "g_scan" =>
                  /\ tick'[t].todo = tick[t].todo
                  /\ tick[t].pc = "g_scan" => tick[t].todo = {}
    <3>1. NoGreyBut(f, S) /\ (tick[t].pc # "g_scan" => tick[t].todo = {})
      BY <2>2 DEF GreyIsKnown, Scanning
    <3>2. NoGreyNext(f, T)
      BY <1>1, <2>1, <2>2, <3>1
    <3>3. QED
      BY <2>0, <2>2, <3>1, <3>2
  <2>3. CASE tick'[t].pc = "g_scan" /\ tick'[t].todo = fileEmails[f]
    <3>1. NoGreyBut(f, fileEmails[f])
      BY <2>1 DEF KeptHasRow, NoGreyBut
    <3>2. NoGreyNext(f, T)
      BY <1>1, <2>1, <2>3, <3>1
    <3>3. QED
      BY <2>0, <2>3, <3>2
  <2>4. QED
    BY <1>4, <2>0, <2>2, <2>3 DEF Goes, ScanMoves
<1>5. ASSUME NEW t \in Ticks, tick'[t].pc \in Reporting
      PROVE  NoGreyNext(tick'[t].file, {})
  <2> DEFINE f == tick'[t].file
  <2>1. CASE Goes(t)
    <3>1. tick[t].pc \in Reporting /\ tick[t].file = f
      BY <1>5, <2>1 DEF Goes, PlaceMoves
    <3>2. NoGreyBut(f, {})
      BY <3>1 DEF GreyIsKnown, Reporting
    <3>3. /\ f \in Files /\ copies[f] > 0
          /\ copies[f] = 1 => bulkFile[f].status \in Validated
      BY <1>2, <3>1 DEF Reporting, Claiming, Batching
    <3>4. QED
      BY <1>1, <3>2, <3>3
  <2>2. CASE Begins(t)
    <3>1. /\ f \in Files /\ bulkFile[f].status = "done"
          /\ UNCHANGED <<copies, processed, kept>>
      BY <1>5, <2>2 DEF Begins, Reporting
    <3>2. QED
      BY <3>1 DEF NoGreyAfterCheck, NoGreyNext
  <2>3. QED
    BY <1>5, <2>1, <2>2, InvocationMoves DEF Reporting
<1>6. ASSUME NEW j \in GreyJobs, greyJob'[j].stage = "waiting"
      PROVE  NoGreyNext(greyJob'[j].file, greyJob'[j].emails)
  <2> DEFINE f == greyJob'[j].file
  <2>1. CASE JobGoes(j)
    <3>1. /\ greyJob[j].stage # "free" /\ greyJob[j].file = f
          /\ greyJob'[j].emails = greyJob[j].emails
          /\ greyJob[j].stage \in JobActive \union {"waiting"}
      BY <1>6, <2>1 DEF JobGoes
    <3>2. NoGreyBut(f, greyJob[j].emails)
      BY <3>1 DEF GreyIsKnown, NoGreyBut
    <3>3. QED
      BY <1>1, <1>3, <3>1, <3>2
  <2>2. CASE JobBegins(j)
    <3>1. PICK t \in Ticks :
            /\ tick[t].pc = "g_scan" /\ tick[t].todo = {}
            /\ f = tick[t].file /\ greyJob'[j].emails = tick[t].found
      BY <2>2 DEF JobBegins
    <3>2. NoGreyBut(f, greyJob'[j].emails)
      BY <3>1 DEF GreyIsKnown, NoGreyBut
    <3>3. /\ f \in Files /\ copies[f] > 0
          /\ copies[f] = 1 => bulkFile[f].status \in Validated
      BY <1>2, <3>1 DEF Claiming, Batching
    <3>4. QED
      BY <1>1, <3>2, <3>3
  <2>3. QED
    BY <1>6, <2>1, <2>2, JobsMove
<1>7. ASSUME NEW j \in GreyJobs, greyJob'[j].stage \in JobActive
      PROVE  /\ NoGreyNext(greyJob'[j].file, greyJob'[j].todo)
             /\ greyJob'[j].todo \subseteq greyJob'[j].emails
             /\ greyJob'[j].stage \in {"save", "ack"} => greyJob'[j].todo = {}
  <2> DEFINE f == greyJob'[j].file
  <2>0. JobGoes(j) /\ greyJob[j].stage # "free" /\ greyJob[j].file = f
    <3>1. JobGoes(j)
      BY <1>7, JobsMove DEF JobActive, JobBegins
    <3>2. QED
      BY <3>1 DEF JobGoes
  <2>1. CASE greyJob[j].stage = "waiting" /\ greyJob'[j].todo = greyJob[j].emails
    <3>1. NoGreyBut(f, greyJob'[j].todo)
      BY <2>0, <2>1 DEF GreyIsKnown
    <3>2. NoGreyNext(f, greyJob'[j].todo)
      BY <1>1, <1>3, <2>0, <3>1
    <3>3. QED
      BY <2>0, <2>1, <3>2 DEF JobGoes
  <2>2. CASE /\ greyJob[j].stage \in JobActive
             /\ greyJob'[j].todo \subseteq greyJob[j].todo
             /\ \A e \in greyJob[j].todo : \/ e \in greyJob'[j].todo
                                           \/ processed'[e] # "grey"
    <3>1. /\ NoGreyBut(f, greyJob[j].todo)
          /\ greyJob[j].todo \subseteq greyJob[j].emails
          /\ greyJob[j].stage \in {"save", "ack"} => greyJob[j].todo = {}
      BY <2>0, <2>2 DEF GreyIsKnown
    <3>2. NoGreyNext(f, greyJob'[j].todo)
      BY <1>1, <1>3, <2>0, <2>2, <3>1
    <3>3. QED
      BY <2>0, <2>2, <3>1, <3>2 DEF JobGoes
  <2>3. QED
    BY <1>7, <2>0, <2>1, <2>2 DEF JobGoes
<1>8. QED
  BY <1>4, <1>5, <1>6, <1>7
     DEF GreyIsKnown, NoGreyBut, NoGreyNext, Scanning, Reporting, JobActive

\* No step completes a grey check that left an email grey.
LEMMA NextNoGrey ==
  ASSUME TypeOK, LoadedBehind, GreyBehind, [Next]_vars, PromptClaim
  PROVE  NoGreyAfterCheck'
<1> USE DEF GreyBehind
<1> SUFFICES ASSUME NEW f \in Files, bulkFile'[f].status \in {"done", "complete"},
                    copies'[f] = 1, NEW e \in kept'[f] \ VerifyPlus,
                    processed'[e] = "grey"
             PROVE  FALSE
  BY DEF NoGreyAfterCheck
<1>1. copies[f] > 0
  BY RowsAreOwned, LoadsAreCounted DEF LoadedBehind, LoadedBeforePending, TypeOK, RestType
<1>2. copies[f] = 1
  BY <1>1, LoadsAreCounted DEF TypeOK, RestType
<1>3. RowMoves(f)
  BY RowsMove
<1>4. bulkFile[f].status \in Validated => e \in kept[f] /\ processed[e] = "grey"
  BY <1>2, GreyIsOld
<1>5. CASE bulkFile'[f] = bulkFile[f]
  BY <1>2, <1>4, <1>5 DEF NoGreyAfterCheck, Validated
<1>6. CASE \E t \in Ticks : /\ tick[t].file = f
                            /\ \/ tick[t].pc = "g_mark" /\ tick[t].found = {}
                               \/ tick[t].pc = "r_complete"
  <2>1. bulkFile[f].status \in Validated
    BY <1>2, <1>6 DEF BatchesFirst, StatusesAt, Claiming, Batching
  <2>2. NoGreyBut(f, {})
    BY <1>6 DEF GreyIsKnown
  <2>3. QED
    BY <1>2, <1>4, <2>1, <2>2 DEF NoGreyBut
<1>7. CASE \E j \in GreyJobs : greyJob[j].stage = "save" /\ greyJob[j].file = f
  <2>1. bulkFile[f].status \in Validated
    BY <1>2, <1>7 DEF BatchesFirst
  <2>2. NoGreyBut(f, {})
    BY <1>7 DEF GreyIsKnown, JobActive
  <2>3. QED
    BY <1>2, <1>4, <2>1, <2>2 DEF NoGreyBut
<1>8. QED
  BY <1>3, <1>5, <1>6, <1>7 DEF RowMoves

\* At first nothing is kept and nobody is at work.
LEMMA InitGrey == Init => GreyBehind
BY IdleTickType, FreeJobType
   DEF Init, GreyBehind, NoGreyAfterCheck, BatchesFirst, KeptHasRow, GreyIsKnown,
       AbsentRow, Claiming, Batching, JobActive

\* As long as the claim of a validation is prompt and no re-check fails, what is still
\* grey is known to a scan or a grey job, under crashes, failed database calls, lost
\* CSVs and every overlap of the grey and the report cron.
THEOREM GreyCorrect == PromptClaim /\ NoFailedRecheck => (Spec => []GreyBehind)
<1> SUFFICES ASSUME PromptClaim, NoFailedRecheck PROVE Spec => []GreyBehind
  OBVIOUS
<1>1. TypeOK /\ DataBehindStatus /\ GreyBehind /\ [Next]_vars => GreyBehind'
  BY NextBatchesFirst, NextKeptHasRow, NextGreyIsKnown, NextNoGrey
     DEF GreyBehind, DataBehindStatus
<1>2. Init => GreyBehind
  BY InitGrey
<1>3. QED
  BY <1>1, <1>2, TypeCorrect, DataCorrect, PTL DEF Spec

\* Once the grey check of a file loaded once is over, no email that its batches left
\* with a row is still grey-listed (queue.service.ts:107), as long as the claim of a
\* validation is prompt and no re-check fails: a crash, a lost call of a cron or of the
\* grey job and overlapping invocations cannot cause it.
THEOREM NoGreyAfterCheckCorrect ==
  PromptClaim /\ NoFailedRecheck => (Spec => []NoGreyAfterCheck)
<1>1. GreyBehind => NoGreyAfterCheck
  BY DEF GreyBehind
<1>2. QED
  BY <1>1, GreyCorrect, PTL
=============================================================================
