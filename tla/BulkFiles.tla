------------------------------ MODULE BulkFiles ------------------------------
(***************************************************************************)
(* The life of an uploaded CSV file.  Three kinds of actor move it, and    *)
(* meet only in the database and in the Bull queue:                        *)
(*                                                                         *)
(*   - the upload request (bulk-files.controller.ts) inserts the row,      *)
(*     starts writing the CSV without waiting for it, and enqueues a job;  *)
(*   - jobs of the queue (queue.service.ts): the load job copies the CSV   *)
(*     into bulk_file_emails, the grey job re-checks grey-listed emails;   *)
(*   - three crons that fire every minute (scheduler.service.ts): one      *)
(*     validates a pending file, one enqueues the grey job, one reports.   *)
(*                                                                         *)
(* A step is what runs between two awaits on the database, Redis or the    *)
(* file system.  Each update of a row is a read followed by a write of the *)
(* WHOLE row (updateBulkFile, save), so a step may write a stale snapshot. *)
(***************************************************************************)
EXTENDS Naturals, FiniteSets

CONSTANTS
  Files,         \* ids of bulk_files rows, in the order they are inserted
  Emails,        \* email addresses
  Contents,      \* Contents[f]: the emails of the CSV uploaded as file f
  Owned,         \* the files whose user row exists
  NoMx,          \* the emails whose domain has no MX record DNS can find
  Outlook,       \* the emails whose mail exchanger is an outlook.com host
  VerifyPlus,    \* the emails a Verify+ mail was sent to (webhook events)
  Misquoted,     \* the files whose CSV has a quote inside an unquoted field:
                 \* the upload parses it (relax_quotes), readCsvFile does not
  Ticks,         \* slots for running invocations of the three crons
  GreyJobs,      \* slots for grey jobs in the queue
  NoJob,         \* not a job
  SlowHandlers,  \* the crons whose claim may outlast the one-minute period
  FaultKinds,    \* the faults that may happen, a subset of Faults
  MaxFaults,     \* bound on the number of faults of a behaviour
  MaxStalled     \* Bull's maxStalledCount: re-runs of a job a crash stalled

Handlers == {"validate", "grey", "report"}
Faults == {"crash", "dberror", "recheck", "csv"}

ASSUME FilesAssumption == Files \subseteq Nat \ {0}
ASSUME ContentsAssumption ==
  Contents \in [Files -> (SUBSET Emails) \ {{}}]
ASSUME SubsetsAssumption ==
  /\ Owned \subseteq Files
  /\ NoMx \subseteq Emails
  /\ Outlook \subseteq Emails
  /\ VerifyPlus \subseteq Emails
  /\ Misquoted \subseteq Files
ASSUME JobsAssumption == NoJob \notin GreyJobs
ASSUME FaultsAssumption ==
  /\ SlowHandlers \subseteq Handlers
  /\ FaultKinds \subseteq Faults
  /\ MaxFaults \in Nat
  /\ MaxStalled \in Nat

VARIABLES
  bulkFile,    \* bulk_files: [status, report], report = counts and folder set
  csv,         \* the uploaded file on disk
  loadJob,     \* the job that loads file f: [stage, read, stalls]
  fileEmails,  \* bulk_file_emails: the addresses stored for file f
  copies,      \* how many times the rows of file f were inserted
  processed,   \* processed_emails: the row of an email, by sub status
  tick,        \* running cron invocations
  greyJob,     \* grey jobs in Redis or running
  notices,     \* completion mails enqueued for file f
  faults,      \* faults so far
  tried,       \* history: emails of file f a batch has validated
  kept         \* history: those that then had a processed_emails row

fileVars == <<bulkFile, csv, notices>>
loadVars == <<loadJob, fileEmails, copies>>
ghosts == <<tried, kept>>
vars == <<bulkFile, csv, loadJob, fileEmails, copies, processed, tick,
          greyJob, notices, faults, tried, kept>>

-----------------------------------------------------------------------------
(* Values *)

Statuses == {"absent", "queued", "pending", "processing", "ready",
             "progress", "done", "complete"}
Rows == [status : Statuses, report : BOOLEAN]
AbsentRow == [status |-> "absent", report |-> FALSE]
\* Bug: the insert leaves out the status, and the entity's default applies.
BugDefaultRow == [status |-> "pending", report |-> FALSE]
\* Bug: the insert writes a status the enum does not have.
BugUnknownRow == [status |-> "uploaded", report |-> FALSE]
QueuedRow == [status |-> "queued", report |-> FALSE]

\* "grey" is GREY_LISTED; every other verdict is "final".
Verdicts == {"none", "grey", "final"}

CsvStates == {"none", "writing", "written", "lost"}

LoadStages == {"none", "adding", "waiting", "commit", "status", "ack",
               "done", "failed", "lost"}
LoadJobs == [stage : LoadStages, read : SUBSET Emails, stalls : Nat]
LoadActive == {"commit", "status", "ack"}

JobStages == {"free", "waiting", "active", "save", "ack"}
GreyRecords == [stage : JobStages, file : Files \union {0},
                emails : SUBSET Emails, todo : SUBSET Emails,
                row : Rows, stalls : Nat]
FreeJob == [stage |-> "free", file |-> 0, emails |-> {}, todo |-> {},
            row |-> AbsentRow, stalls |-> 0]
JobActive == {"active", "save", "ack"}

\* The awaits of runFileEmailValidation (v_), processGreyListBulkFile (g_)
\* and generateCsvAndSendEmailForGreyListCheckedFiles (r_).
Pcs == {"idle", "v_find", "v_claim", "v_list", "v_run", "v_ready",
        "g_list", "g_scan", "g_find", "g_mark",
        "r_merge", "r_find", "r_complete", "r_notify"}
TickRecords == [pc : Pcs, file : Files \union {0}, row : Rows,
                todo : SUBSET Emails, found : SUBSET Emails,
                job : GreyJobs \union {NoJob}]
IdleTick == [pc |-> "idle", file |-> 0, row |-> AbsentRow, todo |-> {},
             found |-> {}, job |-> NoJob]

Init ==
  /\ bulkFile = [f \in Files |-> AbsentRow]
  /\ csv = [f \in Files |-> "none"]
  /\ loadJob = [f \in Files |-> [stage |-> "none", read |-> {}, stalls |-> 0]]
  /\ fileEmails = [f \in Files |-> {}]
  /\ copies = [f \in Files |-> 0]
  /\ processed = [e \in Emails |-> "none"]
  /\ tick = [t \in Ticks |-> IdleTick]
  /\ greyJob = [j \in GreyJobs |-> FreeJob]
  /\ notices = [f \in Files |-> 0]
  /\ faults = 0
  /\ tried = [f \in Files |-> {}]
  /\ kept = [f \in Files |-> {}]

\* A row of bulk_files is always written whole (updateBulkFile, save).
WriteRow(f, row) == bulkFile' = [bulkFile EXCEPT ![f] = row]
SetLoad(f, record) == loadJob' = [loadJob EXCEPT ![f] = record]
SetTick(t, record) == tick' = [tick EXCEPT ![t] = record]
SetJob(j, record) == greyJob' = [greyJob EXCEPT ![j] = record]

-----------------------------------------------------------------------------
(* The upload request *)

\* fs.writeFile is started and not awaited; the row is inserted as QUEUED.
Upload(f) ==
  /\ bulkFile[f].status = "absent"
  /\ \A g \in Files : g < f => bulkFile[g].status # "absent"
  /\ WriteRow(f, QueuedRow)
  /\ csv' = [csv EXCEPT ![f] = "writing"]
  /\ SetLoad(f, [loadJob[f] EXCEPT !.stage = "adding"])
  /\ UNCHANGED <<fileEmails, copies, processed, tick, greyJob, notices,
                 faults, ghosts>>

\* The callback of fs.writeFile: on success nothing but the file changes.
CsvWritten(f) ==
  /\ csv[f] = "writing"
  /\ csv' = [csv EXCEPT ![f] = "written"]
  /\ UNCHANGED <<bulkFile, notices, loadVars, processed, tick, greyJob,
                 faults, ghosts>>

\* addBulkFileToQueue: the inserted row is the job's data.
EnqueueLoad(f) ==
  /\ loadJob[f].stage = "adding"
  /\ SetLoad(f, [loadJob[f] EXCEPT !.stage = "waiting"])
  /\ UNCHANGED <<fileVars, fileEmails, copies, processed, tick, greyJob,
                 faults, ghosts>>

-----------------------------------------------------------------------------
(* The load job: saveBulkFileEmails *)

\* readCsvFile: a file still being written, or truncated by a crash, yields
\* any part of its rows.
LoadRead(f) ==
  /\ loadJob[f].stage = "waiting"
  /\ csv[f] = "written" => f \notin Misquoted
  /\ \E read \in SUBSET Contents[f] :
       /\ csv[f] = "written" => read = Contents[f]
       /\ SetLoad(f, [loadJob[f] EXCEPT !.stage = "commit", !.read = read])
  /\ UNCHANGED <<fileVars, fileEmails, copies, processed, tick, greyJob,
                 faults, ghosts>>

\* A missing file, one cut inside a quoted field or one misquoted: the job
\* fails, and one attempt is all it has.
LoadUnreadable(f) ==
  /\ loadJob[f].stage = "waiting"
  /\ csv[f] # "written" \/ f \in Misquoted
  /\ SetLoad(f, [loadJob[f] EXCEPT !.stage = "failed"])
  /\ UNCHANGED <<fileVars, fileEmails, copies, processed, tick, greyJob,
                 faults, ghosts>>

\* The transaction inserts one row per record, whatever is there already.
LoadCommit(f) ==
  /\ loadJob[f].stage = "commit"
  /\ fileEmails' = [fileEmails EXCEPT ![f] = @ \union loadJob[f].read]
  /\ copies' = [copies EXCEPT ![f] = @ + 1]
  /\ SetLoad(f, [loadJob[f] EXCEPT !.stage = "status", !.read = {}])
  /\ UNCHANGED <<fileVars, processed, tick, greyJob, faults, ghosts>>

\* BulkFile.update with {...bulkFile, PENDING}: bulkFile is the job's data.
LoadPending(f) ==
  /\ loadJob[f].stage = "status"
  /\ WriteRow(f, [QueuedRow EXCEPT !.status = "pending"])
  /\ SetLoad(f, [loadJob[f] EXCEPT !.stage = "ack"])
  /\ UNCHANGED <<csv, notices, fileEmails, copies, processed, tick, greyJob,
                 faults, ghosts>>

\* Bull moves the job to completed (and removes it).
LoadAck(f) ==
  /\ loadJob[f].stage = "ack"
  /\ SetLoad(f, [loadJob[f] EXCEPT !.stage = "done"])
  /\ UNCHANGED <<fileVars, fileEmails, copies, processed, tick, greyJob,
                 faults, ghosts>>

LoadStep(f) ==
  \/ EnqueueLoad(f) \/ LoadRead(f) \/ LoadUnreadable(f) \/ LoadCommit(f)
  \/ LoadPending(f) \/ LoadAck(f)

-----------------------------------------------------------------------------
(* What the crons share *)

\* Bug: a find for PENDING files that also returns those being validated.
BugIsOldest(f, status) ==
  \/ bulkFile[f].status = status
  \/ status = "pending" /\ bulkFile[f].status = "processing"

\* The row a find with ORDER BY id ASC and take 1 returns.
IsOldest(f, status) ==
  /\ bulkFile[f].status = status
  /\ \A g \in Files : g < f => bulkFile[g].status # status

\* From picking a file to changing its status: another invocation of the same
\* cron in this window picks the same file.
ClaimPcs ==
  [validate |-> {"v_find", "v_claim"},
   grey     |-> {"g_list", "g_scan", "g_find", "g_mark"},
   report   |-> {"r_merge", "r_find", "r_complete"}]

\* Bug: nothing keeps the invocations of a cron apart.
BugMayStart(handler) == TRUE

\* The next invocation comes a minute later: after the claim, unless slow.
MayStart(handler) ==
  \/ handler \in SlowHandlers
  \/ \A t \in Ticks : tick[t].pc \notin ClaimPcs[handler]

\* An invocation that finds no file, or one without a user, changes nothing.
Pick(t, handler, status, pc) ==
  /\ tick[t].pc = "idle"
  /\ MayStart(handler)
  /\ \E f \in Owned :
       /\ IsOldest(f, status)
       /\ SetTick(t, [IdleTick EXCEPT !.pc = pc, !.file = f])
  /\ UNCHANGED <<fileVars, loadVars, processed, greyJob, faults, ghosts>>

\* The first half of updateBulkFile: the row is read, and written back after
\* the next await with the fields the caller gives.
AfterFind ==
  [v_find |-> "v_claim", v_run |-> "v_ready", g_scan |-> "g_mark",
   g_find |-> "g_mark", r_find |-> "r_complete"]

\* Bug: the batches are started and not awaited.
BugFindRow(t) ==
  /\ tick[t].pc \in DOMAIN AfterFind
  /\ tick[t].pc = "g_scan" => (tick[t].todo = {} /\ tick[t].found = {})
  /\ SetTick(t, [tick[t] EXCEPT !.pc = AfterFind[tick[t].pc],
                                !.row = bulkFile[tick[t].file]])
  /\ UNCHANGED <<fileVars, loadVars, processed, greyJob, faults, ghosts>>

FindRow(t) ==
  /\ tick[t].pc \in DOMAIN AfterFind
  /\ tick[t].pc \in {"v_run", "g_scan"} => tick[t].todo = {}
  /\ tick[t].pc = "g_scan" => tick[t].found = {}
  /\ SetTick(t, [tick[t] EXCEPT !.pc = AfterFind[tick[t].pc],
                                !.row = bulkFile[tick[t].file]])
  /\ UNCHANGED <<fileVars, loadVars, processed, greyJob, faults, ghosts>>

-----------------------------------------------------------------------------
(* runFileEmailValidation *)

PickPending(t) == Pick(t, "validate", "pending", "v_find")

MarkProcessing(t) ==
  /\ tick[t].pc = "v_claim"
  /\ WriteRow(tick[t].file, [tick[t].row EXCEPT !.status = "processing"])
  /\ SetTick(t, [tick[t] EXCEPT !.pc = "v_list", !.row = AbsentRow])
  /\ UNCHANGED <<csv, notices, loadVars, processed, greyJob, faults, ghosts>>

\* __bulkValidate: emails without a mail exchanger and the Outlook ones are
\* left out of the batches; what is known of them is dropped.
ListEmails(t) ==
  /\ tick[t].pc = "v_list"
  /\ SetTick(t, [tick[t] EXCEPT
                    !.pc = "v_run",
                    !.todo = fileEmails[tick[t].file] \ (NoMx \union Outlook)])
  /\ UNCHANGED <<fileVars, loadVars, processed, greyJob, faults, ghosts>>

\* The row a validation leaves: an existing row is never replaced, and a
\* validation whose insert fails leaves none (saveProcessedEmail).
SaveProcessed(e, verdict) ==
  processed' = [processed EXCEPT ![e] = IF @ = "none" THEN verdict ELSE @]

\* One call of smtpValidation by a batch; errors are swallowed.
ValidateEmail(t) ==
  LET f == tick[t].file IN
  /\ tick[t].pc = "v_run"
  /\ \E e \in tick[t].todo :
       /\ \E verdict \in Verdicts : SaveProcessed(e, verdict)
       /\ SetTick(t, [tick[t] EXCEPT !.todo = @ \ {e}])
       /\ tried' = [tried EXCEPT ![f] = @ \union {e}]
       /\ kept' = [kept EXCEPT ![f] =
                     IF processed'[e] = "none" THEN @ ELSE @ \union {e}]
  /\ UNCHANGED <<fileVars, loadVars, greyJob, faults>>

MarkReady(t) ==
  /\ tick[t].pc = "v_ready"
  /\ WriteRow(tick[t].file, [tick[t].row EXCEPT !.status = "ready"])
  /\ SetTick(t, IdleTick)
  /\ UNCHANGED <<csv, notices, loadVars, processed, greyJob, faults, ghosts>>

-----------------------------------------------------------------------------
(* processGreyListBulkFile *)

PickReady(t) == Pick(t, "grey", "ready", "g_list")

ListForGrey(t) ==
  /\ tick[t].pc = "g_list"
  /\ SetTick(t, [tick[t] EXCEPT !.pc = "g_scan",
                                !.todo = fileEmails[tick[t].file]])
  /\ UNCHANGED <<fileVars, loadVars, processed, greyJob, faults, ghosts>>

\* One getProcessedEmail of the loop.
ScanEmail(t) ==
  /\ tick[t].pc = "g_scan"
  /\ \E e \in tick[t].todo :
       SetTick(t, [tick[t] EXCEPT
                     !.todo = @ \ {e},
                     !.found = IF processed[e] = "grey" THEN @ \union {e}
                                                        ELSE @])
  /\ UNCHANGED <<fileVars, loadVars, processed, greyJob, faults, ghosts>>

\* addGreyListEmailToQueue, only when a grey email was found.
AddGreyJob(t) ==
  /\ tick[t].pc = "g_scan"
  /\ tick[t].todo = {}
  /\ tick[t].found # {}
  /\ \E j \in GreyJobs :
       /\ greyJob[j].stage = "free"
       /\ SetJob(j, [FreeJob EXCEPT !.stage = "waiting",
                                    !.file = tick[t].file,
                                    !.emails = tick[t].found])
       /\ SetTick(t, [tick[t] EXCEPT !.pc = "g_find", !.job = j])
  /\ UNCHANGED <<fileVars, loadVars, processed, faults, ghosts>>

\* Bug: a file is IN PROGRESS even when no job was enqueued for it.
BugMarkGreyList(t) ==
  /\ tick[t].pc = "g_mark"
  /\ WriteRow(tick[t].file, [tick[t].row EXCEPT !.status = "progress"])
  /\ SetTick(t, IdleTick)
  /\ UNCHANGED <<csv, notices, loadVars, processed, greyJob, faults, ghosts>>

MarkGreyList(t) ==
  /\ tick[t].pc = "g_mark"
  /\ WriteRow(tick[t].file, [tick[t].row EXCEPT
                    !.status = IF tick[t].found = {} THEN "done"
                                                     ELSE "progress"])
  /\ SetTick(t, IdleTick)
  /\ UNCHANGED <<csv, notices, loadVars, processed, greyJob, faults, ghosts>>

-----------------------------------------------------------------------------
(* The grey job: runGrayListCheck *)

\* Bug: the job is enqueued without a delay.
BugStartGreyJob(j) ==
  /\ greyJob[j].stage = "waiting"
  /\ SetJob(j, [greyJob[j] EXCEPT !.stage = "active",
                                  !.todo = greyJob[j].emails])
  /\ UNCHANGED <<fileVars, loadVars, processed, tick, faults, ghosts>>

\* The job's two-minute delay outlasts the two database calls its cron makes
\* after enqueuing it.
StartGreyJob(j) ==
  /\ greyJob[j].stage = "waiting"
  /\ \A t \in Ticks : tick[t].job # j
  /\ SetJob(j, [greyJob[j] EXCEPT !.stage = "active",
                                  !.todo = greyJob[j].emails])
  /\ UNCHANGED <<fileVars, loadVars, processed, tick, faults, ghosts>>

\* Bug: a second grey listing is stored as it is.
BugRecheck(j) ==
  /\ greyJob[j].stage = "active"
  /\ \E e \in greyJob[j].todo, verdict \in {"grey", "final"} :
       /\ processed' = [processed EXCEPT ![e] = IF @ = "none" THEN "none"
                                                              ELSE verdict]
       /\ SetJob(j, [greyJob[j] EXCEPT !.todo = @ \ {e}])
  /\ UNCHANGED <<fileVars, loadVars, tick, faults, ghosts>>

\* A second grey listing counts as INVALID: every outcome is final.
Recheck(j) ==
  /\ greyJob[j].stage = "active"
  /\ \E e \in greyJob[j].todo :
       /\ processed' = [processed EXCEPT ![e] = IF @ = "none" THEN "none"
                                                              ELSE "final"]
       /\ SetJob(j, [greyJob[j] EXCEPT !.todo = @ \ {e}])
  /\ UNCHANGED <<fileVars, loadVars, tick, faults, ghosts>>

\* BulkFile.findOneBy once all the re-checks have settled.
FindForDone(j) ==
  /\ greyJob[j].stage = "active"
  /\ greyJob[j].todo = {}
  /\ SetJob(j, [greyJob[j] EXCEPT !.stage = "save",
                                  !.row = bulkFile[greyJob[j].file]])
  /\ UNCHANGED <<fileVars, loadVars, processed, tick, faults, ghosts>>

SaveDone(j) ==
  /\ greyJob[j].stage = "save"
  /\ WriteRow(greyJob[j].file, [greyJob[j].row EXCEPT !.status = "done"])
  /\ SetJob(j, [greyJob[j] EXCEPT !.stage = "ack", !.row = AbsentRow])
  /\ UNCHANGED <<csv, notices, loadVars, processed, tick, faults, ghosts>>

\* removeOnComplete: the slot is free again.
AckGreyJob(j) ==
  /\ greyJob[j].stage = "ack"
  /\ SetJob(j, FreeJob)
  /\ UNCHANGED <<fileVars, loadVars, processed, tick, faults, ghosts>>

JobStep(j) ==
  StartGreyJob(j) \/ Recheck(j) \/ FindForDone(j) \/ SaveDone(j)
  \/ AckGreyJob(j)

-----------------------------------------------------------------------------
(* generateCsvAndSendEmailForGreyListCheckedFiles *)

PickDone(t) == Pick(t, "report", "done", "r_merge")

\* __generateBulkFileResultCsv reads the uploaded CSV again, no less strictly,
\* and merges the processed_emails rows into it.  By then the write has long
\* ended.
MergeCsv(t) ==
  /\ tick[t].pc = "r_merge"
  /\ \/ csv[tick[t].file] = "written" /\ tick[t].file \notin Misquoted
     \/ csv[tick[t].file] = "lost"
  /\ SetTick(t, [tick[t] EXCEPT !.pc = "r_find"])
  /\ UNCHANGED <<fileVars, loadVars, processed, greyJob, faults, ghosts>>

\* A truncated CSV may not parse, or have no record left (data[0] throws).  The
\* load job may have read a misquoted one when it was not yet complete.
MergeUnreadable(t) ==
  /\ tick[t].pc = "r_merge"
  /\ \/ csv[tick[t].file] = "written" /\ tick[t].file \in Misquoted
     \/ csv[tick[t].file] = "lost"
  /\ SetTick(t, IdleTick)
  /\ UNCHANGED <<fileVars, loadVars, processed, greyJob, faults, ghosts>>

\* Bug: the report is saved without the new status.
BugMarkComplete(t) ==
  /\ tick[t].pc = "r_complete"
  /\ WriteRow(tick[t].file, [tick[t].row EXCEPT !.report = TRUE])
  /\ SetTick(t, [tick[t] EXCEPT !.pc = "r_notify", !.row = AbsentRow])
  /\ UNCHANGED <<csv, notices, loadVars, processed, greyJob, faults, ghosts>>

MarkComplete(t) ==
  /\ tick[t].pc = "r_complete"
  /\ WriteRow(tick[t].file, [status |-> "complete", report |-> TRUE])
  /\ SetTick(t, [tick[t] EXCEPT !.pc = "r_notify", !.row = AbsentRow])
  /\ UNCHANGED <<csv, notices, loadVars, processed, greyJob, faults, ghosts>>

\* __sendEmailNotification re-reads the row; without a result folder readdir
\* throws and no mail is enqueued.
Notify(t) ==
  LET f == tick[t].file IN
  /\ tick[t].pc = "r_notify"
  /\ notices' = [notices EXCEPT ![f] = IF bulkFile[f].report THEN @ + 1
                                                             ELSE @]
  /\ SetTick(t, IdleTick)
  /\ UNCHANGED <<bulkFile, csv, loadVars, processed, greyJob, faults, ghosts>>

TickStep(t) ==
  \/ FindRow(t)
  \/ MarkProcessing(t) \/ ListEmails(t) \/ ValidateEmail(t) \/ MarkReady(t)
  \/ ListForGrey(t) \/ ScanEmail(t) \/ AddGreyJob(t) \/ MarkGreyList(t)
  \/ MergeCsv(t) \/ MergeUnreadable(t) \/ MarkComplete(t) \/ Notify(t)

-----------------------------------------------------------------------------
(* The rest of the service, as far as it touches processed_emails *)

\* A single validation asked for through the API.
ValidateSingle(e) ==
  /\ \E verdict \in Verdicts : SaveProcessed(e, verdict)
  /\ UNCHANGED <<fileVars, loadVars, tick, greyJob, faults, ghosts>>

\* An SNS event about a Verify+ mail: DeliveryDelay marks the row grey,
\* Delivery and Bounce make it final, in whatever order they come.
Webhook(e) ==
  /\ e \in VerifyPlus
  /\ processed[e] # "none"
  /\ \E verdict \in {"grey", "final"} :
       processed' = [processed EXCEPT ![e] = verdict]
  /\ UNCHANGED <<fileVars, loadVars, tick, greyJob, faults, ghosts>>

-----------------------------------------------------------------------------
(* Faults *)

Suffer(kind) ==
  /\ kind \in FaultKinds
  /\ faults < MaxFaults
  /\ faults' = faults + 1

\* A database or Redis call of a cron throws, or never settles: the
\* invocation ends where it is, and only a log line tells.
TickFails(t) ==
  /\ Suffer("dberror")
  /\ tick[t].pc # "idle"
  /\ SetTick(t, IdleTick)
  /\ UNCHANGED <<fileVars, loadVars, processed, greyJob, ghosts>>

\* Redis refuses the load job (the user gets a 400, the row stays), or the
\* job's transaction or update throws (attempts is 1).
LoadFails(f) ==
  /\ Suffer("dberror")
  /\ loadJob[f].stage \in {"adding", "commit", "status"}
  /\ SetLoad(f, [loadJob[f] EXCEPT
                    !.stage = IF @ = "adding" THEN "lost" ELSE "failed",
                    !.read = {}])
  /\ UNCHANGED <<fileVars, fileEmails, copies, processed, tick, greyJob,
                 ghosts>>

\* Reading or saving the file's row throws at the end of a grey job.
GreyJobFails(j) ==
  /\ Suffer("dberror")
  /\ greyJob[j].stage \in {"active", "save"}
  /\ greyJob[j].todo = {}
  /\ SetJob(j, FreeJob)
  /\ UNCHANGED <<fileVars, loadVars, processed, tick, ghosts>>

\* One re-check throws on the database: its email stays as it is, and
\* allSettled goes on without it.
RecheckFails(j) ==
  /\ Suffer("recheck")
  /\ greyJob[j].stage = "active"
  /\ \E e \in greyJob[j].todo :
       SetJob(j, [greyJob[j] EXCEPT !.todo = @ \ {e}])
  /\ UNCHANGED <<fileVars, loadVars, processed, tick, ghosts>>

\* fs.writeFile reports an error: its callback only logs it.
CsvFails(f) ==
  /\ Suffer("csv")
  /\ csv[f] = "writing"
  /\ csv' = [csv EXCEPT ![f] = "lost"]
  /\ UNCHANGED <<bulkFile, notices, loadVars, processed, tick, greyJob,
                 ghosts>>

\* The process dies and restarts.  Requests and cron invocations vanish; the
\* queue is in Redis, and a job that was active is stalled: run once more, or
\* failed when it stalled too often.
Crash ==
  /\ Suffer("crash")
  /\ tick' = [t \in Ticks |-> IdleTick]
  /\ csv' = [f \in Files |-> IF csv[f] = "writing" THEN "lost" ELSE csv[f]]
  /\ loadJob' = [f \in Files |->
       CASE loadJob[f].stage = "adding" -> [loadJob[f] EXCEPT !.stage = "lost"]
         [] loadJob[f].stage \in LoadActive ->
              IF loadJob[f].stalls < MaxStalled
              THEN [stage |-> "waiting", read |-> {},
                    stalls |-> loadJob[f].stalls + 1]
              ELSE [loadJob[f] EXCEPT !.stage = "failed", !.read = {}]
         [] OTHER -> loadJob[f]]
  /\ greyJob' = [j \in GreyJobs |->
       IF greyJob[j].stage \notin JobActive THEN greyJob[j]
       ELSE IF greyJob[j].stalls < MaxStalled
            THEN [greyJob[j] EXCEPT !.stage = "waiting", !.todo = {},
                                    !.row = AbsentRow, !.stalls = @ + 1]
            ELSE FreeJob]
  /\ UNCHANGED <<bulkFile, notices, fileEmails, copies, processed, ghosts>>

-----------------------------------------------------------------------------
(* The specification *)

FileStep(f) == Upload(f) \/ CsvWritten(f) \/ LoadStep(f)

Start(t) == PickPending(t) \/ PickReady(t) \/ PickDone(t)

Fault ==
  \/ \E t \in Ticks : TickFails(t)
  \/ \E f \in Files : LoadFails(f) \/ CsvFails(f)
  \/ \E j \in GreyJobs : GreyJobFails(j) \/ RecheckFails(j)
  \/ Crash

Next ==
  \/ \E f \in Files : FileStep(f)
  \/ \E t \in Ticks : Start(t) \/ TickStep(t)
  \/ \E j \in GreyJobs : JobStep(j)
  \/ \E e \in Emails : ValidateSingle(e) \/ Webhook(e)
  \/ Fault

Spec == Init /\ [][Next]_vars

\* The crons keep firing, Bull keeps handing out jobs, a call in progress
\* ends.  Nothing makes users upload files.
Fairness ==
  /\ \A f \in Files : WF_vars(CsvWritten(f)) /\ WF_vars(LoadStep(f))
  /\ \A t \in Ticks : WF_vars(TickStep(t))
  /\ \A j \in GreyJobs : WF_vars(JobStep(j))
  /\ WF_vars(\E t \in Ticks : PickPending(t))
  /\ WF_vars(\E t \in Ticks : PickReady(t))
  /\ WF_vars(\E t \in Ticks : PickDone(t))

FairSpec == Spec /\ Fairness
=============================================================================
