------------------------- MODULE BulkFilesProperties -------------------------
(***************************************************************************)
(* What makes the life of a bulk file correct.                             *)
(***************************************************************************)
EXTENDS BulkFiles

RowType == bulkFile \in [Files -> Rows]
LoadType == loadJob \in [Files -> LoadJobs]

\* A job or an invocation that is not idle has a file.
TickType ==
  /\ tick \in [Ticks -> TickRecords]
  /\ \A t \in Ticks : tick[t].pc # "idle" => tick[t].file \in Files
JobType ==
  /\ greyJob \in [GreyJobs -> GreyRecords]
  /\ \A j \in GreyJobs : greyJob[j].stage # "free" => greyJob[j].file \in Files

RestType ==
  /\ csv \in [Files -> CsvStates]
  /\ fileEmails \in [Files -> SUBSET Emails]
  /\ copies \in [Files -> Nat]
  /\ processed \in [Emails -> Verdicts]
  /\ notices \in [Files -> Nat]
  /\ faults \in 0..MaxFaults
  /\ tried \in [Files -> SUBSET Emails]
  /\ kept \in [Files -> SUBSET Emails]

\* The types of the tables, the queue and the running invocations.
TypeOK == RowType /\ LoadType /\ TickType /\ JobType /\ RestType

-----------------------------------------------------------------------------
(* Safety *)

Snapshots == {"v_claim", "v_ready", "g_mark", "r_complete"}

\* updateBulkFile and save write back a whole row read one await earlier
\* (bulk-files.service.ts:55-58, queue.service.ts:126-128).  Between the read
\* and the write nobody else has changed that row, so no update is undone.
NoLostUpdate ==
  /\ \A t \in Ticks : tick[t].pc \in Snapshots =>
       tick[t].row = bulkFile[tick[t].file]
  /\ \A j \in GreyJobs : greyJob[j].stage = "save" =>
       greyJob[j].row = bulkFile[greyJob[j].file]
  /\ \A f \in Files : loadJob[f].stage = "status" => bulkFile[f] = QueuedRow

\* Invocations that have not yet handed their file on.
Working(t) == tick[t].pc \notin {"idle", "r_notify"}

\* At any moment at most one actor works on a file: one running cron, or the
\* load job, or one grey job that its cron has finished announcing.  Nothing
\* locks a file: only its status keeps the six actors apart.
SingleOwner ==
  /\ \A t, u \in Ticks :
       Working(t) /\ Working(u) /\ tick[t].file = tick[u].file => t = u
  /\ \A j, k \in GreyJobs :
       /\ greyJob[j].stage \notin {"free", "ack"}
       /\ greyJob[k].stage \notin {"free", "ack"}
       /\ greyJob[j].file = greyJob[k].file
       => j = k
  /\ \A t \in Ticks, j \in GreyJobs :
       ~ (Working(t) /\ greyJob[j].stage \in {"active", "save"}
          /\ tick[t].file = greyJob[j].file)
  /\ \A t \in Ticks :
       Working(t) => loadJob[tick[t].file].stage \in {"ack", "done"}

\* The owner of a file gets at most one completion mail, although the report
\* cron, the grey job and the mail queue run independently.
AtMostOneNotice == \A f \in Files : notices[f] <= 1

Validated == {"ready", "progress", "done", "complete"}

\* A file leaves PROCESSING only after every stored email has been through a
\* batch or was left out for its mail exchanger (scheduler.service.ts:337-364,
\* 402-409 before 65-71).  Only a load job run twice can add emails later.
ValidatedBeforeReady ==
  \A f \in Files :
    bulkFile[f].status \in Validated /\ copies[f] = 1 =>
      fileEmails[f] \ (NoMx \union Outlook) \subseteq tried[f]

\* Once the grey check of a file is over, no email that a batch of it left with
\* a row is still grey-listed: the second check decides ("If email status is
\* still GREY_LISTED then mark it invalid", queue.service.ts:107).  An email the
\* batches left without a row, a file loaded twice and one that Verify+ events
\* may reopen are not spoken of.  It holds as long as no re-check fails: with
\* the fault "recheck" the file is DONE and the email grey (line 123).
NoGreyAfterCheck ==
  \A f \in Files :
    bulkFile[f].status \in {"done", "complete"} /\ copies[f] = 1 =>
      \A e \in kept[f] \ VerifyPlus : processed[e] # "grey"

\* No cron sees a file before its rows are committed: PENDING is written
\* after the transaction (bulk-file-emails.service.ts:37 before 47), also
\* when the job is run again after a crash.
LoadedBeforePending ==
  \A f \in Files :
    bulkFile[f].status \notin {"absent", "queued"} => copies[f] > 0

-----------------------------------------------------------------------------
(* What comments of the code say, and the code does not do *)

\* "After saving the file locally, saveBulkFile it's location in DB"
\* (bulk-files.controller.ts:74): the row, and so the job, come after the
\* file, and the whole file is loaded.
WholeCsvLoaded ==
  \A f \in Files :
    bulkFile[f].status \notin {"absent", "queued"} =>
      fileEmails[f] = Contents[f]

-----------------------------------------------------------------------------
(* Steps *)

Lifecycle ==
  {<<"absent", "queued">>, <<"queued", "pending">>,
   <<"pending", "processing">>, <<"processing", "ready">>,
   <<"ready", "progress">>, <<"ready", "done">>, <<"progress", "done">>,
   <<"done", "complete">>}

\* The status of a file only moves forward, one edge at a time: no actor
\* writes a status from an outdated view of the file.
StatusMovesForward ==
  [][\A f \in Files :
       bulkFile'[f].status # bulkFile[f].status =>
         <<bulkFile[f].status, bulkFile'[f].status>> \in Lifecycle]_vars

\* The promise to the uploader, in BulkFilesContract: accepted, reported for
\* good, told once and not before the report.
Contract ==
  INSTANCE BulkFilesContract WITH
    accepted <- {f \in Files : bulkFile[f].status # "absent"},
    reported <- {f \in Files : bulkFile[f].report},
    told <- notices

ImplementsContract == Contract!Spec

-----------------------------------------------------------------------------
(* Liveness *)

\* The files that no orphan and no misquoted one stands before: a cron picks
\* the oldest file of a status and returns when that file's user is missing
\* (scheduler.service.ts:47-53), or throws when its CSV does not parse, so
\* either kind may block every younger file.
Served == {f \in Files : \A g \in Files : g <= f => g \in Owned \ Misquoted}

\* An accepted file is in the end reported and its owner mailed, unless its only
\* load attempt met an unfinished CSV.  Invocations that overlap may move a file
\* back and report it again, but cannot leave it behind: in the end it is
\* complete for good.
EveryFileSettles ==
  \A f \in Served :
    (bulkFile[f].status # "absent") ~>
      \/ [](bulkFile[f].status = "complete" /\ notices[f] > 0)
      \/ loadJob[f].stage = "failed"
=============================================================================
