-------------------------- MODULE BulkFilesInvariant --------------------------
(***************************************************************************)
(* Why the status of a file is enough to keep the actors apart, as long as *)
(* the crons do not overlap and no call is lost half-way: an inductive     *)
(* invariant of BulkFiles.                                                 *)
(***************************************************************************)
EXTENDS BulkFilesProperties

\* The status a file has while an invocation is at pc.
StatusAt ==
  [v_find |-> "pending", v_claim |-> "pending",
   v_list |-> "processing", v_run |-> "processing", v_ready |-> "processing",
   g_list |-> "ready", g_scan |-> "ready", g_find |-> "ready",
   g_mark |-> "ready",
   r_merge |-> "done", r_find |-> "done", r_complete |-> "done",
   r_notify |-> "complete"]

\* A running invocation knows the status of its file, and the row it is about
\* to write back is the row of the table.
InvocationOwns ==
  \A t \in Ticks : tick[t].pc # "idle" =>
    /\ bulkFile[tick[t].file].status = StatusAt[tick[t].pc]
    /\ tick[t].pc \in Snapshots => tick[t].row = bulkFile[tick[t].file]

OneInvocation ==
  \A t, u \in Ticks :
    tick[t].pc # "idle" /\ tick[u].pc # "idle" /\ tick[t].file = tick[u].file
      => t = u

\* The load job has the file as long as it is QUEUED.
LoadOwns ==
  \A f \in Files :
    /\ loadJob[f].stage = "none" => bulkFile[f].status = "absent"
    /\ loadJob[f].stage \in {"adding", "waiting", "commit", "status",
                             "failed", "lost"} => bulkFile[f] = QueuedRow
    /\ loadJob[f].stage \in {"ack", "done"} =>
         bulkFile[f].status \notin {"absent", "queued"}

\* An invocation that has enqueued a grey job has not marked the file yet.
Announcing ==
  \A t \in Ticks :
    /\ tick[t].job # NoJob =>
         /\ tick[t].pc \in {"g_find", "g_mark"}
         /\ tick[t].job \in GreyJobs
         /\ greyJob[tick[t].job].stage = "waiting"
         /\ greyJob[tick[t].job].file = tick[t].file
         /\ tick[t].found # {}
    /\ tick[t].job = NoJob =>
         /\ tick[t].pc # "g_find"
         /\ tick[t].pc = "g_mark" => tick[t].found = {}

Live(j) == greyJob[j].stage \in {"waiting", "active", "save"}

\* A grey job has the file from the moment it is PROGRESS until it is DONE.
JobOwns ==
  \A j \in GreyJobs :
    LET f == greyJob[j].file IN
    /\ greyJob[j].stage = "waiting" =>
         \/ bulkFile[f].status = "progress"
         \/ /\ bulkFile[f].status = "ready"
            /\ \E t \in Ticks : tick[t].job = j
    /\ greyJob[j].stage \in {"active", "save"} =>
         bulkFile[f].status = "progress"
    /\ greyJob[j].stage = "save" => greyJob[j].row = bulkFile[f]

OneJob ==
  \A j, k \in GreyJobs :
    Live(j) /\ Live(k) /\ greyJob[j].file = greyJob[k].file => j = k

\* The mail follows the report, and only the invocation that wrote the report
\* sends it.
ReportThenNotice ==
  \A f \in Files :
    /\ bulkFile[f].report <=> (bulkFile[f].status = "complete")
    /\ notices[f] \in {0, 1}
    /\ notices[f] = 1 => bulkFile[f].status = "complete"
    /\ \A t \in Ticks :
         tick[t].pc = "r_notify" /\ tick[t].file = f => notices[f] = 0

\* The inductive invariant: from one step to the next, the status of a file
\* names the one actor that may change it.
StatusIsTheLock ==
  /\ InvocationOwns /\ OneInvocation /\ LoadOwns
  /\ Announcing /\ JobOwns /\ OneJob
  /\ ReportThenNotice

-----------------------------------------------------------------------------
(* The data behind a status, whatever fails and however the crons overlap *)

\* Whoever knows a file as loaded finds its rows: the inductive form of
\* LoadedBeforePending.
LoadedBehind ==
  /\ LoadedBeforePending
  /\ \A f \in Files : loadJob[f].stage = "status" => copies[f] > 0
  /\ \A t \in Ticks : tick[t].pc # "idle" => copies[tick[t].file] > 0
  /\ \A j \in GreyJobs :
       greyJob[j].stage # "free" => copies[greyJob[j].file] > 0

\* Every stored email of f, less those in S, has been through a batch.
TriedBut(f, S) ==
  copies[f] = 1 => fileEmails[f] \ (NoMx \union Outlook) \subseteq tried[f] \union S

\* Whoever may move a file on from PROCESSING finds it validated: the
\* inductive form of ValidatedBeforeReady.
ValidatedBehind ==
  /\ ValidatedBeforeReady
  /\ \A t \in Ticks :
       /\ tick[t].pc = "v_run" => TriedBut(tick[t].file, tick[t].todo)
       /\ tick[t].pc \notin {"idle", "v_find", "v_claim", "v_list", "v_run"} =>
            TriedBut(tick[t].file, {})
  /\ \A j \in GreyJobs :
       greyJob[j].stage # "free" => TriedBut(greyJob[j].file, {})

DataBehindStatus == LoadedBehind /\ ValidatedBehind

-----------------------------------------------------------------------------
(* What is still grey, whatever fails, if a validation's claim is prompt *)

\* No email kept for f is grey, unless it is in S.
NoGreyBut(f, S) ==
  copies[f] = 1 => \A e \in kept[f] \ VerifyPlus : processed[e] = "grey" => e \in S

Claiming == {"v_find", "v_claim"}
Batching == {"v_list", "v_run", "v_ready"}
StatusesAt(pc) == IF pc \in Claiming THEN {"pending"}
                  ELSE IF pc \in Batching THEN {"processing"} ELSE Validated

\* Batches of a file that was loaded once run before its grey check begins, and
\* one at a time: nothing is kept for a file that has left PROCESSING.
BatchesFirst ==
  /\ \A f \in Files : copies[f] = 1 =>
       /\ \A t \in Ticks : tick[t].pc # "idle" /\ tick[t].file = f =>
            bulkFile[f].status \in StatusesAt(tick[t].pc)
       /\ \A j \in GreyJobs : greyJob[j].stage # "free" /\ greyJob[j].file = f =>
            bulkFile[f].status \in Validated
       /\ loadJob[f].stage = "status" => bulkFile[f].status \in {"absent", "queued"}
  /\ \A t, u \in Ticks :
       /\ tick[t].pc \in Claiming \union Batching
       /\ tick[u].pc \in Claiming \union Batching
       /\ tick[t].file = tick[u].file
       /\ copies[tick[t].file] = 1
       => t = u

\* A kept email has a row, and is an email of the file.
KeptHasRow ==
  /\ \A f \in Files : \A e \in kept[f] :
       processed[e] # "none" /\ e \in fileEmails[f]
  /\ \A t \in Ticks :
       tick[t].pc = "v_run" => tick[t].todo \subseteq fileEmails[tick[t].file]

\* A scan knows the grey emails among those it has seen, a grey job those it has
\* not checked yet.
GreyIsKnown ==
  /\ \A t \in Ticks :
       /\ tick[t].pc \in {"g_scan", "g_find", "g_mark"} =>
            NoGreyBut(tick[t].file, tick[t].todo \union tick[t].found)
       /\ tick[t].pc \in {"g_find", "g_mark"} => tick[t].todo = {}
       /\ tick[t].pc \in {"r_merge", "r_find", "r_complete"} =>
            NoGreyBut(tick[t].file, {})
  /\ \A j \in GreyJobs :
       /\ greyJob[j].stage = "waiting" =>
            NoGreyBut(greyJob[j].file, greyJob[j].emails)
       /\ greyJob[j].stage \in JobActive =>
            /\ NoGreyBut(greyJob[j].file, greyJob[j].todo)
            /\ greyJob[j].todo \subseteq greyJob[j].emails
       /\ greyJob[j].stage \in {"save", "ack"} => greyJob[j].todo = {}

\* The inductive form of NoGreyAfterCheck.
GreyBehind == NoGreyAfterCheck /\ BatchesFirst /\ KeptHasRow /\ GreyIsKnown
=============================================================================
