--------------------------------- MODULE Report --------------------------------
(***************************************************************************)
(* The report of a bulk file (scheduler.service.ts): its rows with what is *)
(* stored of their emails, sorted into CSV files and counted; and the      *)
(* batches in which the emails were validated.                             *)
(***************************************************************************)
EXTENDS Verdicts, Integers, Sequences

\* __readSCsvAndMergeValidationResults: a row whose email has no processed_emails
\* row keeps what it has, which is neither status nor reason.
NoVerdict == Say("undefined", "undefined")
Merge(emails, processed) ==
  [i \in DOMAIN emails |->
     IF emails[i] \in DOMAIN processed THEN processed[emails[i]] ELSE NoVerdict]

BugFileOf(v) ==
  IF v.reason \in EmailReason \ {""} THEN v.reason
  ELSE IF v.status \in {"valid", "catch-all", "spamtrap"} THEN v.status
  ELSE "combined"

\* __saveValidationResultsInCsv: the file a row is put into, besides combined.csv,
\* which has them all.
ReasonFiles ==
  {"role_based", "unverifiable_email", "disposable_domain_temporary_email",
   "mailbox_not_found", "domain_not_found", "smtp_connection_timeout", "ip_blocked",
   "does_not_accept_mail"}
FileOf(v) ==
  IF v.status \in {"valid", "catch-all"} THEN v.status
  ELSE IF v.reason = "grey_listed" THEN v.reason
  ELSE IF v.status = "spamtrap" THEN v.status
  ELSE IF v.reason \in ReasonFiles THEN v.reason
  ELSE "combined"

\* The rows of a file, by their places in the results.
CsvRows(rows, file) == {i \in DOMAIN rows : FileOf(rows[i]) = file}

BugCounterOf(v) ==
  CASE v.status \in {"valid", "catch-all", "spamtrap"} -> v.status
    [] v.status = "invalid" -> "invalid"
    [] v.status = "unknown" -> "unknown"
    [] OTHER -> "none"

\* __getValidationsByTypes: the counter a row is counted in, or none.
CounterOf(v) ==
  CASE v.status \in {"valid", "catch-all", "spamtrap", "do_not_mail"} -> v.status
    [] v.status \in {"invalid", "invalid_domain"} -> "invalid"
    [] v \in {Unverified, TimedOut, Blocked} -> "unknown"
    [] OTHER -> "none"

\* The rows a counter counts.
Counted(rows, counter) == {i \in DOMAIN rows : CounterOf(rows[i]) = counter}

BugBatches(size, emails) ==
  [b \in 1..(Len(emails) \div size) |-> SubSeq(emails, (b - 1) * size + 1, b * size)]

\* __createBatchOfSize
Batches(size, emails) ==
  [b \in 1..((Len(emails) + size - 1) \div size) |->
     SubSeq(emails, (b - 1) * size + 1,
            IF b * size > Len(emails) THEN Len(emails) ELSE b * size)]
================================================================================
