------------------------------ MODULE PureFunctions ----------------------------
(***************************************************************************)
(* The functions of DomainTypo, SmtpReply and Report over bounded inputs:  *)
(* a behaviour holds one input, and the properties compare what the code   *)
(* computes from it with what it should.                                   *)
(***************************************************************************)
EXTENDS DomainTypo, SmtpReply, Report

CONSTANTS
  Names,      \* names to compare
  Replies,    \* replies to parse
  Csvs,       \* [emails, processed]: the emails of a CSV, and the stored verdicts
  Sizes       \* sizes of a batch

VARIABLE input

Inputs ==
  [kind : {"names"}, one : Names, other : Names]
    \union [kind : {"reply"}, reply : Replies]
    \union [kind : {"csv"}, csv : Csvs]
    \union [kind : {"batch"}, size : Sizes, emails : {csv.emails : csv \in Csvs}]

Init == input \in Inputs
Next == UNCHANGED input
Spec == Init /\ [][Next]_input

-----------------------------------------------------------------------------
(* Names *)

\* The edit distance of two names, and of their first i and j characters.
EditTable(a, b) ==
  LET lev[p \in (0..Len(a)) \X (0..Len(b))] ==
        LET i == p[1]  j == p[2] IN
        IF i = 0 \/ j = 0 THEN i + j
        ELSE IF a[i] = b[j] THEN lev[<<i - 1, j - 1>>]
        ELSE 1 + Min({lev[<<i - 1, j>>], lev[<<i, j - 1>>], lev[<<i - 1, j - 1>>]})
  IN lev
EditDistance(a, b) == EditTable(a, b)[<<Len(a), Len(b)>>]

OneEdit(a, b) ==
  \/ Len(a) = Len(b) /\ Cardinality({i \in DOMAIN a : a[i] # b[i]}) = 1
  \/ \E i \in DOMAIN a : RemoveAt(a, i) = b
  \/ \E i \in DOMAIN b : RemoveAt(b, i) = a

\* With both ends trimmed, one row of the table kept and a cell that looks at each
\* neighbour once, findDistance still computes the edit distance, whichever name
\* is the longer (domain-typo-checker.ts:27-103).
DistanceIsLevenshtein ==
  input.kind = "names" =>
    FindDistance(input.one, input.other) = EditDistance(input.one, input.other)

\* A domain is rejected as a typo exactly when it is one character away from a free
\* provider's; it is no provider's itself, or it would not have been checked
\* (domain-typo-checker.ts:7-25, domain.service.ts:373-386, 456-477).
TypoIsOneEdit ==
  input.kind = "names" =>
    \A p \in Names :
      input.one \notin {input.other, p} =>
        (HasTypo(input.one, {input.other, p})
           <=> OneEdit(input.one, input.other) \/ OneEdit(input.one, p))

-----------------------------------------------------------------------------
(* Replies *)

\* A reply that mentions no code but the one it begins with gets the verdict of
\* that code in SMTPResponseCode, whatever the order in which codes are looked for;
\* one of a code that is not there is grey for 4xx and final for 5xx
\* (smtp-connection.service.ts:395-466, email-status-type.ts:67-152).
ReplyFollowsTable ==
  input.kind = "reply" =>
    LET r == input.reply
        verdict == Parse(r)
    IN /\ r.starts \in Codes /\ r.codes = {r.starts} =>
            \/ verdict = Table[r.starts]
            \/ verdict = Blocked /\ r.blocking /\ Table[r.starts] = NoMailbox
       /\ r.codes = {} =>
            /\ verdict = Grey <=> r.starts = "4xx"
            /\ verdict = NoMailbox <=> r.starts = "5xx"
            /\ verdict # Valid

-----------------------------------------------------------------------------
(* Reports *)

Rows == Merge(input.csv.emails, input.csv.processed)

\* What each counter counts, in terms of the files the owner gets, although each of
\* the two passes over the results asks for status and sub-status in an order of its
\* own (scheduler.service.ts:218-244, 275-297).  Three files are counted row by row,
\* two together as do_not_mail.  The other two counters do not go by the files: an
\* invalid status comes before the sub-status, so that unknown lacks the invalid rows
\* of ip_blocked.csv, against the comment "Count 'IP_BLOCKED', ... as unknown" (288),
\* and invalid has them, the invalid rows of grey_listed.csv, and those that are in
\* combined.csv only (malformed, typo, without MX record, in the server's own words).
CountersByFile ==
  input.kind = "csv" =>
    LET filed(files) == UNION {CsvRows(Rows, file) : file \in files}
        invalid == {i \in DOMAIN Rows : Rows[i].status = "invalid"}
    IN /\ \A file \in {"valid", "catch-all", "spamtrap"} :
            Counted(Rows, file) = filed({file})
       /\ Counted(Rows, "do_not_mail") =
            filed({"role_based", "disposable_domain_temporary_email"})
       /\ Counted(Rows, "unknown") =
            filed({"unverifiable_email", "smtp_connection_timeout", "ip_blocked"}) \ invalid
       /\ Counted(Rows, "invalid") =
            filed({"mailbox_not_found", "does_not_accept_mail"})
              \union (filed({"ip_blocked", "grey_listed", "combined"}) \intersect invalid)

\* A row that has a file of its own is counted, unless it is still grey.
FiledIsCounted ==
  input.kind = "csv" =>
    \A i \in DOMAIN Rows :
      FileOf(Rows[i]) \notin {"combined", "grey_listed"} => CounterOf(Rows[i]) # "none"

\* The batches are the emails in their order, each once, in groups of at most ten
\* (batchSize) of which only the last is smaller (scheduler.service.ts:395, 461-468).
BatchesAreTheFile ==
  input.kind = "batch" =>
    LET batches == Batches(input.size, input.emails)
        place(b, k) == (b - 1) * input.size + k
    IN /\ \A b \in DOMAIN batches :
            IF b < Len(batches) THEN Len(batches[b]) = input.size
            ELSE Len(batches[b]) \in 1..input.size
       /\ \A b \in DOMAIN batches : \A k \in DOMAIN batches[b] :
            /\ place(b, k) \in DOMAIN input.emails
            /\ batches[b][k] = input.emails[place(b, k)]
       /\ \A i \in DOMAIN input.emails :
            \E b \in DOMAIN batches : \E k \in DOMAIN batches[b] : i = place(b, k)
================================================================================
