---------------------------- MODULE EmailValidation ----------------------------
(***************************************************************************)
(* smtpValidation and the tables it reads and writes: processed_emails,    *)
(* domains and error_domains (domain.service.ts), with the blacklist       *)
(* lookups it starts (dnsbl.ts), the Verify+ mail it sends and the events  *)
(* about that mail (webhook.service.ts), and the second look the grey job  *)
(* takes (queue.service.ts).                                               *)
(*                                                                         *)
(* Validations run concurrently: the two a Bottleneck lets through, those  *)
(* of other files and of POST email/validate.  A call is one record with   *)
(* the place of the code it has reached; every database call it awaits,    *)
(* the lookups and the SMTP session are steps of their own.                *)
(***************************************************************************)
EXTENDS Verdicts, Sequences

CONSTANTS
  Calls,        \* the calls of smtpValidation
  Emails,
  Domains,
  Asked,        \* which email each call may be for: functions of the calls
  DomainOf,     \* the part of an email after the @
  NoDomain,     \* ... of an email without one
  None,         \* no row
  Malformed,    \* emails that validateEmailFormat rejects
  Free,         \* domains of freeEmailProviderList
  Listed,       \* domains whose addresses are on a blacklist
  Known,        \* domains saved before the first call
  Zones,        \* the blacklists asked
  PlusCalls,    \* calls for a user who has verify_plus
  Files,        \* bulk files, whose grey jobs ask again
  Held,         \* the emails of a file: <<file, email>>
  Answers,      \* outcomes of an SMTP session: [thrown, verdict]
  MxGap, SpamGap, CatchAllGap, ErrorGap, ProcessedGap,
                \* the ..._CHECK_DAY_GAPs of constant.ts
  MaxDays       \* bound on the days that pass

ASSUME SetsAssumption ==
  /\ Asked \subseteq [Calls -> Emails]
  /\ DomainOf \in [Emails -> Domains \union {NoDomain}] /\ NoDomain \notin Domains
  /\ {e \in Emails : DomainOf[e] = NoDomain} \subseteq Malformed
  /\ Held \subseteq Files \X Emails
  /\ Malformed \subseteq Emails /\ PlusCalls \subseteq Calls
  /\ Free \subseteq Domains /\ Listed \subseteq Domains /\ Known \subseteq Domains
ASSUME AnswersAssumption ==
  Answers \subseteq [thrown : {FALSE}, verdict : OfAReply \union {Wordy}]
                      \union [thrown : {TRUE}, verdict : OfARefusal \union {Wordy}]
ASSUME GapsAssumption ==
  {MxGap, SpamGap, CatchAllGap, ErrorGap, ProcessedGap, MaxDays} \subseteq Nat

VARIABLES
  day,
  processed,    \* processed_emails: the row of an email
  saved,        \* domains: the days on which rows of a domain were created
  blamed,       \* error_domains: the rows of a domain, oldest first
  call,         \* the calls under way
  lookups,      \* blacklist lookups not answered yet: <<call, zone>>
  mailed,       \* emails a Verify+ mail was sent to
  recheck       \* rows in the grey jobs: <<file, email, verify_plus>>

tables == <<processed, saved, blamed>>
vars == <<day, tables, call, lookups, mailed, recheck>>

-----------------------------------------------------------------------------
(* Values *)

Days == 0..MaxDays

Row == [verdict : Verdict, plus : BOOLEAN, at : Days]
Problem == [verdict : Verdict, at : Days]
ASSUME NoneAssumption == None \notin Row \union Verdict

Places == {"start", "errors", "domain", "lists", "dnsbl", "mx", "create", "insert",
           "smtp", "mail", "save", "store", "blame", "append", "done"}

\* promise: of checkDomainSpamDatabaseList; failed: in the catch block;
\* domain: the row findOne returned, if any.
Call == [at : Places, email : Emails, promise : {"pending", "resolved", "rejected"},
         domain : SUBSET Days, verdict : Verdict \union {None},
         plus : BOOLEAN, failed : BOOLEAN]

Email(c) == call[c].email
Domain(c) == DomainOf[Email(c)]
At(c, place) == call[c].at = place

Init ==
  /\ day = 0
  /\ processed = [e \in Emails |-> None]
  /\ saved = [d \in Domains |-> IF d \in Known THEN {0} ELSE {}]
  /\ blamed = [d \in Domains |-> <<>>]
  /\ \E asked \in Asked :
       call = [c \in Calls |-> [at |-> "start", email |-> asked[c], promise |-> "pending",
                                domain |-> {}, verdict |-> None, plus |-> FALSE,
                                failed |-> FALSE]]
  /\ lookups = {} /\ mailed = {} /\ recheck = {}

-----------------------------------------------------------------------------
(* Helpers *)

Go(c, place) == call' = [call EXCEPT ![c].at = place]

\* The try block ends with a verdict, or is left for the catch block.
Return(c, verdict) ==
  call' = [call EXCEPT ![c].at = "save", ![c].verdict = verdict]
Throw(c, verdict) ==
  call' = [call EXCEPT ![c].at = "save", ![c].verdict = verdict, ![c].failed = TRUE]

\* What the catch block reads from a QueryFailedError or an error of nodemailer,
\* and from the HttpException of create: email_sub_status is NOT NULL.
Exception == Say("undefined", "undefined")
DomainExists == Say("302", "undefined")

Fresh(at, gap) == day - at < gap

ShouldReturnCached(row) ==
  /\ Fresh(row.at, ProcessedGap)
  /\ row.verdict.status \in {"valid", "catch-all", "spamtrap", "do_not_mail"}

\* How long a domain's problem stands.
Gap(problem) ==
  CASE problem.verdict.status = "spamtrap"  -> SpamGap
    [] problem.verdict.status = "catch-all" -> CatchAllGap
    [] OTHER -> ErrorGap

\* Verdicts that say nothing of the other emails of the domain.
SkipReasons ==
  {"role_based", "invalid_email_format", "unverifiable_email", "mailbox_not_found",
   "ip_blocked", "smtp_connection_timeout"}

-----------------------------------------------------------------------------
(* smtpValidation, up to the mail server *)

Begin(c) ==
  /\ At(c, "start")
  /\ LET row == processed[Email(c)]
     IN IF row # None /\ ShouldReturnCached(row)
        THEN call' = [call EXCEPT ![c].at = "done", ![c].verdict = row.verdict]
        ELSE IF Email(c) \in Malformed
        THEN Throw(c, Say("invalid", "invalid_email_format"))
        ELSE Go(c, "errors")
  /\ UNCHANGED <<day, tables, lookups, mailed, recheck>>

BugFindErrorDomain(c) ==
  /\ At(c, "errors")
  /\ \/ blamed[Domain(c)] = <<>> /\ Go(c, "domain")
     \/ \E i \in DOMAIN blamed[Domain(c)] :
          /\ Fresh(blamed[Domain(c)][i].at, Gap(blamed[Domain(c)][i]))
          /\ Throw(c, blamed[Domain(c)][i].verdict)
  /\ UNCHANGED <<day, tables, lookups, mailed, recheck>>

\* findErrorDomain: without an order, any row of the domain may be found.
FindErrorDomain(c) ==
  /\ At(c, "errors")
  /\ \/ blamed[Domain(c)] = <<>> /\ Go(c, "domain")
     \/ \E i \in DOMAIN blamed[Domain(c)] :
          LET problem == blamed[Domain(c)][i]
          IN IF Fresh(problem.at, Gap(problem))
             THEN Throw(c, problem.verdict)
             ELSE Go(c, "domain")
  /\ UNCHANGED <<day, tables, lookups, mailed, recheck>>

FindDomain(c) ==
  /\ At(c, "domain")
  /\ \E row \in IF saved[Domain(c)] = {} THEN {{}} ELSE {{at} : at \in saved[Domain(c)]} :
       call' = [call EXCEPT ![c].domain = row,
                            ![c].at = IF Domain(c) \in Free THEN "mx" ELSE "lists"]
  /\ UNCHANGED <<day, tables, lookups, mailed, recheck>>

\* isRoleBasedEmail, then isDisposableDomain: tables this code only reads.
CheckLists(c) ==
  /\ At(c, "lists")
  /\ \/ Throw(c, Say("do_not_mail", "role_based"))
     \/ Throw(c, Say("do_not_mail", "disposable_domain_temporary_email"))
     \/ Go(c, "dnsbl")
  /\ UNCHANGED <<day, tables, lookups, mailed, recheck>>

\* The domain's addresses are known, or cannot be: a lookup per blacklist is
\* started, or none, and 'done' is emitted, which resolves the promise.
ResolveDomain(c) ==
  /\ At(c, "dnsbl") /\ call[c].promise = "pending"
  /\ \E started \in {{}, {c} \X Zones} : lookups' = lookups \union started
  /\ call' = [call EXCEPT ![c].promise = "resolved"]
  /\ UNCHANGED <<day, tables, mailed, recheck>>

\* A blacklist answers: 'data' rejects the promise if it is not settled yet.
LookupAnswered(c, zone) ==
  /\ <<c, zone>> \in lookups
  /\ lookups' = lookups \ {<<c, zone>>}
  /\ call' = [call EXCEPT ![c].promise =
                IF Domain(c) \in Listed /\ @ = "pending" THEN "rejected" ELSE @]
  /\ UNCHANGED <<day, tables, mailed, recheck>>

\* checkDomainSpamDatabaseList settles; domainTypoCheck compares with the free
\* providers (module DomainTypo).
LeaveBlacklists(c) ==
  /\ At(c, "dnsbl") /\ call[c].promise # "pending"
  /\ IF call[c].promise = "rejected"
     THEN Throw(c, Spamtrap)
     ELSE Throw(c, Say("invalid", "possible_typo")) \/ Go(c, "mx")
  /\ UNCHANGED <<day, tables, lookups, mailed, recheck>>

BugFindMx(c) ==
  /\ At(c, "mx") /\ Go(c, "smtp")
  /\ UNCHANGED <<day, tables, lookups, mailed, recheck>>

\* checkDomainMxRecords, of a saved domain too once MxGap days are over; saving
\* the new records leaves created_at alone.
FindMx(c) ==
  /\ At(c, "mx")
  /\ LET row == call[c].domain
     IN \/ Go(c, IF row = {} THEN "create" ELSE "smtp")
        \/ /\ \A at \in row : ~Fresh(at, MxGap)
           /\ Throw(c, Say("invalid", "mx_record_not_found"))
  /\ UNCHANGED <<day, tables, lookups, mailed, recheck>>

\* create: throws if the domain has been saved meanwhile.
CreateDomain(c) ==
  /\ At(c, "create")
  /\ IF saved[Domain(c)] # {} THEN Throw(c, DomainExists) ELSE Go(c, "insert")
  /\ UNCHANGED <<day, tables, lookups, mailed, recheck>>

BugInsertDomain(c) ==
  /\ At(c, "insert") /\ Go(c, "smtp")
  /\ saved' = [saved EXCEPT ![Domain(c)] = @ \union {day + 1}]
  /\ UNCHANGED <<day, processed, blamed, lookups, mailed, recheck>>

InsertDomain(c) ==
  /\ At(c, "insert")
  /\ saved' = [saved EXCEPT ![Domain(c)] = @ \union {day}]
  /\ Go(c, "smtp")
  /\ UNCHANGED <<day, processed, blamed, lookups, mailed, recheck>>

\* connect and verifyEmail (module SmtpSession), then __processVerifyPlus.
Ask(c) ==
  /\ At(c, "smtp")
  /\ \E answer \in Answers :
       IF answer.thrown
       THEN /\ answer.verdict = CatchAll => Domain(c) \notin Free
            /\ Throw(c, answer.verdict)
       ELSE IF answer.verdict.reason = TimedOut.reason /\ c \in PlusCalls
       THEN Go(c, "mail")
       ELSE Return(c, answer.verdict)
  /\ UNCHANGED <<day, tables, lookups, mailed, recheck>>

\* __sendVerifyPlusEmail: the mail relay accepts the mail with a 250, or the
\* call throws.
SendVerifyPlusEmail(c) ==
  /\ At(c, "mail")
  /\ \/ /\ mailed' = mailed \union {Email(c)}
        /\ call' = [call EXCEPT ![c].at = "save", ![c].verdict = Valid, ![c].plus = TRUE]
     \/ Throw(c, Exception) /\ UNCHANGED mailed
  /\ UNCHANGED <<day, tables, lookups, recheck>>

-----------------------------------------------------------------------------
(* smtpValidation, once there is a verdict *)

BugFindProcessed(c) ==
  /\ At(c, "save")
  /\ Go(c, IF call[c].failed THEN "blame"
           ELSE IF processed[Email(c)] = None THEN "store" ELSE "done")
  /\ UNCHANGED <<day, tables, lookups, mailed, recheck>>

\* A row that is there already stays as it is.
FindProcessed(c) ==
  /\ At(c, "save")
  /\ Go(c, IF processed[Email(c)] = None THEN "store"
           ELSE IF call[c].failed THEN "blame" ELSE "done")
  /\ UNCHANGED <<day, tables, lookups, mailed, recheck>>

RowOf(c) == [verdict |-> call[c].verdict, plus |-> call[c].plus, at |-> day]

\* The columns of the row that are NOT NULL are there, and the wording of a reply
\* fits its own.
Complete(c) ==
  /\ call[c].verdict.reason \notin {"undefined", "longtext"}
  /\ Domain(c) # NoDomain

\* An incomplete row: the catch block goes on to the domain.
BugSwallowed(c) ==
  /\ At(c, "store")
  /\ IF processed[Email(c)] = None /\ Complete(c)
     THEN /\ processed' = [processed EXCEPT ![Email(c)] = RowOf(c)]
          /\ Go(c, IF call[c].failed THEN "blame" ELSE "done")
     ELSE /\ IF call[c].failed THEN Go(c, "blame") ELSE Throw(c, Exception)
          /\ UNCHANGED processed
  /\ UNCHANGED <<day, saved, blamed, lookups, mailed, recheck>>

BugInsertProcessed(c) ==
  /\ At(c, "store")
  /\ IF Complete(c) THEN processed' = [processed EXCEPT ![Email(c)] = RowOf(c)]
                    ELSE UNCHANGED processed
  /\ Go(c, IF call[c].failed /\ Complete(c) THEN "blame" ELSE "done")
  /\ UNCHANGED <<day, saved, blamed, lookups, mailed, recheck>>

\* email_address is unique: an insert that comes second throws, into the catch
\* block or, from there, out of saveProcessedErrorEmail, which swallows it.
InsertProcessed(c) ==
  /\ At(c, "store")
  /\ IF processed[Email(c)] = None /\ Complete(c)
     THEN /\ processed' = [processed EXCEPT ![Email(c)] = RowOf(c)]
          /\ Go(c, IF call[c].failed THEN "blame" ELSE "done")
     ELSE /\ IF call[c].failed THEN Go(c, "done") ELSE Throw(c, Exception)
          /\ UNCHANGED processed
  /\ UNCHANGED <<day, saved, blamed, lookups, mailed, recheck>>

BugAboutTheDomain(c) == Domain(c) \notin Free

AboutTheDomain(c) ==
  Domain(c) \notin Free /\ call[c].verdict.reason \notin SkipReasons

BugOverwritten(problem, verdict) == [verdict |-> verdict, at |-> day]

Overwritten(problem, verdict) ==
  IF problem.verdict.status = verdict.status
  THEN [problem EXCEPT !.verdict = verdict]
  ELSE problem

\* createOrUpdateErrorDomain, with the row of the domain it finds, if any.
BlameDomain(c) ==
  LET d == Domain(c) IN
  /\ At(c, "blame")
  /\ \/ ~AboutTheDomain(c) /\ Go(c, "done") /\ UNCHANGED blamed
     \/ AboutTheDomain(c) /\ blamed[d] = <<>> /\ Go(c, "append") /\ UNCHANGED blamed
     \/ /\ AboutTheDomain(c)
        /\ \E i \in DOMAIN blamed[d] :
             blamed' = [blamed EXCEPT ![d][i] = Overwritten(@, call[c].verdict)]
        /\ Go(c, "done")
  /\ UNCHANGED <<day, processed, saved, lookups, mailed, recheck>>

AppendProblem(c) ==
  /\ At(c, "append")
  /\ blamed' = [blamed EXCEPT ![Domain(c)] =
                  Append(@, [verdict |-> call[c].verdict, at |-> day])]
  /\ Go(c, "done")
  /\ UNCHANGED <<day, processed, saved, lookups, mailed, recheck>>

-----------------------------------------------------------------------------
(* What others do to the rows *)

\* updateProcessedEmailByEmail: an email without a row is left alone, and so is a
\* row whose column the wording of a reply does not fit.
UpdateProcessed(e, verdict, plus) ==
  processed' = IF processed[e] = None \/ verdict.reason = "longtext" THEN processed
               ELSE [processed EXCEPT ![e].verdict = verdict, ![e].plus = plus]

\* handleSnsNotification: the mail of Verify+ was delivered, delayed or bounced;
\* SNS may send an event more than once, and events in any order.
Notified(e) ==
  /\ e \in mailed
  /\ \E verdict \in {Valid, Grey, NoMailbox} : UpdateProcessed(e, verdict, TRUE)
  /\ UNCHANGED <<day, saved, blamed, call, lookups, mailed, recheck>>

\* The scan of a file puts the row of a grey email of it into the file's job,
\* whatever other jobs hold it ...
QueueGrey(file, e) ==
  /\ <<file, e>> \in Held
  /\ processed[e] # None /\ IsGrey(processed[e].verdict)
  /\ recheck' = recheck \union {<<file, e, processed[e].plus>>}
  /\ UNCHANGED <<day, tables, call, lookups, mailed>>

\* A second grey answer is stored as it is.
BugRecheck(file, e, plus) ==
  /\ <<file, e, plus>> \in recheck
  /\ recheck' = recheck \ {<<file, e, plus>>}
  /\ \E answer \in Answers :
       UpdateProcessed(e, IF saved[DomainOf[e]] = {} THEN processed[e].verdict
                          ELSE answer.verdict, plus)
  /\ UNCHANGED <<day, saved, blamed, call, lookups, mailed>>

\* ... and the job asks again and writes the whole row as it was queued, with the
\* new verdict; grey a second time is no mailbox.  Without a row in domains there
\* is no host to ask: the error has no verdict to write, and that of the row stays.
Recheck(file, e, plus) ==
  /\ <<file, e, plus>> \in recheck
  /\ recheck' = recheck \ {<<file, e, plus>>}
  /\ \E answer \in Answers :
       LET verdict == IF saved[DomainOf[e]] = {} THEN processed[e].verdict
                      ELSE IF IsGrey(answer.verdict) THEN NoMailbox
                      ELSE answer.verdict
       IN UpdateProcessed(e, verdict, plus)
  /\ UNCHANGED <<day, saved, blamed, call, lookups, mailed>>

Tick ==
  /\ day < MaxDays /\ day' = day + 1
  /\ UNCHANGED <<tables, call, lookups, mailed, recheck>>

-----------------------------------------------------------------------------
(* Specification *)

Step(c) ==
  \/ Begin(c) \/ FindErrorDomain(c) \/ FindDomain(c) \/ CheckLists(c)
  \/ ResolveDomain(c) \/ LeaveBlacklists(c) \/ FindMx(c)
  \/ CreateDomain(c) \/ InsertDomain(c) \/ Ask(c) \/ SendVerifyPlusEmail(c)
  \/ FindProcessed(c) \/ InsertProcessed(c) \/ BlameDomain(c) \/ AppendProblem(c)

Next ==
  \/ \E c \in Calls : Step(c) \/ \E zone \in Zones : LookupAnswered(c, zone)
  \/ \E e \in Emails :
       \/ Notified(e)
       \/ \E file \in Files :
            QueueGrey(file, e) \/ \E plus \in BOOLEAN : Recheck(file, e, plus)
  \/ Tick

Spec == Init /\ [][Next]_vars

\* Every call the code awaits settles: the database, the resolver and the SMTP
\* session answer or fail, and the lookups the code does not await do too.
FairSpec ==
  Spec /\ \A c \in Calls : WF_vars(Step(c) \/ \E zone \in Zones : LookupAnswered(c, zone))
================================================================================
