# TLA+ verification of EmailValidationService

EmailValidationService is a NestJS service that validates email addresses, one
at a time through its API or in bulk from an uploaded CSV file. This directory
holds a TLA+ model of it, TLC runs over small instances and TLAPS proofs for
all instances. Paths below are relative to the repository.

## The system

| Part | State it keeps | Operations |
|---|---|---|
| upload request, `src/bulk-files/bulk-files.controller.ts` | the CSV on disk, the new row of `bulk_files` | `uploadCsv`: check the CSV, start writing it, insert the row as QUEUED, enqueue the load job |
| `bulk_files` table, `bulk-files.service.ts` | status, counts and result folder of a file | find the oldest row of a status, read the row, write the whole row |
| load job, `queue.service.ts`, `bulk-file-emails.service.ts` | rows of `bulk_file_emails` | read the CSV, insert its emails in a transaction, mark the file PENDING |
| crons, `scheduler.service.ts` | nothing but their running invocations | `runFileEmailValidation`, `processGreyListBulkFile`, `generateCsvAndSendEmailForGreyListCheckedFiles`, each every minute |
| email validation, `domain.service.ts` | `processed_emails`, `domains`, `error_domains` | `smtpValidation` and its checks |
| SMTP session, `smtp-connection.service.ts` | a socket and its listeners | `connect`, `sendCommand`, `verifyEmail`, `parseSmtpResponseData` |
| grey job, `queue.service.ts` | nothing but the job in Redis | `runGrayListCheck`: re-check the grey-listed emails of a file, mark it GREY_LIST_CHECK_DONE |
| Verify+ webhook, `webhook.service.ts` | nothing | delivery events rewrite rows of `processed_emails` |
| mail queue, `queue.service.ts`, `mailer.service.ts` | mail jobs in Redis | send a mail, up to three attempts |
| DNS blacklists, `dnsbl.ts` | nothing | look a domain's addresses up in the lists |
| users, authentication, role and disposable-domain lists, throttling, logging | tables read by the rest | look-ups |

The parts share three stores: PostgreSQL (no transaction spans two statements,
except the load job's), Redis (one Bull queue with three kinds of job) and the
disk. Everything runs in one Node process, so two pieces of code interleave at
their `await`s. What makes the system hard:

- **ordering and interleaving**: a file goes through upload, load job, three
  crons and the grey job, and its status is the only thing that keeps them
  apart; each of them finds the file several awaits before it changes the status;
- **stale writes**: `updateBulkFile` and `save` write a whole row read before an await;
- **overlap**: `@nestjs/schedule` starts a cron although its last invocation
  still runs; two of the crons make one database call per email before they
  change the status;
- **crashes and lost calls**: cron work is lost, Bull runs a stalled job once more;
- **partial failure**: `Promise.allSettled`, swallowed errors, jobs with one attempt.

`PROJECT.json` lists the hazards one by one, with the lines where they bite.

## The life of a bulk file

Modules, each building on the one before:

- `BulkFilesContract`: what the owner of an upload is promised. A file is
  *accepted*; later its report appears and stays; then one mail says so.
- `BulkFiles`: the detailed model. One variable per store (`bulkFile`, `csv`,
  `fileEmails`, `processed`, jobs in Redis) and one per kind of activity
  (`tick`: running cron invocations; `greyJob`; `loadJob`).
- `BulkFilesProperties`: type invariant, safety, step and liveness properties,
  and the refinement mapping to the contract.
- `BulkFilesInvariant`: the inductive invariants `StatusIsTheLock`,
  `DataBehindStatus` and `GreyBehind`.
- `MCBulkFiles` and `BulkFiles_*.cfg`: the instances TLC checks.
- `BulkFilesProofs`, `BulkFilesLockProofs`, `BulkFilesDataProofs`,
  `BulkFilesGreyProofs`: theorems.

### Correspondence

A step is what runs between two awaits. `Upload` inserts the row; the
callback of the `fs.writeFile` it started is `CsvWritten` (or the fault
`CsvFails`), and `EnqueueLoad` is the next await. The load job is `LoadRead` (or
`LoadUnreadable`), `LoadCommit`, `LoadPending`, `LoadAck`. An invocation of a
cron is a record of `tick` whose `pc` names the await it is at: `v_` for
`runFileEmailValidation`, `g_` for `processGreyListBulkFile`, `r_` for
`generateCsvAndSendEmailForGreyListCheckedFiles`. `updateBulkFile` is two steps,
`FindRow` (read) and the `Mark...` action that writes the row with the fields
the caller gives. `ValidateEmail` is one `smtpValidation` of a batch, with any
verdict; `AddGreyJob` is `addGreyListEmailToQueue`; `StartGreyJob`, `Recheck`,
`FindForDone`, `SaveDone`, `AckGreyJob` are the grey job.

Statuses are short names of `BulkFileStatus`: `ready` is READY_FOR_GREY_LIST,
`progress` and `done` are GREY_LIST_CHECK_PROGRESS and GREY_LIST_CHECK_DONE,
`absent` is a row not inserted yet. A row is a status and whether counts and
result folder are set. An email has the verdict `none` (no row in
`processed_emails`), `grey` (sub status GREY_LISTED) or `final`. `kept` is a ghost:
the emails of a file that its batches left with a row.

`Misquoted` are files whose CSV has a quote inside an unquoted field. The upload parses
with `relax_quotes` and accepts them; the load job and the report parse without it.
So a fully written one fails its only load attempt (`LoadUnreadable`); one that was
loaded while half written fails when it is reported (`MergeUnreadable`).

Timing enters in three places. `MayStart`: the next invocation of a cron comes a
minute later, that is after the claim of the previous one (from finding a file
to changing its status), unless the cron is in `SlowHandlers`. `StartGreyJob`:
the job's delay of two minutes outlasts the two database calls its cron still
makes. `MergeCsv`: the write of the CSV has ended when the report is made,
several minutes and jobs later. A load job, which has no delay, enjoys no such
assumption.

Faults are named by `FaultKinds` and bounded by `MaxFaults`: `crash` (the process
dies; Bull re-runs a stalled job `MaxStalled` times, then fails it), `dberror`
(a call of a cron, a load job or the end of a grey job throws, or never
settles), `recheck` (one re-check throws: its email stays grey and `allSettled` goes
on) and `csv` (writing the file fails).

### Runs

| Run | Instance | Shows |
|---|---|---|
| `lifecycle` | 2 files with the same email, the second misquoted, 3 invocations, 2 grey jobs, 1 fault of kind csv or recheck | `StatusIsTheLock`, `NoLostUpdate`, `SingleOwner`, `AtMostOneNotice`, `StatusMovesForward`, `ImplementsContract` |
| `crash` | 1 file, 2 invocations, 2 grey jobs, any 2 faults but failed re-checks | `TypeOK`, `DataBehindStatus`, `LoadedBeforePending`, `ValidatedBeforeReady`, `NoGreyAfterCheck`, `GreyBehind`: no fault makes a status claim more than was done |
| `overlap` | 1 file with 2 emails, one without MX and with Verify+ events; grey and report cron may overlap | `ValidatedBeforeReady`, `NoGreyAfterCheck` and `EveryFileSettles` survive overlap; `AtMostOneNotice` and `StatusMovesForward` do not (not checked here): the owner can be mailed twice, and a COMPLETE file moved back |
| `failed_recheck` | 1 file with 2 emails, 1 failed re-check | violation: `NoGreyAfterCheck` |
| `csv` | 1 file with 2 emails | violation: `WholeCsvLoaded` |

`NoGreyAfterCheck` speaks of `kept` emails of a file that was loaded once. Left out are an
email its batch left without a row, the second load of a job that stalled, which adds
rows behind the batches, and emails that an event may make grey again.

The bounds are the smallest at which the interesting cases happen. Two files
make the crons choose (oldest first), share an email and have two life cycles
interleave. Three invocations let one cron of each kind run at once; two let a
cron overlap with itself. Two faults let a crash hit the re-run of a job that a
crash had stalled, or a failed call follow a crash. Two emails make a batch, a
scan and a CSV read take several steps. `CHECK_DEADLOCK FALSE` is given because
the model stops when all files are complete.

Fairness (`Fairness`): crons keep firing (weak fairness of each `Pick...` over
all invocations), a call under way ends (`TickStep`, `CsvWritten`), and Bull hands
out its jobs (`LoadStep`, `JobStep`). There is none for uploads, single
validations, webhook events and faults. `EveryFileSettles` is stated for the files that no
orphan (a file whose user is gone) and no misquoted file stands before, as each cron only
ever looks at its oldest file, and allows for a load job whose one attempt met an unfinished
CSV. It is checked on one file; with more, a file also waits for the older ones of its
status.

## An SMTP session

`SmtpSession` models one `SmtpConnectionService`: `connect` and `verifyEmail` as
coroutines (`task`, whose `at` names the command awaited), the listeners of
their sockets, and the mail server at the other end. `SmtpSessionProperties`
holds the properties, `SmtpSessionInvariant` the inductive invariant `InStep`,
`MCSmtpSession` and `SmtpSession*.cfg` the instances, and `SmtpSessionProofs` (the
steps of the coroutines) and `SmtpSessionEventProofs` (the events and the
theorems) the proofs.

### Correspondence

`sock` is `this.socket`, `slow` is `isSmtpSlow`. Session n has two connections,
plain and TLS. A command is known by its session, method and verb; `asked`
holds those the server has yet to answer, `wire` the chunks of its replies under
way. A chunk carries, besides what it says, the command it answers: the code
cannot see that, the properties do. `Send` is `sendCommand`: write and wait on the socket, or be
rejected when it is dead. The events of its listeners are `Receive` (data; with a slow
server the command is settled by `Quiet`, two seconds later), `Timeout`, `Drop`
(close, or error and close) and `Fail` (no connection, no TLS). `armed` says whether connect's own
timeout listener is still there. `Greeted`, `EhloAnswered`, `StartTls` and
`Secured` are the steps of `connect`, `Ehlo` to `Rcpt` those of `verifyEmail`,
`CommandRejected` its catch. `GoesOn` is what the two callers do with a
connection that timed out: `smtpValidation` stops, the grey job, which drops
connect's result, goes on. The server may refuse the sender; `MailFrom` ignores that, as
the code does, and the refusal of the recipient that follows (503) decides about the mailbox. The reply codes are what `parseSmtpResponseData` tells apart.

Assumed of the world: the greeting and the reply to QUIT fit a chunk; the chunks of one reply are
less than two seconds apart; a prompt server sends a reply in one chunk
(`Peers`); with `LateAnswers = FALSE`, a server silent for ten seconds stays
silent. These are the conditions under which the code works. `LateAnswers`
is modelled for a single session, since a late handshake of one session would
otherwise replace the socket of the next. `ReusedAfterTls = FALSE` ends the grey
job's instance after a session that began TLS.

### Runs

| Run | Instance | Shows |
|---|---|---|
| `session` | 2 sessions, one at a free provider; both callers; prompt servers and slow ones with split replies | `AnswerIsOwn`, `VerdictIsAboutTheEmail`, `LockStep`, `NothingInTheClear`, `InStep`, `EverySessionSettles` |
| `late_answer` | 1 session of the grey job, late answers | violation: `AnswerIsOwn` |
| `reuse` | 2 sessions of the grey job over TLS | violation: `OneConnectionAtATime` |

Two sessions are what a reused instance needs: its flag and sockets live on
into the second. `OneConnectionAtATime` holds in `session` too, as a part of `InStep`, but
only because no session there follows one with TLS; the grey job does not see to that,
and `reuse` shows what comes of it. Two chunks are enough to separate a part from the whole.
The model stops when every session has its verdict and the server does nothing
more, hence `CHECK_DEADLOCK FALSE`.

Fairness: the coroutines run, data that has arrived is delivered, timers fire, and the
kernel gives up on a host that does not answer (`Fail` of a plain connection).
The server, its drops and the handshake are not fair: it may be silent at any point.

## An email's validation

`EmailValidation` models `DomainService.smtpValidation` for several concurrent
calls, the three tables it shares with them, the blacklist lookups it starts,
the webhook and the grey job's second look. `Verdicts` holds the statuses and
reasons of `email-status-type.ts`; `EmailValidationProperties` the properties;
`EmailValidationInvariant` the inductive invariant `BehindThePlace`;
`MCEmailValidation` and `EmailValidation*.cfg` the instances.

### Correspondence

`processed` is `processed_emails` (one row per email, as `email_address` is
unique), `blamed` is `error_domains` (a sequence per domain: `domain` is not
unique, and a find without an order may return any row), `saved` is `domains`,
of which only the days of creation matter. A call is a record of `call`, and `at`
names the await it has reached:

| `at` | Code |
|---|---|
| `start` | `getCachedProcessedEmail`, `validateEmailFormat` |
| `errors`, `domain` | `findErrorDomain`, `findOne` |
| `lists` | `isRoleBasedEmail`, `isDisposableDomain` |
| `dnsbl` | `checkDomainSpamDatabaseList`, `domainTypoCheck` |
| `mx`, `create`, `insert` | `checkDomainMxRecords`, `create` (find, then save) |
| `smtp`, `mail` | `connect` and `verifyEmail` (module `SmtpSession`), `__sendVerifyPlusEmail` |
| `save`, `store` | `saveProcessedEmail` (find, then save) |
| `blame`, `append` | the rest of `saveProcessedErrorEmail`: `createOrUpdateErrorDomain` (find, then save) |

`Return` leaves the try block, `Throw` enters the catch block with whatever was
thrown: a verdict, or an exception whose `status` and `reason` are taken for one
(`Exception`, `DomainExists`). `lookups` are the blacklist queries in flight and
`promise` is the promise of `checkDomainSpamDatabaseList`: `ResolveDomain` starts
the lookups and settles the promise in one turn, as `multiLookup` does.
`Notified` is `handleSnsNotification`, at any time after the Verify+ mail, any
number of times, in any order; `QueueGrey` and `Recheck` are what the cron and
`runGrayListCheck` do to one row, two minutes apart. The cron takes whatever row of the
file's emails (`Held`) has the sub status GREY_LISTED (`IsGrey`), with any status; an
email in two files may be in two grey jobs at once. The verdict `Wordy` stands for the
wording of a reply or an error that the 255 characters of `email_sub_status` do not hold:
its insert fails and is swallowed, and its update leaves the row as it was.

Whether an email is role-based, its domain disposable, a typo or without MX
records is a nondeterministic choice. What a mail server answers is the constant
`Answers`, a subset of what `SmtpSession` and `SmtpReply` can say.

### Runs

| Run | Instance | Shows |
|---|---|---|
| `validation` | 2 calls, 5 emails, 2 domains, 2 files, 1 blacklist, 2 days | `TypeOK`, `VerdictIsStored`, `GreyHasHost`, `BlameHasGround`, `BehindThePlace`, `StoredVerdictStays`, `FinalStaysFinal`, `ProblemKeepsStatusAndDate`, `EveryValidationEnds` |
| `spamtrap` | the same | violation: `ListedIsNotAsked` |
| `new_domain` | the same | violation: `SavedDomainIsNoError` |

The races of this code are between two calls: of one email, of two emails of
one new domain. `MCAsked` has both, two calls for a free provider's email, and
one for an address without a domain next to one with. `MCHeld` puts one email into two
files. The answers are those that take a path of their own: a reply that is grey, one that
leads to the mail of Verify+ and by it to a valid or undelivered one, a grey verdict thrown with another
status, and a wording too long; blacklists, lists and typos add the rest. The gaps are those of `constant.ts`, with
any positive number of days scaled to one: what matters is whether a row is
fresh, and a day that passes makes it stale. `ERROR_DOMAIN_CHECK_DAY_GAP` and
`PROCESSED_EMAIL_CHECK_DAY_GAP` are 0 there, so neither a cached row nor an
error other than a spamtrap or a catch-all is ever fresh; the proofs cover every value.

`BlameHasGround` says what bars a domain. The comment of `saveProcessedErrorEmail`
(605-608) wants the other emails of a domain spared when an error concerns one. The code
spares them by a list of reasons, and an error that is no verdict has none: the unique
violation when two calls validate one email, or a failed Verify+ mail for an email that
has a row, bars its domain. For an email that is validated once, the row which cannot be
written (its sub status is missing) keeps such an error from `error_domains`.
`CHECK_DEADLOCK FALSE`, as the model stops when all calls are over.

Fairness: each call goes on, together with its lookups. That is, the database,
the resolver and the SMTP session settle every call made of them, as
`EverySessionSettles` shows of the last. A failed database call inside an `async` executor
would break it; see the hazards.

## Pure functions

| Module | Code | Compared with |
|---|---|---|
| `DomainTypo` | `DomainTypoChecker`: trimmed ends, one column of the table at a time (`Column`, `Columns`), nested conditionals | the recursive edit distance; "one character added, left out or replaced" |
| `SmtpReply` | `parseSmtpResponseData`: the order in which codes are looked for in a reply | the table `SMTPResponseCode` |
| `Report` | the report's merge, files, counters, and the batches | each other (files and counters); the list of emails (batches) |

`PureFunctions` makes every bounded input an initial state and states the
comparisons as invariants; run `functions` checks them for all names of up to four
characters out of two (long enough for both trims, a substitution and
an insertion in the middle), all replies that mention up to two codes, with and
without a blocking phrase, all CSVs of up to four rows over two emails with
every verdict that a validation can store, and batches of one to three. A reply
that mentions a second code may be read as that code's, which `ReplyFollowsTable`
leaves open, and rows with a file of their own are all counted, except grey ones:
`__getValidationsByTypes` has no counter for these. Files and counters do not agree:
`CountersByFile` says of each of the six counters which files' rows it counts. `unknown` leaves
out, and `invalid` has, the rows (invalid, ip_blocked) of ip_blocked.csv, although the
comment at scheduler.service.ts:288 counts IP_BLOCKED as unknown; `invalid` also has
invalid rows that are in combined.csv or grey_listed.csv only. `PureFunctionsProofs` proves
each of the six for inputs of every size.

## Proofs

All theorems hold for every set of files, emails, invocations and jobs, every
content of the files, any number of calls, domains and days, and every value of
the other constants. They rest on the named `ASSUME`s of the modules, which TLC
evaluates in every run of theirs, and on the hypotheses a theorem states itself,
given below; the instance of a passing run that checks a property meets those of
its theorem.

- `BulkFilesProofs`, `TypeCorrect`: `TypeOK` is invariant. `TypeOK` is inductive.
- `BulkFilesDataProofs`, `DataCorrect`: `DataBehindStatus` is invariant, whatever
  fails and however crons overlap; `LoadedCorrect` and `ValidatedCorrect` follow.
  `LoadedBeforePending` alone is not inductive (a job at `status` or an
  invocation that holds a file may write a status later), so
  `LoadedBehind` adds that whoever holds a file finds its rows.
  `ValidatedBehind` does the same for validated emails, with the emails an
  invocation still has to do (`TriedBut`).
- `BulkFilesLockProofs`: with `Calm` (no cron overlaps with itself, and faults are
  at most failed re-checks and CSV writes) `StatusIsTheLock` is inductive:
  the status of a file determines which actor may be at which step with that
  file, and that its snapshot of the row is current. From it follow
  `NoLostUpdateCorrect`, `SingleOwnerCorrect`, `AtMostOneNoticeCorrect`,
  `StatusMovesForwardCorrect` and the refinement `ContractImplemented`. `Calm` is needed:
  run `overlap` with those properties finds a file reported twice, and a
  crash between marking and announcing breaks the link between status and job.
- `EmailValidationProofs`: `Inv`, which is `TypeOK` and `BehindThePlace`, is
  inductive. `BehindThePlace` says, for each place of `smtpValidation`, what the
  call has behind it: the domain saved before a mail server is asked, a row
  stored before the domain is blamed.
  It survives the other calls because rows are only added or overwritten
  (lemma `Kept`). `VerdictIsStored` and `GreyHasHost` follow from it; `StoredVerdictStays`
  and `FinalStaysFinal` need `RowChanges` (who writes a row of `processed_emails`, and
  what), `BlameHasGround` and `ProblemKeepsStatusAndDate` need `BlamedChanges` (the same of
  `error_domains`). `BlameHasGround` also needs `RowsHaveWriter`: a row found where a call
  found none is another call's. The theorems are `TypeCorrect`, `CallsCorrect`,
  `VerdictIsStoredCorrect`, `GreyHasHostCorrect`, `FinalStaysFinalCorrect`, `BlameCorrect`,
  `StoredVerdictStaysCorrect` and `ProblemKeepsStatusAndDateCorrect`.
- `BulkFilesGreyProofs`: with `PromptClaim` and `NoFailedRecheck`, `GreyBehind` is inductive, under
  every other fault and every overlap of the grey and report crons; `NoGreyAfterCheckCorrect`
  follows. `NoGreyAfterCheck` speaks of files that are done, but a file becomes
  done by what a scan found and a job re-checked earlier. `GreyIsKnown` therefore says
  at each of their steps that an email still grey is one yet to be scanned, found, or
  yet to be re-checked. It survives only because no batch adds to the emails
  of a file meanwhile: `BatchesFirst` says that batches run one invocation at
  a time, and before the scan. `PromptClaim` (`validate` not in `SlowHandlers`) is
  what makes this so: the claim of `runFileEmailValidation` is two database calls,
  and the next invocation comes a minute later. Were it slower, two invocations
  could both run the batches of one file, one of them after its grey check.
  `NoFailedRecheck` cannot be left out either, as run `failed_recheck` shows.
- `SmtpSessionProofs`, `SmtpSessionEventProofs`: with `Orderly`, `InStep` is inductive. The
  properties speak of verdicts and of commands asked; `InStep` ties every
  connection to its session's coroutines: who waits on it, that the chunks under way are
  the rest of the one reply it waits for, that a server heard to time out is
  mute, and which sockets may still be in use. From it follow
  `SessionTypeCorrect`, `AnswerIsOwnCorrect`, `VerdictIsAboutTheEmailCorrect`,
  `LockStepCorrect` and `NothingInTheClearCorrect`. `Orderly` has three
  parts, and none can be left out. A server silent for ten seconds stays silent: run
  `late_answer` shows the opposite. An instance is used for one session with TLS at most, the
  last: run `reuse` shows the opposite. A prompt server sends each reply in
  one chunk: with `[slow |-> FALSE, chunks |-> 2]` among the `Peers`, TLC finds
  `AnswerIsOwn`, `VerdictIsAboutTheEmail` and `LockStep` violated, the second
  chunk settling the next command.
- `PureFunctionsProofs`: the functions for all inputs.
  - `RepliesCorrect` needs replies to be what `SmtpReply` describes (`Replies \subseteq Reply`);
    `CountsCorrect` and `FiledIsCountedCorrect` a CSV of which only verdicts that a
    validation can store are stored (`StoredCsvs`): they compare the two chains
    of conditions for each such verdict. `BatchesCorrect` needs a size above 0 and a proper
    list (`ProperBatches`).
  - `DistanceCorrect` (`ProperNames`: names are sequences) goes in four steps. A table of
    edit distances is even: neighbours differ by one at most (`TableIsEven`). So the
    nested conditionals of the code, which compare a cell's neighbours one after the other,
    compute the minimum of the definition (`CellIsLeast`), and the code's columns are such a
    table (`CodeIsTable`). There is only one (`TableIsUnique`), so the code's is that of
    `EditTable`, which is thereby shown to exist. Last, shared ends are of no account
    (`EndsDoNotCount`), nor are shared beginnings (`AfterShared`, `Inside`), nor which name is
    the shorter (`EitherWay`).
  - `TypoCorrect`: where a table has 0 the beginnings are the same, where it has 1 they
    are one edit apart (`ZeroAndOne`).
  - Induction: the library's theorems, which take an operator, cannot be used here.
    `NatInduct` states induction for a set of numbers instead, and is proved from the
    pigeonhole theorem for finite sets: if n were missing from a set closed
    under successor, the successor would map the members below n one to one
    into those other than 0. `GridInduct` is the same for the cells of a table.

Only model-checked: the liveness properties `EveryFileSettles`, `EverySessionSettles` and
`EveryValidationEnds`, which are outside TLAPS's reach. What the runs that expect a violation show is about their instance only.

## Not modelled

- Users, authentication, role and disposable-domain lists: look-ups in static
  tables. Whether a file's user exists is the constant `Owned`; whether an email
  is on a list is a nondeterministic choice of `EmailValidation`.
- The column `retry` of `processed_emails`: it is written, but no code that runs reads it
  (`getGreyListedProcessedEmail` has no caller).
- What a reply means that has the codes of two verdicts in it: the code reads it as the
  one it looks for first.
- A database call that fails inside `async` executors of `domain.service.ts`: the
  promise around it is never settled, and the validation hangs.
- The mail queue's retries: what Bull does after an SMTP error is a library's.
- `createMany`, `findAll`, `update`, `remove` and `getGreyListedProcessedEmail` of `DomainService`: nothing calls
  them.
- HTTP plumbing (guards, throttler, interceptors, filters, logging) and schema
  migrations: no state that the rest depends on.
- A stalled job whose process still lives: Bull may start a job twice when the
  event loop is blocked for longer than its lock.
- `__processOutlookBatch`, `bulkOutlookEmailVerification`, `verifyBulkEmail`
  and `__oldBulkValidate`: no caller reaches them.
- Dates, file formats and wording.

## Plan

1. *Done*: life of a bulk file, its contract, invariants and proofs.
2. *Done*: `SmtpSession`, the command/response protocol over sockets whose
   listeners are never removed, its invariant and its proofs. To come:
   an abstract specification (one reply per command) and late answers over several sessions.
3. *Done*: `EmailValidation`, with the Verify+ events, the blacklist lookups and
   the grey job's second look, its invariant and its proofs.
4. *Done*: the pure functions against reference definitions, and their proofs.
5. `MailDelivery`: the mail job's three attempts, duplicates.
6. *Done*: proofs of every safety property that a run checks. To come: that `SmtpSession`
   implements the abstract specification of 2.
7. Composition: the rows of `EmailValidation` under the grey job of `BulkFiles`,
   which now abstracts them to `none`, `grey` and `final`.
