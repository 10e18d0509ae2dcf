----------------------- MODULE EmailValidationProperties -----------------------
(* What smtpValidation and its tables promise, as the code keeps it. *)
EXTENDS EmailValidation, Functions

TypeOK ==
  /\ day \in Days
  /\ processed \in [Emails -> Row \union {None}]
  /\ saved \in [Domains -> SUBSET Days]
  /\ blamed \in [Domains -> Seq(Problem)]
  /\ call \in [Calls -> Call]
  /\ lookups \subseteq Calls \X Zones
  /\ mailed \subseteq Emails
  /\ recheck \subseteq Files \X Emails \X BOOLEAN

\* A validation that is over has left a row for its email, whoever wrote it and
\* whatever went wrong on the way: a verdict found twice at once, thrown as an
\* error or taken from error_domains.  Only an exception taken for a verdict, the
\* wording of a reply that the column does not hold, and an email without a domain
\* may leave none (domain.service.ts:543-551, 603-634).
VerdictIsStored ==
  \A c \in Calls :
    At(c, "done") /\ Complete(c) => processed[Email(c)] # None

\* The grey job reads the host of every row it was queued with from domains, and
\* has none to ask when the row is missing (queue.service.ts:92-95): it is there
\* for whatever the scan takes, grey in a reply, in the greeting of a server that
\* then threw, in error_domains or by an event.
GreyHasHost ==
  \A e \in Emails :
    processed[e] # None /\ IsGrey(processed[e].verdict) => saved[DomainOf[e]] # {}

\* What bars a domain is a verdict that may concern more than one mailbox.  There is
\* one exception: an error that is no verdict at all, of the database, of create or
\* of the mail relay, has no reason on the list that spares the domain, and bars it
\* when the email's row was written by another call, concurrent or earlier; the second
\* insert of one email is such an error itself (domain.service.ts:543-551, 617-629),
\* although "other emails from the same domain might be valid" (605-608).  For an
\* email validated once, the row that cannot be written keeps the error from its
\* domain.  A free provider is never blamed.
BlameHasGround ==
  \A d \in Domains : \A p \in Range(blamed[d]) :
    /\ d \notin Free /\ p.verdict.reason \notin SkipReasons
    /\ p.verdict.reason = "undefined" =>
         \E c, other \in Calls :
           c # other /\ Email(c) = Email(other) /\ Domain(c) = d

\* Once final, a verdict is made grey again only by a delayed delivery of the email's
\* own Verify+ mail: not by the second of two grey jobs that hold the same row, a
\* server that still answers grey, or a validation that comes late
\* (queue.service.ts:106-118, webhook.service.ts:41-64).
FinalStaysFinal ==
  [][\A e \in Emails :
       /\ processed[e] # None /\ ~IsGrey(processed[e].verdict)
       /\ IsGrey(processed'[e].verdict)
       => e \in mailed]_vars

\* A validation never changes a row that is there: validated again, an email
\* keeps its first verdict until the grey job or an event of Verify+ changes it
\* (domain.service.ts:118-130).
StoredVerdictStays ==
  [][\A e \in Emails :
       processed[e] # None /\ processed'[e] # processed[e] => UNCHANGED call]_vars

\* A row of error_domains keeps its status and its date for good: what is found
\* later never prolongs it, and never renews it once its days are over either
\* (domain.service.ts:196-207).
ProblemKeepsStatusAndDate ==
  [][\A d \in Domains : \A i \in DOMAIN blamed[d] :
       /\ i \in DOMAIN blamed'[d]
       /\ blamed'[d][i].at = blamed[d][i].at
       /\ blamed'[d][i].verdict.status = blamed[d][i].verdict.status]_vars

\* Every call of smtpValidation returns, whatever is answered, refused or thrown
\* inside its try block and whatever the other calls do meanwhile, as long as the
\* calls it awaits settle: one in an async executor whose query fails does not
\* (domain.service.ts:408-553).
EveryValidationEnds == <>(\A c \in Calls : At(c, "done"))

-----------------------------------------------------------------------------
(* What comments say and the code does not do *)

\* "Step - 4 : Check if the domain is one of DNSBL domain" comes before the mail
\* server is asked (domain.service.ts:468-473): no call with an email of a listed
\* domain asks it while the blacklists have yet to answer.
ListedIsNotAsked ==
  \A c \in Calls, zone \in Zones :
    Domain(c) \in Listed /\ <<c, zone>> \in lookups => ~At(c, "smtp")

\* "Save The domain if it is not already saved" (domain.service.ts:489): that it
\* is saved is no error of the email's.
SavedDomainIsNoError ==
  \A c \in Calls : At(c, "done") => call[c].verdict # DomainExists
================================================================================
