----------------------- MODULE EmailValidationInvariant ------------------------
(***************************************************************************)
(* What the place that a call of smtpValidation has reached says of the    *)
(* tables, whatever the other calls, the webhook and the grey job do to    *)
(* them meanwhile: an inductive invariant of EmailValidation.              *)
(***************************************************************************)
EXTENDS EmailValidationProperties

Trying ==
  {"errors", "domain", "lists", "dnsbl", "mx", "create", "insert", "smtp", "mail"}
Storing == {"save", "store", "blame", "append", "done"}

\* A verdict that sends an email to the grey job comes with a row in domains.
HasHost(e) == DomainOf[e] \in Domains /\ saved[DomainOf[e]] # {}

\* A call before it has a verdict ...
OnTheWay(r) ==
  /\ r.at \in Trying \union {"start"} => ~r.failed
  /\ r.at \in Trying => r.email \notin Malformed
  /\ r.domain # {} => HasHost(r.email)
  /\ r.at \in {"smtp", "mail"} => HasHost(r.email)

\* ... and from then on.
WithVerdict(r) ==
  /\ r.at \in Storing => r.verdict # None
  /\ r.at \in Storing /\ IsGrey(r.verdict) => HasHost(r.email)
  /\ r.at \in {"blame", "append"} => processed[r.email] # None
  /\ r.at = "append" =>
       DomainOf[r.email] \notin Free /\ r.verdict.reason \notin SkipReasons
  /\ /\ r.at = "done" /\ r.verdict.reason \notin {"undefined", "longtext"}
     /\ DomainOf[r.email] # NoDomain
     => processed[r.email] # None

\* What is remembered was found with the domain at hand.
Remembered ==
  /\ \A e \in Emails :
       /\ processed[e] # None => DomainOf[e] \in Domains
       /\ processed[e] # None /\ IsGrey(processed[e].verdict) => HasHost(e)
  /\ \A e \in mailed : HasHost(e)
  /\ \A d \in Domains : \A i \in DOMAIN blamed[d] :
       IsGrey(blamed[d][i].verdict) => saved[d] # {}

\* The row of an email was written by a call that is past it.
RowsHaveWriter ==
  \A e \in Emails : processed[e] # None =>
    \E c \in Calls : /\ Email(c) = e /\ call[c].at \in {"blame", "append", "done"}
                     /\ call[c].verdict.reason # "undefined"

\* What a call has behind it when it comes to a place of the code is still so when
\* it goes on from there, although each await lets others write the same tables: it
\* asks a mail server only with the domain saved, blames a domain only with the
\* email's row stored, and is grey only with a host to ask again
\* (domain.service.ts:436-553, 603-629).
BehindThePlace ==
  /\ \A c \in Calls : OnTheWay(call[c]) /\ WithVerdict(call[c])
  /\ Remembered
================================================================================
