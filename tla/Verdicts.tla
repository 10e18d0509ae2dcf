------------------------------- MODULE Verdicts --------------------------------
(***************************************************************************)
(* What is said of an email: a status and a sub-status, as stored in       *)
(* processed_emails, answered to the caller and counted in the report.     *)
(***************************************************************************)
EXTENDS FiniteSets, Naturals

\* EmailStatus, and what error['status'] is when an exception is taken for a
\* verdict: that of an HttpException, and of anything else.
EmailStatus ==
  {"invalid", "valid", "invalid_domain", "service_unavailable", "catch-all",
   "spamtrap", "do_not_mail", "unknown"}
NotAStatus == {"302", "undefined"}

\* EmailReason; "text" is the wording of a reply or of a socket error, "longtext"
\* one that the 255 characters of email_sub_status do not hold, and "undefined" the
\* error['reason'] of an exception.
EmailReason ==
  {"", "invalid_email_format", "domain_not_found", "does_not_accept_mail",
   "mx_record_not_found", "role_based", "ip_blocked", "grey_listed",
   "alias_or_forwarded_email", "disposable_domain_temporary_email",
   "possible_typo", "mailbox_not_found", "unverifiable_email",
   "smtp_connection_timeout", "socket_not_found"}
NotAReason == {"text", "longtext", "undefined"}

Verdict == [status : EmailStatus \union NotAStatus,
            reason : EmailReason \union NotAReason]
Say(status, reason) == [status |-> status, reason |-> reason]

Valid       == Say("valid", "")
Alias       == Say("valid", "alias_or_forwarded_email")
CatchAll    == Say("catch-all", "")
Spamtrap    == Say("spamtrap", "")
NoMailbox   == Say("invalid", "mailbox_not_found")
Grey        == Say("unknown", "grey_listed")
TimedOut    == Say("unknown", "smtp_connection_timeout")
Blocked     == Say("service_unavailable", "ip_blocked")
Unverified  == Say("unknown", "unverifiable_email")
Wordy       == Say("unknown", "longtext")

\* What sends an email to the grey job, whatever its status.
IsGrey(verdict) == verdict.reason = Grey.reason

\* What smtpValidation may find without asking a mail server, with one that
\* answers, and with one that refuses or breaks off.
OfTheAddress ==
  {Say("invalid", "invalid_email_format"), Say("do_not_mail", "role_based"),
   Say("do_not_mail", "disposable_domain_temporary_email"), Spamtrap,
   Say("invalid", "possible_typo"), Say("invalid", "mx_record_not_found")}
OfAReply ==
  {Valid, Alias, NoMailbox, Blocked, Grey, Unverified, TimedOut, Say("unknown", "text")}
OfARefusal ==
  {CatchAll, Say("invalid", "does_not_accept_mail"), NoMailbox, Blocked, Grey,
   Unverified, Say("invalid", "text"), Say("invalid", "ip_blocked"),
   Say("invalid", "grey_listed"), Say("unknown", "text")}
Storable == OfTheAddress \union OfAReply \union OfARefusal
================================================================================
