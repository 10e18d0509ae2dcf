------------------------------- MODULE SmtpReply -------------------------------
(***************************************************************************)
(* parseSmtpResponseData: from the text of a reply to a verdict            *)
(* (smtp-connection.service.ts).  The text is searched for the codes of    *)
(* SMTPResponseCode, wherever they stand in it; all that is kept of it is  *)
(* how it begins, which of these codes it has, and whether it has one of   *)
(* the strings of ipBlockedStringsArray.  No text is empty: a chunk has    *)
(* data.                                                                   *)
(***************************************************************************)
EXTENDS Verdicts

\* Status and reason of SMTPResponseCode.
Table ==
  [code \in {"250", "251", "550", "551", "505", "521", "500", "553", "554", "556",
             "451", "452", "450", "421"} |->
     CASE code = "250" -> Valid
       [] code = "251" -> Alias
       [] code = "553" -> Unverified
       [] code = "554" -> Blocked
       [] code \in {"451", "452", "450", "421"} -> Grey
       [] OTHER -> NoMailbox]
Codes == DOMAIN Table

\* How a reply begins: with a code of the table, with another one, or, in place
\* of a reply, with the reason for there being none.
Starts == Codes \union {"2xx", "4xx", "5xx", "else", "timeout", "ip_blocked"}
Reply == [starts : Starts, codes : SUBSET Codes, blocking : BOOLEAN]

BugParse(reply) ==
  LET has(codes) == reply.codes \intersect codes # {} IN
  CASE has({"250"}) -> Valid
    [] ~has({"250"}) /\ has({"251"}) -> Alias
    [] OTHER -> IF has({"421", "450", "451"}) THEN Grey
                ELSE IF has({"553"}) THEN Unverified
                ELSE IF has({"554"}) THEN Blocked ELSE NoMailbox

\* The first of the alternatives of the code that applies.
Parse(reply) ==
  LET has(codes) == reply.codes \intersect codes # {}
  IN IF has({"250"}) THEN Valid
     ELSE IF has({"251"}) THEN Alias
     ELSE IF has({"550", "521", "556", "505", "551", "500"})
     THEN IF reply.blocking THEN Blocked ELSE NoMailbox
     ELSE IF has({"421", "450", "451", "452"}) THEN Grey
     ELSE IF has({"553"}) THEN Unverified
     ELSE IF has({"554"}) THEN Blocked
     ELSE CASE reply.starts = "timeout"    -> TimedOut
            [] reply.starts = "ip_blocked" -> Blocked
            [] reply.starts = "4xx"        -> Grey
            [] reply.starts = "5xx"        -> NoMailbox
            [] OTHER -> Say("unknown", "text")
================================================================================
