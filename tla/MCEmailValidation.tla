-------------------------- MODULE MCEmailValidation ----------------------------
(* Small instances of EmailValidation: emails a, b and c of one business domain, f of
   a free provider and x without a domain. *)
EXTENDS EmailValidationInvariant

MCDomainOf == [e \in Emails |-> CASE e \in {"a", "b", "c"} -> "biz"
                                  [] e = "f" -> "free"
                                  [] OTHER -> "no domain"]

\* One email twice, two of one domain, one of a free provider twice, and one without
\* a domain.
MCAsked == {<<"a", "a">>, <<"b", "c">>, <<"f", "f">>, <<"x", "a">>}

\* Email a is in two files.
MCHeld == {<<1, "a">>, <<2, "a">>, <<1, "f">>}

\* Verdicts of the kinds the code tells apart after a session: a valid one comes with
\* the mail of Verify+, one that stands for days from the blacklists.
MCAnswers == [thrown : {FALSE}, verdict : {Grey, TimedOut}]
               \union [thrown : {TRUE}, verdict : {Say("invalid", "grey_listed"), Wordy}]
================================================================================
