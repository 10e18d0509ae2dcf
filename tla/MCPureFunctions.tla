--------------------------- MODULE MCPureFunctions -----------------------------
(* Inputs for PureFunctions. *)
EXTENDS PureFunctions

\* Names of up to four characters out of two.
MCNames == SeqOf({1, 2}, 4) \ {<<>>}

\* Replies that mention a code besides the one they begin with.
MCReplies ==
  {r \in [starts : Starts, codes : {{}} \union {{a, b} : a, b \in Codes},
          blocking : BOOLEAN] : r.starts \in Codes => r.starts \in r.codes}

\* CSVs of up to four rows, an email twice among them, with anything stored of it.
MCEmails == SeqOf({"a", "b"}, 4)
MCCsvs ==
  [emails : MCEmails,
   processed : UNION {[S -> Storable] : S \in SUBSET {"a", "b"}}]
================================================================================
