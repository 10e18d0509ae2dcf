------------------------- MODULE SmtpSessionProperties -------------------------
(***************************************************************************)
(* What makes an SMTP session's verdict worth something.                   *)
(***************************************************************************)
EXTENDS SmtpSession, FiniteSets

\* The types of the instance, the connections and the coroutines.
TypeOK ==
  /\ sock \in Conns \union {<<>>}
  /\ slow \in BOOLEAN
  /\ link \in [Conns -> Links]
  /\ \A c \in Conns :
       /\ \A i \in 1..Len(asked[c]) : asked[c][i] \in Cmds
       /\ \A i \in 1..Len(wire[c]) : wire[c][i] \in Heard
  /\ mute \subseteq Conns /\ armed \subseteq Conns
  /\ \A k \in Tasks : task[k].heard \in Heard /\ task[k].go \in BOOLEAN
  /\ promise \in [Sessions -> Reasons \union {"pending", "ready"}]
  /\ verdict \in [Sessions -> [what : Reasons \union {"none"},
                              from : Cmds \union {NoCmd}]]

\* A reply is taken for the answer to the command it answers, and the greeting
\* for the greeting: "try to remove previous command listeners to avoid
\* getting old stream response" (smtp-connection.service.ts:176).
AnswerIsOwn ==
  \A k \in Tasks :
    task[k].at \in Waits /\ task[k].heard.cmd # NoCmd =>
      task[k].heard.cmd =
        <<k[1], k[2], IF task[k].at = "banner" THEN "greet" ELSE task[k].at>>

\* A mailbox is called valid, invalid or grey-listed for what the server said
\* about this very recipient, catch-all for what it said about the random one:
\* be that a 503 because it refused the sender before, which nobody looked at
\* (smtp-connection.service.ts:275).
VerdictIsAboutTheEmail ==
  \A n \in Sessions :
    LET from == verdict[n].from IN
    from # NoCmd =>
      /\ from[1] = n
      /\ IF verdict[n].what = "catch_all" THEN from[3] = "probe"
                                          ELSE from[3] = "rcpt"

\* SMTP without pipelining: a command waits for the answer to the one before
\* it, as long as the server answers at all.
LockStep ==
  \A c \in Conns : c \notin mute =>
    Cardinality({i \in 1..Len(asked[c]) : asked[c][i][3] # "quit"}) <= 1

\* Once the connection is secured, nobody asks for a mailbox in the clear.
NothingInTheClear ==
  \A c \in Conns :
    c[2] = "plain" /\ link[Tls(c[1])] = "open" =>
      \A i \in 1..Len(asked[c]) : asked[c][i][2] # "verify"

\* A session writes to its own connections: the instance is reused since
\* "We run only 1 connection at a time" (queue.service.ts:99), so nothing is
\* left that could still write for an earlier session.  It is so as long as no
\* session has had TLS before; the grey job's instance does not see to that.
OneConnectionAtATime ==
  \A c \in Conns : \A i \in 1..Len(asked[c]) : asked[c][i][1] = c[1]

\* Every session gives its caller a verdict, whatever the server does: its
\* emails are re-checked one at a time, so one that hangs stops the grey job.
EverySessionSettles ==
  \A n \in Sessions : (link[Plain(n)] # "none") ~> (verdict[n] # Undecided)
=============================================================================
