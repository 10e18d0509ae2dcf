------------------------------ MODULE SmtpSession ------------------------------
(***************************************************************************)
(* Asking a mail server whether a mailbox exists: connect and verifyEmail  *)
(* of one SmtpConnectionService (smtp-connection.service.ts), which a      *)
(* validation uses once and the grey job uses again for every email.       *)
(*                                                                         *)
(* The two methods are coroutines, a task each, that write a command and   *)
(* wait for the socket's next event.  Listeners are never removed, and a   *)
(* reply carries nothing that says which command it answers: the first     *)
(* chunk to arrive is taken for the answer to the command last written.    *)
(*                                                                         *)
(* Node runs to completion: what follows a settled promise is done before  *)
(* the next event of a socket or a timer (Quiescent).                      *)
(***************************************************************************)
EXTENDS Naturals, Sequences

CONSTANTS
  Sessions,     \* 1..n: the emails asked for, one after the other
  Free,         \* the sessions whose email is at a free provider
  Peers,        \* kinds of mail server: [slow, chunks]
  Callers,      \* a subset of {"validate", "grey"}
  ReusedAfterTls,   \* is the instance used again after a session with TLS
  LateAnswers   \* may a server that was silent for ten seconds still answer

Wires == {"plain", "tls"}
Conns == Sessions \X Wires
Plain(n) == <<n, "plain">>
Tls(n) == <<n, "tls">>

ASSUME SessionsAssumption == Sessions \subseteq Nat \ {0} /\ Free \subseteq Sessions
ASSUME PeersAssumption == Peers \subseteq [slow : BOOLEAN, chunks : 1..2]
ASSUME CallersAssumption ==
  Callers \subseteq {"validate", "grey"} /\ ReusedAfterTls \in BOOLEAN
\* A late answer may reach a coroutine of an earlier session.
ASSUME LateAssumption == LateAnswers \in BOOLEAN /\ (LateAnswers => Sessions = {1})

VARIABLES
  server,    \* the kind of mail server, and who asks: [slow, chunks, caller]
  sock,      \* this.socket
  slow,      \* this.isSmtpSlow
  link,      \* the state of each connection
  asked,     \* commands written that the server has not answered yet
  wire,      \* chunks of replies under way to us
  mute,      \* connections on which the server answers no more
  armed,     \* connections whose timeout listener of connect is still there
  task,      \* the coroutines: [at, on, heard, go]
  promise,   \* the promise of connect
  verdict    \* what the caller is told, and the command that answers

network == <<link, wire, mute, armed>>
vars == <<server, sock, slow, asked, task, promise, verdict, network>>

-----------------------------------------------------------------------------
(* Values *)

Links == {"none", "opening", "open", "closed"}

Methods == {"connect", "verify"}
Tasks == Sessions \X Methods
Verbs == {"greet", "ehlo", "starttls", "mail", "probe", "rcpt", "quit"}

\* A command is known by the coroutine that writes it and its verb; "greet" is
\* the greeting, which answers the connection itself.
Cmds == Sessions \X Methods \X Verbs
NoCmd == <<>>

\* Replies: 250, 250 with STARTTLS, 550, 451, 220 and 221; and what
\* sendCommand settles with when no reply comes.
Replies == {"ok", "tls", "no", "later", "go", "bye"}
Rejections == {"ip_blocked", "no_accept", "reset", "gone"}
Outcomes == Replies \union Rejections \union {"none", "timeout", "closed"}

\* A chunk: the command it answers, what it says, what the reply it is a part of
\* says, and whether it is the last part.
Heard == [cmd : Cmds \union {NoCmd}, reply : Outcomes, whole : Outcomes,
          last : BOOLEAN]
Event(what) == [cmd |-> NoCmd, reply |-> what, whole |-> what, last |-> TRUE]
Nothing == Event("none")

\* parseSmtpResponseData, and what a rejection is reported as.
Judge(reply) ==
  CASE reply \in {"ok", "tls"} -> "valid"
    [] reply = "no" -> "invalid"
    [] reply \in {"later", "gone"} -> "grey"
    [] reply \in {"go", "bye"} -> "unknown"
    [] OTHER -> reply
Reasons == {"valid", "invalid", "grey", "unknown", "catch_all", "timeout",
            "ip_blocked", "no_accept", "reset", "mailbox_not_found"}

Waits == {"banner", "ehlo", "starttls", "mail", "probe", "rcpt"}
IdleTask == [at |-> "off", on |-> <<>>, heard |-> Nothing, go |-> FALSE]
Undecided == [what |-> "none", from |-> NoCmd]

Init ==
  /\ server \in {[slow |-> p.slow, chunks |-> p.chunks, caller |-> c] :
                    p \in Peers, c \in Callers}
  /\ sock = <<>>
  /\ slow = FALSE
  /\ link = [c \in Conns |-> "none"]
  /\ asked = [c \in Conns |-> <<>>]
  /\ wire = [c \in Conns |-> <<>>]
  /\ mute = {}
  /\ armed = {}
  /\ task = [k \in Tasks |-> IdleTask]
  /\ promise = [n \in Sessions |-> "pending"]
  /\ verdict = [n \in Sessions |-> Undecided]

Alive(c) == c \in Conns /\ link[c] \in {"opening", "open"}

\* The command a waiting coroutine has written; none before the greeting.
Waiting(k, c) == task[k].at \in Waits /\ ~task[k].go /\ task[k].on = c
OnCommand(k, c) == Waiting(k, c) /\ task[k].at # "banner"

SetTask(k, record) == task' = [task EXCEPT ![k] = record]
Over(k) == SetTask(k, [task[k] EXCEPT !.at = "over", !.go = FALSE])

\* A promise settles once; what comes later is ignored.
Settle(n, what) ==
  promise' = [promise EXCEPT ![n] = IF @ = "pending" THEN what ELSE @]

\* socket.write on this.socket, unless it is destroyed.
Write(cmd) == IF Alive(sock) THEN [asked EXCEPT ![sock] = Append(@, cmd)]
                             ELSE asked

\* sendCommand: write and wait, or be rejected at once on a dead socket.
Send(k, verb) ==
  /\ asked' = Write(<<k[1], k[2], verb>>)
  /\ SetTask(k, [at |-> verb, on |-> sock, go |-> ~Alive(sock),
                 heard |-> IF Alive(sock) THEN Nothing ELSE Event("gone")])

-----------------------------------------------------------------------------
(* connect *)

\* A caller that goes on after a connection timed out: the grey job does not
\* look at what connect resolves to.
GoesOn(n) == \/ promise[n] = "ready"
             \/ promise[n] = "timeout" /\ server.caller = "grey"

Quiescent ==
  /\ \A k \in Tasks : ~task[k].go
  /\ \A n \in Sessions :
       promise[n] # "pending" =>
         verdict[n] # Undecided \/ task[<<n, "verify">>].at # "off"

\* The next email of the grey job comes when the one before has its verdict.
Connect(n) ==
  /\ Quiescent
  /\ link[Plain(n)] = "none"
  /\ \A m \in Sessions : m < n =>
       /\ server.caller = "grey"
       /\ verdict[m] # Undecided
  /\ \A m \in Sessions : link[Tls(m)] # "none" => ReusedAfterTls
  /\ sock' = Plain(n)
  /\ link' = [link EXCEPT ![Plain(n)] = "opening"]
  /\ armed' = armed \union {Plain(n)}
  /\ SetTask(<<n, "connect">>, [at |-> "banner", on |-> Plain(n),
                                heard |-> Nothing, go |-> FALSE])
  /\ UNCHANGED <<server, slow, asked, wire, mute, promise, verdict>>

\* The first data on the socket, or its close before any.
Greeted(n) ==
  LET k == <<n, "connect">> IN
  /\ task[k].at = "banner" /\ task[k].go
  /\ IF task[k].heard = Event("closed")
     THEN Settle(n, "mailbox_not_found") /\ Over(k) /\ UNCHANGED asked
     ELSE Send(k, "ehlo") /\ UNCHANGED promise
  /\ UNCHANGED <<server, sock, slow, verdict, network>>

EhloAnswered(n) ==
  LET k == <<n, "connect">> IN
  /\ task[k].at = "ehlo" /\ task[k].go
  /\ IF task[k].heard.reply = "tls"
     THEN Send(k, "starttls") /\ UNCHANGED promise
     ELSE /\ Settle(n, IF task[k].heard.reply = "ok" THEN "ready"
                       ELSE Judge(task[k].heard.reply))
          /\ Over(k)
          /\ UNCHANGED asked
  /\ UNCHANGED <<server, sock, slow, verdict, network>>

\* Whatever the reply to STARTTLS says, the handshake begins.
StartTls(n) ==
  LET k == <<n, "connect">> IN
  /\ task[k].at = "starttls" /\ task[k].go
  /\ IF task[k].heard.reply \in Rejections
     THEN /\ Settle(n, Judge(task[k].heard.reply))
          /\ Over(k)
          /\ UNCHANGED network
     ELSE /\ link' = [link EXCEPT ![Tls(n)] = "opening"]
          /\ armed' = armed \union {Tls(n)}
          /\ SetTask(k, [task[k] EXCEPT !.at = "tls", !.go = FALSE])
          /\ UNCHANGED <<promise, wire, mute>>
  /\ UNCHANGED <<server, sock, slow, asked, verdict>>

\* Bug: the plain socket stays in place.
BugSecured(n) ==
  LET k == <<n, "connect">> IN
  /\ Quiescent
  /\ link[Tls(n)] = "opening" /\ link[Plain(n)] = "open"
  /\ {Plain(n), Tls(n)} \cap mute = {}
  /\ link' = [link EXCEPT ![Tls(n)] = "open"]
  /\ task' = [task EXCEPT ![k].at = "over"]
  /\ Settle(n, "ready")
  /\ UNCHANGED <<server, sock, slow, asked, wire, mute, armed, verdict>>

\* The secure socket replaces the plain one, whose listeners are removed:
\* nothing will settle a command written to it.
Secured(n) ==
  LET k == <<n, "connect">> IN
  /\ Quiescent
  /\ link[Tls(n)] = "opening" /\ link[Plain(n)] = "open"
  /\ {Plain(n), Tls(n)} \cap mute = {}
  /\ link' = [link EXCEPT ![Tls(n)] = "open"]
  /\ sock' = Tls(n)
  /\ armed' = armed \ {Plain(n)}
  /\ task' = [j \in Tasks |->
       IF j = k THEN [task[j] EXCEPT !.at = "over"]
       ELSE IF Waiting(j, Plain(n)) THEN [task[j] EXCEPT !.on = <<>>]
       ELSE task[j]]
  /\ Settle(n, "ready")
  /\ UNCHANGED <<server, slow, asked, wire, mute, verdict>>

\* connect was rejected, or timed out for a caller that minds.
Refused(n) ==
  /\ promise[n] # "pending" /\ ~GoesOn(n)
  /\ verdict[n] = Undecided
  /\ verdict' = [verdict EXCEPT ![n] = [what |-> promise[n], from |-> NoCmd]]
  /\ UNCHANGED <<server, sock, slow, asked, task, promise, network>>

ConnectStep(n) ==
  Greeted(n) \/ EhloAnswered(n) \/ StartTls(n) \/ Refused(n)

-----------------------------------------------------------------------------
(* verifyEmail *)

VerifyEmail(n) ==
  LET k == <<n, "verify">> IN
  /\ task[k].at = "off" /\ verdict[n] = Undecided /\ GoesOn(n)
  /\ Send(k, "ehlo")
  /\ UNCHANGED <<server, sock, slow, promise, verdict, network>>

\* resolve or reject, and a QUIT nobody waits for.
Decide(n, what, from) ==
  /\ verdict' = [verdict EXCEPT ![n] = [what |-> what, from |-> from]]
  /\ asked' = Write(<<n, "verify", "quit">>)
  /\ Over(<<n, "verify">>)

Answered(k, verb) ==
  task[k].at = verb /\ task[k].go /\ task[k].heard.reply \notin Rejections

\* Bug: MAIL FROM is not awaited.
BugMailFrom(n) ==
  LET k == <<n, "verify">> IN
  /\ task[k].at = "mail"
  /\ Send(k, IF n \in Free THEN "rcpt" ELSE "probe")
  /\ UNCHANGED <<server, sock, slow, promise, verdict, network>>

\* What EHLO and MAIL FROM answer is ignored: when the sender is refused, the
\* recipient's 503 is taken for the mailbox's.
Ehlo(n) ==
  LET k == <<n, "verify">> IN
  /\ Answered(k, "ehlo")
  /\ Send(k, "mail")
  /\ UNCHANGED <<server, sock, slow, promise, verdict, network>>

MailFrom(n) ==
  LET k == <<n, "verify">> IN
  /\ Answered(k, "mail")
  /\ Send(k, IF n \in Free THEN "rcpt" ELSE "probe")
  /\ UNCHANGED <<server, sock, slow, promise, verdict, network>>

\* A random recipient the server accepts: it accepts everyone.
Probe(n) ==
  LET k == <<n, "verify">> IN
  /\ Answered(k, "probe")
  /\ IF Judge(task[k].heard.reply) = "valid"
     THEN Decide(n, "catch_all", task[k].heard.cmd)
     ELSE Send(k, "rcpt") /\ UNCHANGED verdict
  /\ UNCHANGED <<server, sock, slow, promise, network>>

\* Bug: the reply is not parsed.
BugRcpt(n) ==
  LET k == <<n, "verify">> IN
  /\ Answered(k, "rcpt")
  /\ Decide(n, task[k].heard.reply, task[k].heard.cmd)
  /\ UNCHANGED <<server, sock, slow, promise, network>>

Rcpt(n) ==
  LET k == <<n, "verify">> IN
  /\ Answered(k, "rcpt")
  /\ Decide(n, Judge(task[k].heard.reply), task[k].heard.cmd)
  /\ UNCHANGED <<server, sock, slow, promise, network>>

CommandRejected(n) ==
  LET k == <<n, "verify">> IN
  /\ task[k].go /\ task[k].heard.reply \in Rejections
  /\ Decide(n, Judge(task[k].heard.reply), NoCmd)
  /\ UNCHANGED <<server, sock, slow, promise, network>>

VerifyStep(n) ==
  \/ VerifyEmail(n) \/ Ehlo(n) \/ MailFrom(n) \/ Probe(n) \/ Rcpt(n)
  \/ CommandRejected(n)

-----------------------------------------------------------------------------
(* Events of the sockets and timers *)

\* Bug: the first chunk settles a command, however slow the server is.
BugReceive(c) ==
  /\ Quiescent
  /\ Alive(c) /\ wire[c] # <<>>
  /\ task' = [k \in Tasks |->
       IF Waiting(k, c) THEN [task[k] EXCEPT !.heard = Head(wire[c]), !.go = TRUE]
                        ELSE task[k]]
  /\ wire' = [wire EXCEPT ![c] = Tail(@)]
  /\ UNCHANGED <<server, sock, slow, link, asked, mute, armed, promise, verdict>>

\* socket.on('data').  The listener of an EHLO notices when more than three
\* seconds have passed since it was written, whatever the chunk is about; from
\* then on a command is settled by two seconds of silence (Quiet).
Receive(c) ==
  /\ Quiescent
  /\ Alive(c) /\ wire[c] # <<>>
  /\ slow' \in IF \A k \in Tasks : task[k].on = c => task[k].at \in {"off", "banner"}
               THEN {slow}
               ELSE IF server.slow THEN {TRUE} ELSE {slow, TRUE}
  /\ task' = [k \in Tasks |->
       IF Waiting(k, c)
       THEN [task[k] EXCEPT !.heard = Head(wire[c]),
                            !.go = task[k].at = "banner" \/ ~slow']
       ELSE task[k]]
  /\ wire' = [wire EXCEPT ![c] = Tail(@)]
  /\ UNCHANGED <<server, sock, link, asked, mute, armed, promise, verdict>>

\* The two-second timer of the last chunk; the chunks of one reply are closer.
Quiet(k) ==
  /\ Quiescent
  /\ task[k].at \in Waits \ {"banner"} /\ ~task[k].go
  /\ task[k].heard # Nothing /\ task[k].heard.last
  /\ SetTask(k, [task[k] EXCEPT !.go = TRUE])
  /\ UNCHANGED <<server, sock, slow, asked, promise, verdict, network>>

\* What a socket has to be silent about for ten seconds to time out.  While it
\* is connecting, writing does not start the timer again; what the secure socket
\* does, starts that of the plain one again too.
Silent(c) ==
  /\ Alive(c) /\ wire[c] = <<>>
  /\ link[c] = "opening" => c \in armed
  /\ c[2] = "plain" => 
       \/ link[Tls(c[1])] = "none"
       \/ link[Tls(c[1])] = "opening" /\ Tls(c[1]) \notin armed
  /\ \A k \in Tasks : OnCommand(k, c) => task[k].heard = Nothing
  /\ c \in armed \/ \E k \in Tasks : OnCommand(k, c)

\* Bug: sendCommand does not listen for the timeout.
BugTimeout(c) ==
  /\ Quiescent
  /\ Silent(c)
  /\ IF c \in armed THEN Settle(c[1], "timeout") ELSE UNCHANGED promise
  /\ armed' = armed \ {c}
  /\ mute' = mute \union {c}
  /\ UNCHANGED <<server, sock, slow, link, wire, asked, task, verdict>>

\* connect resolves to SMTP_TIMEOUT, and so does every command written; the
\* secure socket's listener also writes a QUIT.
Timeout(c) ==
  /\ Quiescent
  /\ Silent(c)
  /\ IF c \in armed THEN Settle(c[1], "timeout") ELSE UNCHANGED promise
  /\ armed' = armed \ {c}
  /\ task' = [k \in Tasks |->
       IF OnCommand(k, c)
       THEN [task[k] EXCEPT !.heard = Event("timeout"), !.go = TRUE]
       ELSE task[k]]
  /\ asked' = IF c \in armed /\ c[2] = "tls"
              THEN Write(<<c[1], "connect", "quit">>) ELSE asked
  /\ mute' = IF LateAnswers THEN mute ELSE mute \union {c}
  /\ UNCHANGED <<server, sock, slow, link, wire, verdict>>

\* What a lost connection does to the coroutines waiting on conns.
Lose(conns, why) ==
  task' = [k \in Tasks |->
    IF \E c \in conns : Waiting(k, c)
    THEN IF task[k].at = "banner"
         THEN [task[k] EXCEPT !.heard = Event("closed"), !.go = TRUE]
         ELSE IF why = "close" /\ task[k].heard # Nothing
         THEN IF task[k].heard.reply \in {"no", "later"}
              THEN [task[k] EXCEPT !.heard = Event("no_accept"), !.go = TRUE]
              ELSE task[k]
         ELSE [task[k] EXCEPT !.go = TRUE, !.heard =
                  Event(IF why = "close" THEN "ip_blocked" ELSE "reset")]
    ELSE IF task[k].at = "tls" /\ task[k].on \in conns
    THEN [task[k] EXCEPT !.at = "over"]
    ELSE task[k]]

\* The listeners of a lost secure socket write a QUIT to whatever this.socket is
\* by now (two after an error: the server is gone by the second).
Lost(c, conns) ==
  [d \in Conns |->
    IF d \in conns THEN <<>>
    ELSE IF c[2] = "tls" THEN Write(<<c[1], "connect", "quit">>)[d]
    ELSE asked[d]]

\* The server, or the network, ends an open connection.
Drop(c) ==
  LET conns == IF c[2] = "tls" THEN {c, Plain(c[1])} ELSE {c} IN
  /\ Quiescent
  /\ link[c] = "open" /\ wire[c] = <<>>
  /\ c[2] = "plain" => link[Tls(c[1])] = "none"
  /\ link' = [d \in Conns |-> IF d \in conns THEN "closed" ELSE link[d]]
  /\ \E why \in {"close", "reset"} :
       /\ Lose(conns, why)
       /\ IF why = "reset" /\ c[2] = "plain" THEN Settle(c[1], "no_accept")
                                             ELSE UNCHANGED promise
  /\ asked' = Lost(c, conns)
  /\ UNCHANGED <<server, sock, slow, wire, mute, armed, verdict>>

\* The host cannot be reached, or TLS cannot be agreed on.  A secure socket over
\* a closed one fails at once or never.
Fail(c) ==
  LET conns == {c, Plain(c[1])} IN
  /\ Quiescent
  /\ link[c] = "opening"
  /\ c[2] = "tls" => link[Plain(c[1])] = "open" \/ c \in armed
  /\ link' = [d \in Conns |-> IF d \in conns THEN "closed" ELSE link[d]]
  /\ Settle(c[1], "no_accept")
  /\ \E why \in {"close", "reset"} : Lose(conns, why)
  /\ asked' = Lost(c, conns)
  /\ wire' = [d \in Conns |-> IF d \in conns THEN <<>> ELSE wire[d]]
  /\ UNCHANGED <<server, sock, slow, mute, armed, verdict>>

-----------------------------------------------------------------------------
(* The mail server *)

\* It takes the connection and greets us.
Accept(n) ==
  LET c == Plain(n) IN
  /\ Quiescent
  /\ link[c] = "opening" /\ c \notin mute
  /\ link' = [link EXCEPT ![c] = "open"]
  /\ asked' = [asked EXCEPT ![c] = <<<<n, "connect", "greet">>>> \o @]
  /\ UNCHANGED <<server, sock, slow, wire, mute, armed, task, promise, verdict>>

\* A server that refuses MAIL FROM goes on to refuse the recipients (503), which
\* it may do in any case.
RepliesTo(cmd, c) ==
  CASE cmd[3] \in {"greet", "starttls"} -> {"go"}
    [] cmd[3] = "ehlo" -> IF c[2] = "plain" THEN {"ok", "tls", "no"} ELSE {"ok"}
    [] cmd[3] \in {"mail", "probe", "rcpt"} -> {"ok", "no", "later"}
    [] cmd[3] = "quit" -> {"bye"}

\* A reply arrives in one chunk, or in as many as the server sends.  The line
\* that offers STARTTLS is in one of them.
Chunks(cmd, reply) ==
  LET part(says, last) ==
        [cmd |-> cmd, reply |-> says, whole |-> reply, last |-> last]
      two(first, second) == <<part(first, FALSE), part(second, TRUE)>> IN
  {<<part(reply, TRUE)>>} \union
    IF server.chunks = 1 \/ cmd[3] \in {"greet", "quit"} THEN {}
    ELSE IF reply = "tls" THEN {two("ok", "tls"), two("tls", "ok")}
    ELSE {two(reply, reply)}

\* It answers the commands of a connection in order, and none after a QUIT.
Answer(c) ==
  /\ Quiescent
  /\ link[c] = "open" /\ c \notin mute /\ asked[c] # <<>>
  /\ c[2] = "plain" => link[Tls(c[1])] = "none"
  /\ LET cmd == Head(asked[c]) IN
       /\ \E reply \in RepliesTo(cmd, c) : \E chunks \in Chunks(cmd, reply) :
            wire' = [wire EXCEPT ![c] = @ \o chunks]
       /\ mute' = IF cmd[3] = "quit" THEN mute \union {c} ELSE mute
  /\ asked' = [asked EXCEPT ![c] = Tail(@)]
  /\ UNCHANGED <<server, sock, slow, link, armed, task, promise, verdict>>

-----------------------------------------------------------------------------
(* The specification *)

Coroutines == \E n \in Sessions : ConnectStep(n) \/ VerifyStep(n)

Events ==
  \/ \E c \in Conns : Receive(c) \/ Timeout(c) \/ Drop(c) \/ Fail(c)
  \/ \E n \in Sessions : Secured(n)
  \/ \E k \in Tasks : Quiet(k)

Peer == (\E n \in Sessions : Accept(n)) \/ \E c \in Conns : Answer(c)

Next == (\E n \in Sessions : Connect(n)) \/ Coroutines \/ Events \/ Peer

Spec == Init /\ [][Next]_vars

\* The event loop runs, timers fire and the kernel gives up connecting.  The
\* server is not fair: it need not answer anything.
Fairness ==
  /\ WF_vars(Coroutines)
  /\ \A c \in Conns : WF_vars(Receive(c)) /\ WF_vars(Timeout(c))
  /\ \A n \in Sessions : WF_vars(Fail(Plain(n)))
  /\ \A k \in Tasks : WF_vars(Quiet(k))

FairSpec == Spec /\ Fairness
=============================================================================
