------------------------- MODULE SmtpSessionInvariant -------------------------
(***************************************************************************)
(* Why the first chunk to arrive is the answer to the command last written *)
(* and why no session writes for another: an inductive invariant of        *)
(* SmtpSession, for servers that answer in time or not at all, and for an  *)
(* instance that is not used again after TLS.                              *)
(***************************************************************************)
EXTENDS SmtpSessionProperties

-----------------------------------------------------------------------------
(* What the theorems assume *)

\* A server that has been silent for ten seconds stays silent; the instance is used
\* for one session with TLS at most, the last; and a server that answers within three
\* seconds sends a reply in one chunk.
Orderly ==
  /\ ~LateAnswers /\ ~ReusedAfterTls
  /\ \A p \in Peers : p.chunks = 2 => p.slow

-----------------------------------------------------------------------------
(* Types *)

\* A chunk on its way, and what an event leaves with a coroutine.
Parts == [cmd : Cmds, reply : Replies, whole : Replies, last : BOOLEAN]
EventRecords == {Event(what) : what \in Rejections \union {"none", "timeout", "closed"}}
Places == Waits \union {"off", "tls", "over"}
Coroutine == [at : Places, on : Conns \union {<<>>},
              heard : Parts \union EventRecords, go : BOOLEAN]

\* The types of TypeOK, and those of the data only the coroutines look at.
Types ==
  /\ server \in [slow : BOOLEAN, chunks : 1..2, caller : {"validate", "grey"}]
  /\ server.chunks = 2 => server.slow
  /\ sock \in Conns \union {<<>>}
  /\ slow \in BOOLEAN
  /\ link \in [Conns -> Links]
  /\ asked \in [Conns -> Seq(Cmds)]
  /\ wire \in [Conns -> Seq(Parts)]
  /\ mute \subseteq Conns /\ armed \subseteq Conns
  /\ task \in [Tasks -> Coroutine]
  /\ promise \in [Sessions -> Reasons \union {"pending", "ready"}]
  /\ verdict \in [Sessions -> [what : Reasons \union {"none"},
                              from : Cmds \union {NoCmd}]]

-----------------------------------------------------------------------------
(* Who is at work *)

Connecting(n) == task[<<n, "connect">>]
Verifying(n) == task[<<n, "verify">>]
Ours(n) == {Plain(n), Tls(n)}

\* Sessions begin in order, the next one when the one before has its verdict and
\* has not come as far as TLS.
InOrderOf(n) ==
  /\ link[Plain(n)] = "none" =>
       /\ link[Tls(n)] = "none" /\ promise[n] = "pending"
       /\ Connecting(n).at = "off"
  /\ link[Plain(n)] # "none" =>
       /\ \A m \in Sessions : m < n => verdict[m] # Undecided
       /\ sock \in Ours(n) \/ (verdict[n] # Undecided /\ link[Tls(n)] = "none")
  /\ sock = Plain(n) => link[Plain(n)] # "none"
  /\ sock = Tls(n) => link[Tls(n)] \in {"open", "closed"}
InOrder == \A n \in Sessions : InOrderOf(n)

\* connect is over its greeting only for the socket in use, and waits for a
\* command only as long as its promise is open.
ConnectPlaceOf(n) ==
  LET t == Connecting(n) IN
  /\ t.at \in Waits => t.at \in {"banner", "ehlo", "starttls"} /\ t.on = Plain(n)
  /\ t.at \in {"ehlo", "starttls", "tls"} => sock = Plain(n)
  /\ t.at \in {"ehlo", "starttls"} /\ ~t.go => promise[n] = "pending"
  /\ t.at \in Waits /\ t.go /\ t.heard.cmd # NoCmd =>
       promise[n] = "pending" /\ sock = Plain(n)
  /\ t.at = "banner" /\ ~t.go =>
       \/ promise[n] = "pending"
       \/ Plain(n) \in mute /\ wire[Plain(n)] = <<>>
  /\ t.at = "tls" => link[Tls(n)] # "none"
  /\ link[Tls(n)] # "none" => t.at \in {"tls", "over"}
ConnectPlace == \A n \in Sessions : ConnectPlaceOf(n)

\* verifyEmail runs between the promise of connect and the verdict.
VerifyPlaceOf(n) ==
  LET t == Verifying(n) IN
  /\ t.go => t.at \in Waits
  /\ t.at \in Waits =>
       /\ t.at # "banner" /\ t.on = sock /\ sock \in Ours(n)
       /\ GoesOn(n) /\ verdict[n] = Undecided
  /\ promise[n] = "pending" => t.at = "off" /\ verdict[n] = Undecided
VerifyPlace == \A n \in Sessions : VerifyPlaceOf(n)

-----------------------------------------------------------------------------
(* What is heard *)

Cmd(k) == <<k[1], k[2], IF task[k].at = "banner" THEN "greet" ELSE task[k].at>>

\* What a coroutine has heard is its own answer, or an event of a connection that
\* answers no more.
HeardIsOwnOf(k) ==
  LET t == task[k] IN
  /\ t.heard.cmd \in {NoCmd, Cmd(k)}
  /\ t.go => /\ t.heard # Nothing
             /\ t.heard.cmd = NoCmd =>
                  /\ t.at = "banner" <=> t.heard = Event("closed")
                  /\ IF t.heard = Event("timeout") THEN t.on \in mute
                                                   ELSE ~Alive(t.on)
  /\ ~t.go => /\ t.heard = Nothing \/ t.heard.cmd # NoCmd
              /\ t.at = "banner" => t.heard = Nothing
HeardIsOwn == \A k \in Tasks : task[k].at \in Waits => HeardIsOwnOf(k)

\* The chunks under way to a coroutine are the rest of the one reply it waits for,
\* and there is nothing under way when it goes on.
OneReplyOf(k) ==
  LET t == task[k]  w == wire[task[k].on] IN
  /\ t.go => w = <<>> /\ (asked[t.on] = <<>> \/ t.on \in mute)
  /\ ~t.go /\ w # <<>> =>
       /\ t.on \notin mute /\ asked[t.on] = <<>>
       /\ \/ Len(w) = 1 /\ w[1].last
          \/ /\ Len(w) = 2 /\ ~w[1].last /\ w[2].last
             /\ server.slow /\ t.at # "banner"
       /\ \A i \in 1..Len(w) : w[i].cmd = Cmd(k)
       /\ t.heard # Nothing => ~t.heard.last
  /\ ~t.go /\ t.heard # Nothing =>
       /\ t.on \notin mute /\ asked[t.on] = <<>>
       /\ \A n \in Sessions : t.on = Plain(n) => link[Tls(n)] = "none"
OneReply == \A k \in Tasks : task[k].at \in Waits => OneReplyOf(k)

-----------------------------------------------------------------------------
(* What is asked *)

Quits(s) == \E cmd \in Cmds : cmd[3] = "quit" /\ s = <<cmd>>

\* A server that still answers has one command to answer, the one somebody waits
\* for, or a QUIT; a second one only on a plain socket that TLS will replace.
OneCommandOf(c) ==
  /\ \A k \in Tasks : Waiting(k, c) =>
       \/ asked[c] \in {<<>>, <<Cmd(k)>>}
       \/ /\ \E n \in Sessions : c = Plain(n) /\ link[Tls(n)] # "none"
          /\ \E cmd \in Cmds : cmd[3] = "quit" /\ asked[c] = <<cmd, Cmd(k)>>
  /\ (\A k \in Tasks : ~Waiting(k, c)) => asked[c] = <<>> \/ Quits(asked[c])
OneCommand == \A c \in Conns : c \notin mute => OneCommandOf(c)

\* A caller about to verify finds a silent connection.
ReadyToVerifyOf(n) ==
  promise[n] # "pending" /\ Verifying(n).at = "off" /\ verdict[n] = Undecided =>
    /\ wire[sock] = <<>>
    /\ \/ asked[sock] = <<>> \/ sock \in mute
       \/ sock = Plain(n) /\ link[Tls(n)] # "none"
ReadyToVerify == \A n \in Sessions : ReadyToVerifyOf(n)

\* Nothing is under way on a connection that is not open.
NotOpenOf(n) ==
  /\ link[Plain(n)] \in {"none", "closed"} =>
       asked[Plain(n)] = <<>> /\ wire[Plain(n)] = <<>>
  /\ link[Tls(n)] # "open" => asked[Tls(n)] = <<>> /\ wire[Tls(n)] = <<>>
  /\ link[Plain(n)] = "opening" =>
       /\ Connecting(n).at = "banner" /\ ~Connecting(n).go
       /\ wire[Plain(n)] = <<>>
       /\ \/ Plain(n) \in mute
          \/ asked[Plain(n)] = <<>> /\ promise[n] = "pending"
NotOpen == \A n \in Sessions : NotOpenOf(n)

\* From STARTTLS on the plain socket is silent, and the secure one is used only if
\* nobody went on without it.
SecuringOf(n) ==
  /\ link[Tls(n)] = "none" \/ (link[Tls(n)] = "opening" /\ Tls(n) \in armed) =>
       Tls(n) \notin mute
  /\ link[Tls(n)] # "none" =>
       /\ wire[Plain(n)] = <<>>
       /\ promise[n] = "pending" => asked[Plain(n)] = <<>> \/ Plain(n) \in mute
  /\ link[Tls(n)] = "opening" /\ link[Plain(n)] = "open" =>
       promise[n] = "pending" \/ Plain(n) \in mute \/ Tls(n) \in mute
  /\ link[Tls(n)] = "open" =>
       /\ sock = Tls(n) /\ promise[n] # "pending" /\ asked[Plain(n)] = <<>>
Securing == \A n \in Sessions : SecuringOf(n)

\* The inductive invariant: one command, one reply, one session at a time.
InStep ==
  /\ Types /\ InOrder /\ ConnectPlace /\ VerifyPlace
  /\ HeardIsOwn /\ OneReply /\ OneCommand /\ ReadyToVerify /\ NotOpen /\ Securing
  /\ OneConnectionAtATime /\ VerdictIsAboutTheEmail
=============================================================================
