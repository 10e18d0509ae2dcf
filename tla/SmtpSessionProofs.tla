--------------------------- MODULE SmtpSessionProofs ---------------------------
(***************************************************************************)
(* Every reply is taken for the answer to its own command, and commands go *)
(* out one at a time, for any number of sessions.                          *)
(***************************************************************************)
EXTENDS SmtpSessionInvariant, FiniteSetTheorems,
        SequenceTheorems, TLAPS

-----------------------------------------------------------------------------
(* Connections, coroutines and commands *)

\* A session has two connections, and they are its own.
LEMMA ConnFacts ==
  /\ \A c \in Conns : \E n \in Sessions : c = Plain(n) \/ c = Tls(n)
  /\ \A n \in Sessions :
       /\ Plain(n) \in Conns /\ Plain(n)[1] = n /\ Plain(n)[2] = "plain"
       /\ Tls(n) \in Conns /\ Tls(n)[1] = n /\ Tls(n)[2] = "tls"
  /\ \A n, m \in Sessions : /\ Plain(n) # Tls(m)
                            /\ Plain(n) = Plain(m) => n = m
                            /\ Tls(n) = Tls(m) => n = m
  /\ <<>> \notin Conns
BY DEF Conns, Wires, Plain, Tls

\* A session has two coroutines, and they are its own.
LEMMA TaskFacts ==
  /\ \A k \in Tasks : /\ k[1] \in Sessions
                      /\ k = <<k[1], "connect">> \/ k = <<k[1], "verify">>
  /\ \A n \in Sessions :
       /\ <<n, "connect">> \in Tasks /\ <<n, "verify">> \in Tasks
       /\ <<n, "connect">>[1] = n /\ <<n, "connect">>[2] = "connect"
       /\ <<n, "verify">>[1] = n /\ <<n, "verify">>[2] = "verify"
  /\ \A n, m \in Sessions : /\ <<n, "connect">> # <<m, "verify">>
                            /\ <<n, "connect">> = <<m, "connect">> => n = m
                            /\ <<n, "verify">> = <<m, "verify">> => n = m
BY DEF Tasks, Methods

\* The second element of a sequence.
LEMMA AppendToOne ==
  ASSUME NEW S, NEW x \in S, NEW y \in S
  PROVE  Append(<<x>>, y) = <<x, y>>
<1>1. <<x>> \in Seq(S) /\ <<x, y>> \in Seq(S) /\ Len(<<x>>) = 1
  OBVIOUS
<1>2. /\ Append(<<x>>, y) \in Seq(S) /\ Len(Append(<<x>>, y)) = 2
      /\ Append(<<x>>, y)[1] = x /\ Append(<<x>>, y)[2] = y
  BY <1>1, AppendProperties
<1>3. \A i \in 1..2 : Append(<<x>>, y)[i] = <<x, y>>[i]
  BY <1>2
<1>4. QED
  BY <1>1, <1>2, <1>3, SeqEqual

\* The command a coroutine waits for is one, and never a QUIT.
LEMMA CmdFacts ==
  /\ NoCmd \notin Cmds
  /\ \A k \in Tasks, verb \in Verbs :
       LET cmd == <<k[1], k[2], verb>> IN
       cmd \in Cmds /\ cmd[1] = k[1] /\ cmd[2] = k[2] /\ cmd[3] = verb
  /\ \A k \in Tasks : task[k].at \in Waits => Cmd(k) \in Cmds /\ Cmd(k)[3] # "quit"
BY DEF NoCmd, Cmds, Tasks, Methods, Verbs, Waits, Cmd

-----------------------------------------------------------------------------
(* A coroutine writes a command *)

\* Before it writes: the connection is silent, and nobody else waits on it.
MaySend(k) ==
  /\ sock \in Ours(k[1])
  /\ wire[sock] = <<>>
  /\ Alive(sock) /\ sock \notin mute =>
       /\ \/ asked[sock] = <<>>
          \/ /\ sock = Plain(k[1]) /\ link[Tls(k[1])] # "none"
             /\ Quits(asked[sock])
       /\ \A l \in Tasks : l # k /\ task[l].at \in Waits => task[l].on # sock

SendStep(k, verb) ==
  /\ Send(k, verb)
  /\ UNCHANGED <<server, sock, slow, promise, verdict, network>>

ConnectSends(n, verb) ==
  LET k == <<n, "connect">> IN
  /\ task[k].at \in Waits /\ task[k].go /\ task[k].heard.cmd # NoCmd
  /\ verb \in {"ehlo", "starttls"}
  /\ SendStep(k, verb)

VerifyGoes(n) ==
  LET k == <<n, "verify">> IN
  \/ task[k].at \in Waits /\ task[k].go
  \/ task[k].at = "off" /\ verdict[n] = Undecided /\ GoesOn(n)

VerifySends(n, verb) ==
  LET k == <<n, "verify">> IN
  /\ VerifyGoes(n)
  /\ verb \in Waits \ {"banner"}
  /\ SendStep(k, verb)

\* A coroutine at work has its session's socket.
LEMMA Own ==
  ASSUME InStep, NEW n \in Sessions
  PROVE  /\ Connecting(n).at \in Waits =>
              Connecting(n).on = Plain(n) /\ link[Tls(n)] = "none"
         /\ Verifying(n).at \in Waits =>
              /\ Verifying(n).on = sock /\ sock \in Ours(n)
              /\ promise[n] # "pending" /\ verdict[n] = Undecided
         /\ promise[n] # "pending" /\ verdict[n] = Undecided => sock \in Ours(n)
         /\ link[Tls(n)] # "none" => sock \in Ours(n)
         /\ sock \in Ours(n) => \A m \in Sessions : sock \in Ours(m) => m = n
BY ConnFacts DEF InStep, InOrder, InOrderOf, ConnectPlace, ConnectPlaceOf, VerifyPlace,
                   VerifyPlaceOf, GoesOn, Ours, Waits

\* A coroutine goes on when its server has said everything, or is mute.
LEMMA GoesOnSilent ==
  ASSUME InStep, NEW k \in Tasks, task[k].at \in Waits, task[k].go
  PROVE  /\ wire[task[k].on] = <<>>
         /\ asked[task[k].on] = <<>> \/ task[k].on \in mute
BY DEF InStep, OneReply, OneReplyOf

\* connect writes to its own plain socket, its promise still open.
LEMMA ConnectMaySend ==
  ASSUME InStep, NEW n \in Sessions, NEW verb, ConnectSends(n, verb)
  PROVE  MaySend(<<n, "connect">>) /\ sock = Plain(n) /\ promise[n] = "pending"
<1> DEFINE k == <<n, "connect">>
<1>1. /\ sock = Plain(n) /\ promise[n] = "pending"
      /\ Connecting(n).on = Plain(n) /\ Verifying(n).at = "off"
  BY DEF InStep, ConnectPlace, ConnectPlaceOf, VerifyPlace, VerifyPlaceOf, ConnectSends, Connecting
<1>0. k \in Tasks
  BY TaskFacts
<1>2. wire[sock] = <<>> /\ (asked[sock] = <<>> \/ sock \in mute)
  BY <1>0, <1>1, GoesOnSilent DEF ConnectSends, Connecting
<1>3. ASSUME NEW l \in Tasks, l # k, task[l].at \in Waits PROVE task[l].on # sock
  <2>1. PICK m \in Sessions : l = <<m, "connect">> \/ l = <<m, "verify">>
    BY TaskFacts
  <2>2. CASE l = <<m, "connect">>
    BY <1>1, <1>3, <2>2, Own, ConnFacts DEF Connecting
  <2>3. CASE l = <<m, "verify">>
    BY <1>1, <1>3, <2>3, Own, ConnFacts DEF Verifying, Ours, Waits
  <2>4. QED
    BY <2>1, <2>2, <2>3
<1>4. QED
  BY <1>1, <1>2, <1>3, TaskFacts DEF MaySend, Ours

\* verifyEmail writes after connect, before the verdict.
LEMMA VerifyMaySend ==
  ASSUME InStep, NEW n \in Sessions, VerifyGoes(n)
  PROVE  /\ MaySend(<<n, "verify">>) /\ GoesOn(n) /\ verdict[n] = Undecided
         /\ promise[n] # "pending"
<1> DEFINE k == <<n, "verify">>
<1>0. k \in Tasks
  BY TaskFacts
<1>1. GoesOn(n) /\ verdict[n] = Undecided /\ promise[n] # "pending" /\ sock \in Ours(n)
  BY Own DEF InStep, VerifyPlace, VerifyPlaceOf, VerifyGoes, Verifying, GoesOn
<1>2. /\ wire[sock] = <<>>
      /\ \/ asked[sock] = <<>> \/ sock \in mute
         \/ sock = Plain(n) /\ link[Tls(n)] # "none"
  <2>1. CASE task[k].at \in Waits /\ task[k].go
    BY <1>0, <1>1, <2>1, Own, GoesOnSilent DEF Verifying
  <2>2. CASE task[k].at = "off"
    BY <1>1, <2>2 DEF InStep, ReadyToVerify, ReadyToVerifyOf, Verifying
  <2>3. QED
    BY <2>1, <2>2 DEF VerifyGoes
<1>3. ASSUME Alive(sock), sock \notin mute,
             NEW l \in Tasks, l # k, task[l].at \in Waits PROVE task[l].on # sock
  <2>1. PICK m \in Sessions : l = <<m, "connect">> \/ l = <<m, "verify">>
    BY TaskFacts
  <2>2. CASE l = <<m, "connect">>
    <3>1. SUFFICES ASSUME task[l].on = sock PROVE FALSE
      OBVIOUS
    <3>2. m = n /\ sock = Plain(n)
      BY <1>1, <1>3, <2>2, <3>1, Own, ConnFacts DEF Connecting, Ours
    <3>3. CASE ~task[l].go
      BY <1>1, <1>3, <2>2, <3>2, <3>3 DEF InStep, ConnectPlace, ConnectPlaceOf, Connecting
    <3>4. CASE task[l].go
      <4>1. task[l].heard.cmd = NoCmd
        BY <1>1, <1>3, <2>2, <3>2, <3>4 DEF InStep, ConnectPlace, ConnectPlaceOf, Connecting
      <4>2. QED
        BY <1>3, <3>1, <3>4, <4>1 DEF InStep, HeardIsOwn, HeardIsOwnOf
    <3>5. QED
      BY <3>3, <3>4
  <2>3. CASE l = <<m, "verify">>
    BY <1>1, <1>3, <2>3, Own DEF Verifying
  <2>4. QED
    BY <2>1, <2>2, <2>3
<1>4. ASSUME Alive(sock), sock \notin mute, asked[sock] # <<>> PROVE Quits(asked[sock])
  <2>1. ~Waiting(k, sock)
    <3>1. \/ task[k].go
          \/ task[k].at = "off"
      BY DEF VerifyGoes
    <3>2. QED
      BY <3>1 DEF Waiting, Waits
  <2>2. \A l \in Tasks : ~Waiting(l, sock)
    BY <1>3, <1>4, <2>1 DEF Waiting
  <2>3. QED
    BY <1>1, <1>4, <2>2, ConnFacts DEF InStep, OneCommand, OneCommandOf, Ours
<1>5. QED
  BY <1>1, <1>2, <1>3, <1>4, TaskFacts DEF MaySend

\* A coroutine waits on a connection of its own session.
LEMMA WaitsOnConn ==
  ASSUME InStep, NEW k \in Tasks, task[k].at \in Waits
  PROVE  task[k].on \in Conns /\ task[k].on \in Ours(k[1])
<1>1. PICK n \in Sessions : k = <<n, "connect">> \/ k = <<n, "verify">>
  BY TaskFacts
<1>2. k[1] = n
  BY <1>1, TaskFacts
<1>3. task[k].on \in Ours(n)
  BY <1>1, Own DEF Connecting, Verifying, Ours
<1>4. QED
  BY <1>2, <1>3, ConnFacts DEF Ours

\* sendCommand keeps command and reply in step, accepted or rejected.
LEMMA SendKeeps ==
  ASSUME InStep, NEW n \in Sessions, NEW verb, NEW k \in Tasks,
         \/ k = <<n, "connect">> /\ ConnectSends(n, verb)
         \/ k = <<n, "verify">> /\ VerifySends(n, verb)
  PROVE  InStep'
<1> DEFINE cmd == <<k[1], k[2], verb>>
<1> USE DEF network
<1>1. /\ MaySend(k) /\ k[1] = n /\ SendStep(k, verb)
      /\ verb \in Waits \ {"banner"} /\ verb \in Verbs
      /\ task[k].at \notin Waits \/ task[k].go
      /\ UNCHANGED <<server, sock, slow, promise, verdict, link, wire, mute, armed>>
  BY ConnectMaySend, VerifyMaySend, TaskFacts
     DEF ConnectSends, VerifySends, VerifyGoes, SendStep, Waits, Verbs
<1>2. /\ sock \in Conns /\ sock \in Ours(n) /\ sock # <<>>
      /\ cmd \in Cmds /\ cmd[1] = n /\ cmd[3] = verb
  BY <1>1, ConnFacts, CmdFacts DEF MaySend, Ours
<1>3. /\ \A l \in Tasks : l # k => task'[l] = task[l]
      /\ task'[k].at = verb /\ task'[k].on = sock /\ task'[k].go = ~Alive(sock)
      /\ task'[k].heard = IF Alive(sock) THEN Nothing ELSE Event("gone")
      /\ task'[k] \in Coroutine /\ task' \in [Tasks -> Coroutine]
  <2>1. task \in [Tasks -> Coroutine]
    BY DEF InStep, Types
  <2>2. [at |-> verb, on |-> sock, go |-> ~Alive(sock),
         heard |-> IF Alive(sock) THEN Nothing ELSE Event("gone")] \in Coroutine
    BY <1>1, <1>2 DEF Coroutine, Places, Nothing, EventRecords, Rejections, Alive
  <2>3. QED
    BY <1>1, <2>1, <2>2 DEF SendStep, Send, SetTask
<1>4. /\ asked' \in [Conns -> Seq(Cmds)] /\ asked \in [Conns -> Seq(Cmds)]
      /\ \A c \in Conns : c # sock => asked'[c] = asked[c]
      /\ Alive(sock) => asked'[sock] = Append(asked[sock], cmd)
      /\ ~Alive(sock) => asked' = asked
  <2>1. asked \in [Conns -> Seq(Cmds)]
    BY DEF InStep, Types
  <2>2. QED
    BY <1>1, <1>2, <2>1 DEF SendStep, Send, Write
<1>5. ~Alive(sock) => asked[sock] = <<>> /\ wire[sock] = <<>>
  BY <1>2 DEF InStep, NotOpen, NotOpenOf, Types, Ours, Alive, Links
<1>6. /\ k = <<n, "connect">> => /\ sock = Plain(n) /\ promise[n] = "pending"
                                 /\ link[Tls(n)] = "none" /\ verb \in {"ehlo", "starttls"}
      /\ k = <<n, "verify">> => /\ promise[n] # "pending" /\ GoesOn(n)
                                /\ verdict[n] = Undecided
  BY ConnectMaySend, VerifyMaySend, Own, TaskFacts
     DEF ConnectSends, VerifySends, Connecting
<1>7. /\ \A m \in Sessions : \/ Connecting(m)' = Connecting(m)
                             \/ k = <<n, "connect">> /\ m = n
      /\ \A m \in Sessions : \/ Verifying(m)' = Verifying(m)
                             \/ k = <<n, "verify">> /\ m = n
      /\ k = <<n, "connect">> => Connecting(n)' = task'[k] /\ Connecting(n) = task[k]
      /\ k = <<n, "verify">> => Verifying(n)' = task'[k] /\ Verifying(n) = task[k]
  <2>1. \A m \in Sessions :
          /\ <<m, "connect">> \in Tasks /\ <<m, "verify">> \in Tasks
          /\ <<m, "connect">> = k => k = <<n, "connect">> /\ m = n
          /\ <<m, "verify">> = k => k = <<n, "verify">> /\ m = n
    <3>1. CASE k = <<n, "connect">>
      BY <3>1, TaskFacts
    <3>2. CASE k = <<n, "verify">>
      BY <3>2, TaskFacts
    <3>3. QED
      BY <3>1, <3>2
  <2>2. \A l \in Tasks : l # k => task'[l] = task[l]
    BY <1>3
  <2>3. ASSUME NEW m \in Sessions, ~(k = <<n, "connect">> /\ m = n)
        PROVE  task'[<<m, "connect">>] = task[<<m, "connect">>]
    <3>1. <<m, "connect">> \in Tasks
      BY <2>1
    <3>2. <<m, "connect">> # k
      BY <2>1, <2>3
    <3>3. QED
      BY <2>2, <3>1, <3>2
  <2>4. ASSUME NEW m \in Sessions, ~(k = <<n, "verify">> /\ m = n)
        PROVE  task'[<<m, "verify">>] = task[<<m, "verify">>]
    <3>1. <<m, "verify">> \in Tasks
      BY <2>1
    <3>2. <<m, "verify">> # k
      BY <2>1, <2>4
    <3>3. QED
      BY <2>2, <3>1, <3>2
  <2>5. QED
    BY <2>3, <2>4 DEF Connecting, Verifying
<1>8. k = <<n, "connect">> \/ k = <<n, "verify">>
  OBVIOUS
<1>11. Types'
  BY <1>1, <1>3, <1>4 DEF InStep, Types
<1>12. InOrder'
  BY <1>1, <1>3, <1>6, <1>7, <1>8 DEF InStep, InOrder, InOrderOf, ConnectSends, Waits
<1>13. ConnectPlace'
  <2> SUFFICES ASSUME NEW m \in Sessions PROVE ConnectPlaceOf(m)'
    BY DEF ConnectPlace
  <2>1. ConnectPlaceOf(m)
    BY DEF InStep, ConnectPlace
  <2>2. CASE Connecting(m)' = Connecting(m)
    BY <1>1, <2>1, <2>2 DEF ConnectPlaceOf
  <2>3. CASE k = <<n, "connect">> /\ m = n
    BY <1>1, <1>3, <1>6, <1>7, <2>3 DEF ConnectPlaceOf, Event, NoCmd
  <2>4. QED
    BY <1>7, <2>2, <2>3
<1>14. VerifyPlace'
  <2> SUFFICES ASSUME NEW m \in Sessions PROVE VerifyPlaceOf(m)'
    BY DEF VerifyPlace
  <2>1. VerifyPlaceOf(m)
    BY DEF InStep, VerifyPlace
  <2>2. CASE Verifying(m)' = Verifying(m)
    BY <1>1, <2>1, <2>2 DEF VerifyPlaceOf, GoesOn
  <2>3. CASE k = <<n, "verify">> /\ m = n
    BY <1>1, <1>2, <1>3, <1>6, <1>7, <2>3 DEF VerifyPlaceOf, GoesOn
  <2>4. QED
    BY <1>7, <2>2, <2>3
<1>15. HeardIsOwn'
  <2> SUFFICES ASSUME NEW l \in Tasks, task'[l].at \in Waits PROVE HeardIsOwnOf(l)'
    BY DEF HeardIsOwn
  <2>1. CASE l # k
    <3>1. HeardIsOwnOf(l) /\ task'[l] = task[l]
      BY <1>3, <2>1 DEF InStep, HeardIsOwn
    <3>2. QED
      BY <1>1, <3>1 DEF HeardIsOwnOf, Cmd, Alive
  <2>2. CASE l = k
    <3>1. task'[k].heard \in {Nothing, Event("gone")}
      BY <1>3
    <3>2. task'[k].heard.cmd = NoCmd
      BY <3>1 DEF Nothing, Event
    <3>3. Nothing # Event("gone") /\ Event("gone") \notin {Event("closed"), Event("timeout")}
      BY DEF Nothing, Event
    <3>4. task'[k].at # "banner" /\ task'[k].on = sock /\ (Alive(sock)' <=> Alive(sock))
      BY <1>1, <1>3 DEF Alive
    <3>5. CASE Alive(sock)
      BY <1>3, <2>2, <3>2, <3>4, <3>5 DEF HeardIsOwnOf
    <3>6. CASE ~Alive(sock)
      <4>1. /\ task'[k].go /\ task'[k].heard = Event("gone") /\ task'[k].on = sock
            /\ ~(sock \in Conns /\ link'[sock] \in {"opening", "open"})
        BY <1>1, <1>3, <3>6 DEF Alive
      <4>2. QED
        BY <2>2, <3>2, <3>3, <3>4, <4>1 DEF HeardIsOwnOf, Alive
    <3>7. QED
      BY <3>5, <3>6
  <2>3. QED
    BY <2>1, <2>2
<1>16. OneReply'
  <2> SUFFICES ASSUME NEW l \in Tasks, task'[l].at \in Waits PROVE OneReplyOf(l)'
    BY DEF OneReply
  <2>1. CASE l = k
    <3>1. task'[k].on = sock /\ wire'[sock] = <<>>
      BY <1>1, <1>3 DEF MaySend
    <3>2. CASE Alive(sock)
      BY <1>3, <2>1, <3>1, <3>2 DEF OneReplyOf
    <3>3. CASE ~Alive(sock)
      BY <1>3, <1>4, <1>5, <2>1, <3>1, <3>3 DEF OneReplyOf
    <3>4. QED
      BY <3>2, <3>3
  <2>2. CASE l # k
    <3>1. OneReplyOf(l) /\ task'[l] = task[l]
      BY <1>3, <2>2 DEF InStep, OneReply
    <3>2. CASE task[l].on # sock \/ ~Alive(sock)
      <4>1. asked'[task[l].on] = asked[task[l].on]
        <5>1. task[l].on \in Conns
          BY <3>1, WaitsOnConn
        <5>2. QED
          BY <1>4, <3>2, <5>1
      <4>2. QED
        BY <1>1, <3>1, <4>1 DEF OneReplyOf, Cmd
    <3>3. CASE task[l].on = sock /\ Alive(sock)
      <4>1. sock \in mute
        BY <1>1, <2>2, <3>1, <3>3 DEF MaySend
      <4>2. QED
        BY <1>1, <3>1, <3>3, <4>1 DEF OneReplyOf, Cmd
    <3>4. QED
      BY <3>2, <3>3
  <2>3. QED
    BY <2>1, <2>2
<1>17. OneCommand'
  <2> SUFFICES ASSUME NEW c \in Conns, c \notin mute PROVE OneCommandOf(c)'
    BY <1>1 DEF OneCommand
  <2>1. CASE c # sock \/ ~Alive(sock)
    <3>1. asked'[c] = asked[c] /\ OneCommandOf(c)
      BY <1>4, <2>1 DEF InStep, OneCommand
    <3>2. ~Waiting(k, c) /\ ~Waiting(k, c)'
      BY <1>1, <1>3, <2>1 DEF Waiting
    <3>3. \A l \in Tasks : /\ Waiting(l, c)' <=> Waiting(l, c)
                           /\ Waiting(l, c) => Cmd(l)' = Cmd(l)
      BY <1>3, <3>2 DEF Waiting, Cmd
    <3>4. QED
      BY <1>1, <3>1, <3>3 DEF OneCommandOf
  <2>2. CASE c = sock /\ Alive(sock)
    <3>1. \A l \in Tasks : Waiting(l, c)' => l = k
      BY <1>1, <1>3, <2>2 DEF MaySend, Waiting
    <3>2. Waiting(k, c)' /\ Cmd(k)' = cmd
      BY <1>1, <1>3, <2>2 DEF Waiting, Cmd
    <3>3. \/ asked'[c] = <<cmd>>
          \/ /\ c = Plain(n) /\ link[Tls(n)] # "none"
             /\ \E q \in Cmds : q[3] = "quit" /\ asked'[c] = <<q, cmd>>
      <4>1. asked'[c] = Append(asked[c], cmd) /\ sock \notin mute
        BY <1>4, <2>2
      <4>2. CASE asked[c] = <<>>
        BY <4>1, <4>2
      <4>3. CASE /\ sock = Plain(n) /\ link[Tls(n)] # "none"
                 /\ Quits(asked[sock])
        <5>1. PICK q \in Cmds : q[3] = "quit" /\ asked[c] = <<q>>
          BY <2>2, <4>3 DEF Quits
        <5>2. asked'[c] = <<q, cmd>>
          <6>1. Append(<<q>>, cmd) = <<q, cmd>>
            BY <1>2, AppendToOne
          <6>2. QED
            BY <4>1, <5>1, <6>1
        <5>3. QED
          BY <2>2, <4>3, <5>1, <5>2
      <4>4. QED
        BY <1>1, <2>2, <4>1, <4>2, <4>3 DEF MaySend
    <3>4. QED
      BY <1>1, <3>1, <3>2, <3>3 DEF OneCommandOf
  <2>3. QED
    BY <2>1, <2>2
<1>18. ReadyToVerify'
  <2> SUFFICES ASSUME NEW m \in Sessions, promise[m] # "pending",
                      Verifying(m)'.at = "off", verdict[m] = Undecided
               PROVE  ReadyToVerifyOf(m)'
    BY <1>1 DEF ReadyToVerify, ReadyToVerifyOf
  <2>1. m # n
    <3>1. k = <<n, "connect">> => promise[n] = "pending"
      BY <1>6
    <3>2. k = <<n, "verify">> => Verifying(n)'.at # "off"
      BY <1>1, <1>3, <1>7 DEF Waits
    <3>3. QED
      BY <1>8, <3>1, <3>2
  <2>2. sock \in Ours(m) /\ sock \in Ours(n)
    BY <1>2, Own
  <2>3. QED
    BY <2>1, <2>2, Own
<1>19. NotOpen'
  <2> SUFFICES ASSUME NEW m \in Sessions PROVE NotOpenOf(m)'
    BY DEF NotOpen
  <2>1. NotOpenOf(m) /\ Plain(m) \in Conns /\ Tls(m) \in Conns
    BY ConnFacts DEF InStep, NotOpen
  <2>2. Connecting(m)' = Connecting(m) \/ link[Plain(m)] # "opening"
    BY <1>1, <1>6, <1>7, <2>1 DEF NotOpenOf, ConnectSends
  <2>3. CASE m # n
    <3>1. Plain(m) # sock /\ Tls(m) # sock
      BY <1>2, <2>3, ConnFacts DEF Ours
    <3>2. QED
      BY <1>1, <1>4, <2>1, <2>2, <3>1 DEF NotOpenOf
  <2>4. CASE m = n /\ sock = Tls(n)
    <3>1. link[Tls(n)] \in {"open", "closed"} /\ Plain(n) # sock
      BY <2>4, ConnFacts DEF InStep, InOrder, InOrderOf
    <3>2. link[Tls(n)] = "closed" => ~Alive(sock)
      BY <2>4 DEF Alive
    <3>3. QED
      BY <1>1, <1>4, <2>1, <2>2, <2>4, <3>1, <3>2 DEF NotOpenOf
  <2>5. CASE m = n /\ sock = Plain(n)
    <3>1. Tls(n) # sock
      BY <2>5, ConnFacts
    <3>2. link[Plain(n)] \in {"none", "closed"} => ~Alive(sock)
      BY <2>5 DEF Alive
    <3>3. link[Plain(n)] = "opening" => Plain(n) \in mute
      BY <1>1, <1>6, <1>7, <1>8, <2>1, <2>5 DEF NotOpenOf, ConnectSends
    <3>4. QED
      BY <1>1, <1>4, <2>1, <2>2, <2>5, <3>1, <3>2, <3>3 DEF NotOpenOf
  <2>6. QED
    BY <1>2, <2>3, <2>4, <2>5 DEF Ours
<1>20. Securing'
  <2> SUFFICES ASSUME NEW m \in Sessions PROVE SecuringOf(m)'
    BY DEF Securing
  <2>1. SecuringOf(m) /\ Plain(m) \in Conns
    BY ConnFacts DEF InStep, Securing
  <2>2. CASE Plain(m) # sock
    BY <1>1, <1>4, <2>1, <2>2 DEF SecuringOf
  <2>3. CASE Plain(m) = sock
    <3>1. m = n /\ sock # Tls(n)
      BY <1>2, <2>3, ConnFacts DEF Ours
    <3>2. link[Tls(n)] # "none" => promise[n] # "pending"
      BY <1>6, <1>8
    <3>3. QED
      BY <1>1, <2>1, <3>1, <3>2 DEF SecuringOf
  <2>4. QED
    BY <2>2, <2>3
<1>21. OneConnectionAtATime'
  <2> SUFFICES ASSUME NEW c \in Conns, NEW i \in 1..Len(asked'[c])
               PROVE  asked'[c][i][1] = c[1]
    BY DEF OneConnectionAtATime
  <2>1. CASE asked'[c] = asked[c]
    BY <2>1 DEF InStep, OneConnectionAtATime
  <2>2. CASE c = sock /\ asked'[c] = Append(asked[c], cmd)
    <3>1. c[1] = n
      BY <1>2, <2>2, ConnFacts DEF Ours
    <3>2. asked'[c][i] = cmd \/ (i \in 1..Len(asked[c]) /\ asked'[c][i] = asked[c][i])
      BY <1>2, <1>4, <2>2
    <3>3. QED
      BY <1>2, <3>1, <3>2 DEF InStep, OneConnectionAtATime
  <2>3. QED
    BY <1>4, <2>1, <2>2
<1>22. VerdictIsAboutTheEmail'
  BY <1>1 DEF InStep, VerdictIsAboutTheEmail
<1>23. QED
  BY <1>11, <1>12, <1>13, <1>14, <1>15, <1>16, <1>17, <1>18, <1>19, <1>20, <1>21,
     <1>22 DEF InStep

-----------------------------------------------------------------------------
(* The steps that write nothing more *)

\* A step of one coroutine leaves the others alone.
LEMMA OneTask ==
  ASSUME InStep, NEW n \in Sessions, NEW method \in Methods, NEW r,
         SetTask(<<n, method>>, r)
  PROVE  /\ \A l \in Tasks : l # <<n, method>> => task'[l] = task[l]
         /\ task'[<<n, method>>] = r
         /\ \A m \in Sessions :
              m # n => Connecting(m)' = Connecting(m) /\ Verifying(m)' = Verifying(m)
         /\ method = "connect" => Verifying(n)' = Verifying(n) /\ Connecting(n)' = r
         /\ method = "verify" => Connecting(n)' = Connecting(n) /\ Verifying(n)' = r
         /\ r \in Coroutine => task' \in [Tasks -> Coroutine]
<1> DEFINE k == <<n, method>>
<1>1. k \in Tasks
  BY DEF Tasks
<1>2. /\ task' = [task EXCEPT ![k] = r] /\ task \in [Tasks -> Coroutine]
  BY DEF SetTask, InStep, Types
<1>3. /\ \A l \in Tasks : l # k => task'[l] = task[l]
      /\ task'[k] = r
      /\ r \in Coroutine => task' \in [Tasks -> Coroutine]
  BY <1>1, <1>2
<1>4. ASSUME NEW m \in Sessions, NEW other \in Methods, m # n \/ other # method
      PROVE  task'[<<m, other>>] = task[<<m, other>>]
  <2>1. <<m, other>> # k /\ <<m, other>> \in Tasks
    BY <1>4 DEF Tasks
  <2>2. QED
    BY <1>3, <2>1
<1>5. QED
  BY <1>3, <1>4 DEF Connecting, Verifying, Methods

\* A coroutine that is over.
LEMMA OverRecord ==
  ASSUME NEW t \in Coroutine
  PROVE  LET r == [t EXCEPT !.at = "over", !.go = FALSE] IN
         /\ r \in Coroutine /\ r.at = "over" /\ r.go = FALSE
         /\ r.on = t.on /\ r.heard = t.heard
BY DEF Coroutine, Places

\* A promise is settled once.
LEMMA Settles ==
  ASSUME InStep, NEW n \in Sessions, NEW what \in Reasons \union {"ready"},
         Settle(n, what)
  PROVE  /\ promise' \in [Sessions -> Reasons \union {"pending", "ready"}]
         /\ promise'[n] # "pending"
         /\ \A m \in Sessions : m # n \/ promise[m] # "pending" => promise'[m] = promise[m]
         /\ promise[n] = "pending" => promise'[n] = what
BY DEF InStep, Types, Settle, Reasons

\* A coroutine waits on a connection that was made.
LEMMA WaitsOnLink ==
  ASSUME InStep, NEW k \in Tasks, task[k].at \in Waits
  PROVE  link[task[k].on] # "none"
<1>1. PICK n \in Sessions : k = <<n, "connect">> \/ k = <<n, "verify">>
  BY TaskFacts
<1>2. CASE k = <<n, "connect">>
  BY <1>2, Own DEF InStep, InOrder, InOrderOf, Connecting, Waits
<1>3. CASE k = <<n, "verify">>
  BY <1>3, Own DEF InStep, InOrder, InOrderOf, Verifying, Ours
<1>4. QED
  BY <1>1, <1>2, <1>3

SettleStep(n, what) ==
  LET k == <<n, "connect">> IN
  /\ task[k].at \in Waits /\ task[k].go
  /\ what \in Reasons \union {"ready"}
  /\ Settle(n, what) /\ Over(k)
  /\ UNCHANGED <<server, sock, slow, asked, verdict, network>>

\* The end of connect keeps the invariant.
LEMMA SettleKeeps ==
  ASSUME InStep, NEW n \in Sessions, NEW what, SettleStep(n, what)
  PROVE  InStep'
<1> DEFINE k == <<n, "connect">>
<1>1. /\ UNCHANGED <<server, sock, slow, asked, verdict, link, wire, mute, armed>>
      /\ k \in Tasks /\ Connecting(n).at \in Waits /\ Connecting(n).go
      /\ SetTask(k, [task[k] EXCEPT !.at = "over", !.go = FALSE])
  BY TaskFacts DEF SettleStep, network, Over, Connecting
<1>2. /\ promise' \in [Sessions -> Reasons \union {"pending", "ready"}]
      /\ promise'[n] # "pending"
      /\ \A m \in Sessions : m # n \/ promise[m] # "pending" => promise'[m] = promise[m]
  BY Settles DEF SettleStep
<1>3. /\ task' \in [Tasks -> Coroutine]
      /\ \A l \in Tasks : l # k => task'[l] = task[l]
      /\ task'[k].at = "over" /\ task'[k].go = FALSE /\ task[k].go
      /\ \A m \in Sessions : Verifying(m)' = Verifying(m)
      /\ \A m \in Sessions : m # n => Connecting(m)' = Connecting(m)
      /\ Connecting(n)'.at = "over" /\ Connecting(n)'.go = FALSE
  <2> DEFINE r == [task[k] EXCEPT !.at = "over", !.go = FALSE]
  <2>1. r \in Coroutine /\ r.at = "over" /\ r.go = FALSE
    BY <1>1, OverRecord DEF InStep, Types
  <2>2. /\ "connect" \in Methods /\ SetTask(<<n, "connect">>, r) /\ task[k].go
    BY <1>1 DEF Methods, Connecting
  <2> HIDE DEF r
  <2>3. /\ \A l \in Tasks : l # k => task'[l] = task[l]
        /\ task'[k] = r /\ (r \in Coroutine => task' \in [Tasks -> Coroutine])
        /\ \A m \in Sessions : m # n => Connecting(m)' = Connecting(m)
        /\ \A m \in Sessions : m # n => Verifying(m)' = Verifying(m)
        /\ Verifying(n)' = Verifying(n) /\ Connecting(n)' = r
    BY <2>2, OneTask
  <2>4. QED
    BY <2>1, <2>2, <2>3
<1>4. /\ Connecting(n).on = Plain(n) /\ link[Tls(n)] = "none"
      /\ link[Plain(n)] # "none"
  BY <1>1, Own DEF InStep, InOrder, InOrderOf, Waits
<1>5. wire[Plain(n)] = <<>> /\ (asked[Plain(n)] = <<>> \/ Plain(n) \in mute)
  BY <1>1, <1>4, GoesOnSilent DEF Connecting
<1>6. \A m \in Sessions : GoesOn(m) => GoesOn(m)'
  BY <1>1, <1>2 DEF GoesOn
<1>7. \A l \in Tasks, c \in Conns : Waiting(l, c)' <=> Waiting(l, c)
  <2> SUFFICES ASSUME NEW l \in Tasks, NEW c \in Conns
               PROVE Waiting(l, c)' <=> Waiting(l, c)
    OBVIOUS
  <2>1. CASE l = k
    BY <1>3, <2>1 DEF Waiting, Waits
  <2>2. CASE l # k
    BY <1>3, <2>2 DEF Waiting
  <2>3. QED
    BY <2>1, <2>2
<1>8. \A l \in Tasks : task'[l].at \in Waits => task'[l] = task[l]
  <2>1. task'[k].at \notin Waits
    BY <1>3 DEF Waits
  <2>2. QED
    BY <1>3, <2>1
<1>11. Types'
  BY <1>1, <1>2, <1>3 DEF InStep, Types
<1>12. InOrder'
  BY <1>1, <1>2, <1>3, <1>4 DEF InStep, InOrder, InOrderOf
<1>13. ConnectPlace'
  <2> SUFFICES ASSUME NEW m \in Sessions PROVE ConnectPlaceOf(m)'
    BY DEF ConnectPlace
  <2>1. CASE m = n
    BY <1>3, <2>1 DEF ConnectPlaceOf, Waits
  <2>2. CASE m # n
    BY <1>1, <1>2, <1>3, <2>2 DEF InStep, ConnectPlace, ConnectPlaceOf
  <2>3. QED
    BY <2>1, <2>2
<1>14. VerifyPlace'
  BY <1>1, <1>2, <1>3, <1>6 DEF InStep, VerifyPlace, VerifyPlaceOf
<1>15. HeardIsOwn'
  <2> SUFFICES ASSUME NEW l \in Tasks, task'[l].at \in Waits PROVE HeardIsOwnOf(l)'
    BY DEF HeardIsOwn
  <2>1. task'[l] = task[l] /\ HeardIsOwnOf(l)
    BY <1>8 DEF InStep, HeardIsOwn
  <2>2. QED
    BY <1>1, <2>1 DEF HeardIsOwnOf, Cmd, Alive
<1>16. OneReply'
  <2> SUFFICES ASSUME NEW l \in Tasks, task'[l].at \in Waits PROVE OneReplyOf(l)'
    BY DEF OneReply
  <2>1. task'[l] = task[l] /\ OneReplyOf(l)
    BY <1>8 DEF InStep, OneReply
  <2>2. QED
    BY <1>1, <2>1 DEF OneReplyOf, Cmd
<1>17. OneCommand'
  <2> SUFFICES ASSUME NEW c \in Conns, c \notin mute PROVE OneCommandOf(c)'
    BY <1>1 DEF OneCommand
  <2>1. OneCommandOf(c)
    BY DEF InStep, OneCommand
  <2>2. \A l \in Tasks : Waiting(l, c)' => Cmd(l)' = Cmd(l)
    BY <1>8 DEF Waiting, Cmd
  <2>3. QED
    BY <1>1, <1>7, <2>1, <2>2 DEF OneCommandOf
<1>18. ReadyToVerify'
  <2> SUFFICES ASSUME NEW m \in Sessions PROVE ReadyToVerifyOf(m)'
    BY DEF ReadyToVerify
  <2>1. CASE m # n \/ promise[m] # "pending"
    BY <1>1, <1>2, <1>3, <2>1 DEF InStep, ReadyToVerify, ReadyToVerifyOf
  <2>2. CASE m = n /\ verdict[n] = Undecided
    <3>1. sock = Plain(n)
      BY <1>4, <2>2 DEF InStep, InOrder, InOrderOf, Ours
    <3>2. QED
      BY <1>1, <1>5, <2>2, <3>1 DEF ReadyToVerifyOf
  <2>3. CASE m = n /\ verdict[n] # Undecided
    BY <1>1, <2>3 DEF ReadyToVerifyOf
  <2>4. QED
    BY <2>1, <2>2, <2>3
<1>19. NotOpen'
  <2> SUFFICES ASSUME NEW m \in Sessions PROVE NotOpenOf(m)'
    BY DEF NotOpen
  <2>1. NotOpenOf(m)
    BY DEF InStep, NotOpen
  <2>2. CASE m = n
    BY <1>1, <2>1, <2>2 DEF NotOpenOf
  <2>3. CASE m # n
    BY <1>1, <1>2, <1>3, <2>1, <2>3 DEF NotOpenOf
  <2>4. QED
    BY <2>2, <2>3
<1>20. Securing'
  <2> SUFFICES ASSUME NEW m \in Sessions PROVE SecuringOf(m)'
    BY DEF Securing
  <2>1. SecuringOf(m)
    BY DEF InStep, Securing
  <2>2. CASE m = n
    BY <1>1, <1>4, <2>1, <2>2 DEF SecuringOf
  <2>3. CASE m # n
    BY <1>1, <1>2, <2>1, <2>3 DEF SecuringOf
  <2>4. QED
    BY <2>2, <2>3
<1>21. OneConnectionAtATime' /\ VerdictIsAboutTheEmail'
  BY <1>1 DEF InStep, OneConnectionAtATime, VerdictIsAboutTheEmail
<1>22. QED
  BY <1>11, <1>12, <1>13, <1>14, <1>15, <1>16, <1>17, <1>18, <1>19, <1>20, <1>21
     DEF InStep

\* So does a rejected command.
LEMMA RefusedKeeps ==
  ASSUME InStep, NEW n \in Sessions, Refused(n)
  PROVE  InStep'
<1>1. /\ UNCHANGED <<server, sock, slow, asked, task, promise, link, wire, mute, armed>>
      /\ promise[n] # "pending" /\ ~GoesOn(n)
      /\ verdict' = [verdict EXCEPT ![n] = [what |-> promise[n], from |-> NoCmd]]
  BY DEF Refused, network
<1>2. promise[n] \in Reasons
  BY <1>1 DEF InStep, Types, GoesOn
<1>3. /\ verdict' \in [Sessions -> [what : Reasons \union {"none"},
                                     from : Cmds \union {NoCmd}]]
      /\ \A m \in Sessions : m # n => verdict'[m] = verdict[m]
      /\ verdict'[n].what = promise[n] /\ verdict'[n].from = NoCmd
  BY <1>1, <1>2 DEF InStep, Types
<1>4. verdict'[n] # Undecided
  BY <1>2, <1>3 DEF Undecided, Reasons
<1>5. /\ \A m \in Sessions : verdict[m] # Undecided => verdict'[m] # Undecided
      /\ \A m \in Sessions : GoesOn(m)' <=> GoesOn(m)
      /\ \A m \in Sessions : Verifying(m)' = Verifying(m) /\ Connecting(m)' = Connecting(m)
  BY <1>1, <1>3, <1>4 DEF GoesOn, Verifying, Connecting
<1>6. Types'
  BY <1>1, <1>3 DEF InStep, Types
<1>7. InOrder'
  BY <1>1, <1>5 DEF InStep, InOrder, InOrderOf
<1>8. VerifyPlace'
  BY <1>1, <1>3, <1>5 DEF InStep, VerifyPlace, VerifyPlaceOf
<1>9. ReadyToVerify'
  BY <1>1, <1>3, <1>4, <1>5 DEF InStep, ReadyToVerify, ReadyToVerifyOf
<1>10. VerdictIsAboutTheEmail'
  BY <1>3 DEF InStep, VerdictIsAboutTheEmail
<1>11. ConnectPlace'
  BY <1>1, <1>5 DEF InStep, ConnectPlace, ConnectPlaceOf
<1>12. HeardIsOwn'
  BY <1>1 DEF InStep, HeardIsOwn, HeardIsOwnOf, Cmd, Alive
<1>13. OneReply'
  BY <1>1 DEF InStep, OneReply, OneReplyOf, Cmd
<1>14. OneCommand'
  BY <1>1 DEF InStep, OneCommand, OneCommandOf, Waiting, Cmd
<1>15. NotOpen'
  BY <1>1, <1>5 DEF InStep, NotOpen, NotOpenOf
<1>16. Securing' /\ OneConnectionAtATime'
  BY <1>1 DEF InStep, Securing, SecuringOf, OneConnectionAtATime
<1>17. QED
  BY <1>6, <1>7, <1>8, <1>9, <1>10, <1>11, <1>12, <1>13, <1>14, <1>15, <1>16 DEF InStep

\* The handshake begins.
OpenTls(n) ==
  LET k == <<n, "connect">> IN
  /\ task[k].at = "starttls" /\ task[k].go
  /\ task[k].heard.reply \notin Rejections
  /\ link' = [link EXCEPT ![Tls(n)] = "opening"]
  /\ armed' = armed \union {Tls(n)}
  /\ SetTask(k, [task[k] EXCEPT !.at = "tls", !.go = FALSE])
  /\ UNCHANGED <<promise, wire, mute, server, sock, slow, asked, verdict>>

\* A coroutine that waits for TLS.
LEMMA TlsRecord ==
  ASSUME NEW t \in Coroutine
  PROVE  LET r == [t EXCEPT !.at = "tls", !.go = FALSE] IN
         r \in Coroutine /\ r.at = "tls" /\ r.go = FALSE
BY DEF Coroutine, Places

\* What wakes a coroutine without being an answer.
LEMMA EventKinds ==
  ASSUME NEW e \in Parts \union EventRecords
  PROVE  /\ e.cmd # NoCmd => e \in Parts
         /\ e.cmd = NoCmd => e = Event(e.reply)
         /\ e.cmd = NoCmd /\ e.reply \notin Rejections =>
              e \in {Nothing, Event("timeout"), Event("closed")}
<1>1. CASE e \in Parts
  BY <1>1, CmdFacts DEF Parts
<1>2. CASE e \in EventRecords
  BY <1>2 DEF EventRecords, Event, Nothing
<1>3. QED
  BY <1>1, <1>2

\* The handshake replaces a silent plain socket.
LEMMA OpenTlsKeeps ==
  ASSUME InStep, NEW n \in Sessions, OpenTls(n)
  PROVE  InStep'
<1> DEFINE k == <<n, "connect">>
<1>1. /\ UNCHANGED <<promise, wire, mute, server, sock, slow, asked, verdict>>
      /\ link' = [link EXCEPT ![Tls(n)] = "opening"] /\ armed' = armed \union {Tls(n)}
      /\ k \in Tasks /\ Connecting(n).at = "starttls" /\ Connecting(n).go
      /\ Connecting(n).at \in Waits
      /\ SetTask(k, [task[k] EXCEPT !.at = "tls", !.go = FALSE])
  BY TaskFacts DEF OpenTls, Connecting, Waits
<1>2. /\ task' \in [Tasks -> Coroutine]
      /\ \A l \in Tasks : l # k => task'[l] = task[l]
      /\ task'[k].at = "tls" /\ task'[k].go = FALSE /\ task[k].go
      /\ \A m \in Sessions : Verifying(m)' = Verifying(m)
      /\ \A m \in Sessions : m # n => Connecting(m)' = Connecting(m)
      /\ Connecting(n)'.at = "tls" /\ Connecting(n)'.go = FALSE
  <2> DEFINE r == [task[k] EXCEPT !.at = "tls", !.go = FALSE]
  <2>1. r \in Coroutine /\ r.at = "tls" /\ r.go = FALSE
    BY <1>1, TlsRecord DEF InStep, Types
  <2>2. /\ "connect" \in Methods /\ SetTask(<<n, "connect">>, r) /\ task[k].go
    BY <1>1 DEF Methods, Connecting
  <2> HIDE DEF r
  <2>3. /\ \A l \in Tasks : l # k => task'[l] = task[l]
        /\ task'[k] = r /\ (r \in Coroutine => task' \in [Tasks -> Coroutine])
        /\ \A m \in Sessions : m # n => Connecting(m)' = Connecting(m)
        /\ \A m \in Sessions : m # n => Verifying(m)' = Verifying(m)
        /\ Verifying(n)' = Verifying(n) /\ Connecting(n)' = r
    BY <2>2, OneTask
  <2>4. QED
    BY <2>1, <2>2, <2>3
<1>3. /\ Connecting(n).on = Plain(n) /\ link[Tls(n)] = "none" /\ sock = Plain(n)
      /\ link[Plain(n)] # "none"
  BY <1>1, Own DEF InStep, InOrder, InOrderOf, ConnectPlace, ConnectPlaceOf, Waits
<1>4. wire[Plain(n)] = <<>> /\ (asked[Plain(n)] = <<>> \/ Plain(n) \in mute)
  BY <1>1, <1>3, GoesOnSilent DEF Connecting
<1>5. promise[n] = "pending" \/ Plain(n) \in mute
  <2>1. CASE Connecting(n).heard.cmd # NoCmd
    BY <1>1, <2>1 DEF InStep, ConnectPlace, ConnectPlaceOf
  <2>2. CASE Connecting(n).heard.cmd = NoCmd
    <3>1. Connecting(n) \in Coroutine
      BY <1>1 DEF InStep, Types, Connecting
    <3>2. HeardIsOwnOf(k)
      BY <1>1 DEF InStep, HeardIsOwn, Connecting
    <3>3. /\ Connecting(n).heard # Nothing /\ Connecting(n).heard # Event("closed")
          /\ Connecting(n).heard = Event("timeout") => Plain(n) \in mute
      BY <1>1, <1>3, <2>2, <3>2 DEF HeardIsOwnOf, Connecting
    <3>4. Connecting(n).heard \in Parts \union EventRecords
      BY <3>1 DEF Coroutine
    <3>5. Connecting(n).heard \in {Nothing, Event("timeout"), Event("closed")}
      BY <2>2, <3>4, EventKinds DEF OpenTls, Connecting
    <3>6. QED
      BY <3>3, <3>5
  <2>3. QED
    BY <2>1, <2>2
<1>6. /\ link' \in [Conns -> Links] /\ link'[Tls(n)] = "opening"
      /\ \A c \in Conns : c # Tls(n) => link'[c] = link[c]
  BY <1>1, ConnFacts DEF InStep, Types, Links
<1>7. \A l \in Tasks : task'[l].at \in Waits =>
        /\ task'[l] = task[l] /\ l # k
        /\ task[l].on \in Conns /\ (Alive(task[l].on)' <=> Alive(task[l].on))
  <2>1. task'[k].at \notin Waits
    BY <1>2 DEF Waits
  <2>2. ASSUME NEW l \in Tasks, task'[l].at \in Waits
        PROVE  task[l] = task'[l] /\ l # k
    BY <1>2, <2>1, <2>2
  <2>3. ASSUME NEW l \in Tasks, task'[l].at \in Waits
        PROVE  task[l].on # Tls(n) /\ task[l].on \in Conns
    <3>1. task[l].at \in Waits
      BY <2>2, <2>3
    <3>2. QED
      BY <1>3, <3>1, WaitsOnLink, WaitsOnConn
  <2>4. ASSUME NEW c \in Conns, c # Tls(n) PROVE Alive(c)' <=> Alive(c)
    BY <1>6, <2>4 DEF Alive
  <2>5. QED
    BY <2>2, <2>3, <2>4
<1>8. \A l \in Tasks, c \in Conns : Waiting(l, c)' <=> Waiting(l, c)
  <2> SUFFICES ASSUME NEW l \in Tasks, NEW c \in Conns
               PROVE Waiting(l, c)' <=> Waiting(l, c)
    OBVIOUS
  <2>1. CASE l = k
    BY <1>2, <2>1 DEF Waiting, Waits
  <2>2. CASE l # k
    BY <1>2, <2>2 DEF Waiting
  <2>3. QED
    BY <2>1, <2>2
<1>9. /\ \A m \in Sessions : link'[Plain(m)] = link[Plain(m)]
      /\ \A m \in Sessions : m # n => link'[Tls(m)] = link[Tls(m)]
      /\ \A m \in Sessions : GoesOn(m)' <=> GoesOn(m)
      /\ \A m \in Sessions : m # n => (Tls(m) \in armed' <=> Tls(m) \in armed)
  BY <1>1, <1>6, ConnFacts DEF GoesOn
<1>11. Types'
  BY <1>1, <1>2, <1>6, ConnFacts DEF InStep, Types
<1>12. InOrder'
  <2> SUFFICES ASSUME NEW m \in Sessions PROVE InOrderOf(m)'
    BY DEF InOrder
  <2>1. InOrderOf(m)
    BY DEF InStep, InOrder
  <2>2. CASE m # n
    BY <1>1, <1>2, <1>9, <2>1, <2>2 DEF InOrderOf
  <2>3. CASE m = n
    BY <1>1, <1>2, <1>3, <1>9, <2>1, <2>3, ConnFacts DEF InOrderOf, Ours
  <2>4. QED
    BY <2>2, <2>3
<1>13. ConnectPlace'
  <2> SUFFICES ASSUME NEW m \in Sessions PROVE ConnectPlaceOf(m)'
    BY DEF ConnectPlace
  <2>1. CASE m = n
    BY <1>1, <1>2, <1>3, <1>6, <2>1 DEF ConnectPlaceOf, Waits
  <2>2. CASE m # n
    BY <1>1, <1>2, <1>9, <2>2 DEF InStep, ConnectPlace, ConnectPlaceOf
  <2>3. QED
    BY <2>1, <2>2
<1>14. VerifyPlace'
  BY <1>1, <1>2, <1>9 DEF InStep, VerifyPlace, VerifyPlaceOf
<1>15. HeardIsOwn'
  <2> SUFFICES ASSUME NEW l \in Tasks, task'[l].at \in Waits PROVE HeardIsOwnOf(l)'
    BY DEF HeardIsOwn
  <2>1. task'[l] = task[l] /\ HeardIsOwnOf(l) /\ (Alive(task[l].on)' <=> Alive(task[l].on))
    BY <1>7 DEF InStep, HeardIsOwn
  <2>2. QED
    BY <1>1, <2>1 DEF HeardIsOwnOf, Cmd, Alive
<1>16. OneReply'
  <2> SUFFICES ASSUME NEW l \in Tasks, task'[l].at \in Waits PROVE OneReplyOf(l)'
    BY DEF OneReply
  <2>1. task'[l] = task[l] /\ OneReplyOf(l) /\ l # k
    BY <1>7 DEF InStep, OneReply
  <2>2. ASSUME task[l].on = Plain(n), ~task[l].go, task[l].heard # Nothing PROVE FALSE
    <3>1. l[1] = n /\ l = <<n, "verify">>
      <4>1. Plain(n) \in Ours(l[1]) /\ l[1] \in Sessions
        BY <2>1, <2>2, WaitsOnConn, TaskFacts
      <4>2. l[1] = n
        BY <4>1, ConnFacts DEF Ours
      <4>3. QED
        BY <2>1, <4>2, TaskFacts
    <3>2. promise[n] # "pending"
      BY <2>1, <3>1, Own DEF Verifying
    <3>3. QED
      BY <1>5, <2>1, <2>2, <3>2 DEF OneReplyOf
  <2>3. QED
    BY <1>1, <1>9, <2>1, <2>2 DEF OneReplyOf, Cmd
<1>17. OneCommand'
  <2> SUFFICES ASSUME NEW c \in Conns, c \notin mute PROVE OneCommandOf(c)'
    BY <1>1 DEF OneCommand
  <2>1. OneCommandOf(c)
    BY DEF InStep, OneCommand
  <2>2. \A l \in Tasks : Waiting(l, c)' => Cmd(l)' = Cmd(l)
    BY <1>7 DEF Waiting, Cmd
  <2>3. \A m \in Sessions : link[Tls(m)] # "none" => link'[Tls(m)] # "none"
    BY <1>3, <1>9
  <2>4. QED
    BY <1>1, <1>8, <2>1, <2>2, <2>3 DEF OneCommandOf
<1>18. ReadyToVerify'
  BY <1>1, <1>2, <1>3, <1>9 DEF InStep, ReadyToVerify, ReadyToVerifyOf
<1>19. NotOpen'
  <2> SUFFICES ASSUME NEW m \in Sessions PROVE NotOpenOf(m)'
    BY DEF NotOpen
  <2>1. NotOpenOf(m)
    BY DEF InStep, NotOpen
  <2>2. CASE m = n
    BY <1>1, <1>3, <1>6, <1>9, <2>1, <2>2 DEF NotOpenOf
  <2>3. CASE m # n
    BY <1>1, <1>2, <1>9, <2>1, <2>3 DEF NotOpenOf
  <2>4. QED
    BY <2>2, <2>3
<1>20. Securing'
  <2> SUFFICES ASSUME NEW m \in Sessions PROVE SecuringOf(m)'
    BY DEF Securing
  <2>1. SecuringOf(m)
    BY DEF InStep, Securing
  <2>2. CASE m = n
    BY <1>1, <1>3, <1>4, <1>5, <1>6, <1>9, <2>1, <2>2 DEF SecuringOf
  <2>3. CASE m # n
    BY <1>1, <1>9, <2>1, <2>3 DEF SecuringOf
  <2>4. QED
    BY <2>2, <2>3
<1>21. OneConnectionAtATime' /\ VerdictIsAboutTheEmail'
  BY <1>1 DEF InStep, OneConnectionAtATime, VerdictIsAboutTheEmail
<1>22. QED
  BY <1>11, <1>12, <1>13, <1>14, <1>15, <1>16, <1>17, <1>18, <1>19, <1>20, <1>21
     DEF InStep

\* A verdict, and a QUIT.
DecideStep(n, what, from) ==
  LET k == <<n, "verify">> IN
  /\ task[k].at \in Waits /\ task[k].go
  /\ what \in Reasons
  /\ \/ from = NoCmd
     \/ /\ from \in Cmds /\ from[1] = n
        /\ IF what = "catch_all" THEN from[3] = "probe" ELSE from[3] = "rcpt"
  /\ Decide(n, what, from)
  /\ UNCHANGED <<server, sock, slow, promise, network>>

\* A verdict keeps the invariant.
LEMMA DecideKeeps ==
  ASSUME InStep, NEW n \in Sessions, NEW what, NEW from, DecideStep(n, what, from)
  PROVE  InStep'
<1> DEFINE k == <<n, "verify">>  q == <<n, "verify", "quit">>
           rec == [what |-> what, from |-> from]
<1>1. /\ UNCHANGED <<server, sock, slow, promise, link, wire, mute, armed>>
      /\ k \in Tasks /\ Verifying(n).at \in Waits /\ Verifying(n).go
      /\ SetTask(k, [task[k] EXCEPT !.at = "over", !.go = FALSE])
      /\ asked' = Write(q)
      /\ verdict' = [verdict EXCEPT ![n] = rec]
  BY TaskFacts DEF DecideStep, Decide, Over, network, Verifying
<1>2. /\ task' \in [Tasks -> Coroutine]
      /\ \A l \in Tasks : l # k => task'[l] = task[l]
      /\ task'[k].at = "over" /\ task'[k].go = FALSE /\ task[k].go
      /\ \A m \in Sessions : Connecting(m)' = Connecting(m)
      /\ \A m \in Sessions : m # n => Verifying(m)' = Verifying(m)
      /\ Verifying(n)'.at = "over" /\ Verifying(n)'.go = FALSE
  <2> DEFINE r == [task[k] EXCEPT !.at = "over", !.go = FALSE]
  <2>1. r \in Coroutine /\ r.at = "over" /\ r.go = FALSE
    BY <1>1, OverRecord DEF InStep, Types
  <2>2. /\ "verify" \in Methods /\ SetTask(<<n, "verify">>, r) /\ task[k].go
    BY <1>1 DEF Methods, Verifying
  <2> HIDE DEF r
  <2>3. /\ \A l \in Tasks : l # k => task'[l] = task[l]
        /\ task'[k] = r /\ (r \in Coroutine => task' \in [Tasks -> Coroutine])
        /\ \A m \in Sessions : m # n => Connecting(m)' = Connecting(m)
        /\ \A m \in Sessions : m # n => Verifying(m)' = Verifying(m)
        /\ Connecting(n)' = Connecting(n) /\ Verifying(n)' = r
    BY <2>2, OneTask
  <2>4. QED
    BY <2>1, <2>2, <2>3
<1>3. /\ Verifying(n).on = sock /\ sock \in Ours(n) /\ sock \in Conns /\ sock # <<>>
      /\ promise[n] # "pending" /\ verdict[n] = Undecided
  BY <1>1, Own, ConnFacts DEF Ours
<1>4. wire[sock] = <<>> /\ (asked[sock] = <<>> \/ sock \in mute)
  BY <1>1, <1>3, GoesOnSilent DEF Verifying
<1>5. q \in Cmds /\ q[1] = n /\ q[3] = "quit"
  BY DEF Cmds, Methods, Verbs
<1>6. /\ asked' \in [Conns -> Seq(Cmds)] /\ asked \in [Conns -> Seq(Cmds)]
      /\ \A c \in Conns : c # sock => asked'[c] = asked[c]
      /\ Alive(sock) => asked'[sock] = Append(asked[sock], q)
      /\ ~Alive(sock) => asked' = asked
  <2>1. asked \in [Conns -> Seq(Cmds)]
    BY DEF InStep, Types
  <2>2. QED
    BY <1>1, <1>3, <1>5, <2>1 DEF Write
<1>7. /\ verdict' \in [Sessions -> [what : Reasons \union {"none"},
                                     from : Cmds \union {NoCmd}]]
      /\ \A m \in Sessions : m # n => verdict'[m] = verdict[m]
      /\ verdict'[n] = rec /\ verdict'[n] # Undecided
      /\ \A m \in Sessions : verdict[m] # Undecided => verdict'[m] # Undecided
  <2>1. what \in Reasons /\ from \in Cmds \union {NoCmd}
    BY DEF DecideStep
  <2>2. rec # Undecided /\ rec \in [what : Reasons \union {"none"},
                                     from : Cmds \union {NoCmd}]
    BY <2>1 DEF Undecided, Reasons
  <2>3. QED
    BY <1>1, <2>2 DEF InStep, Types
<1>8. \A l \in Tasks : task'[l].at \in Waits => task'[l] = task[l] /\ l # k
  <2>1. task'[k].at \notin Waits
    BY <1>2 DEF Waits
  <2>2. QED
    BY <1>2, <2>1
<1>9. Alive(sock) /\ sock \notin mute =>
        \A l \in Tasks : l # k /\ task[l].at \in Waits => task[l].on # sock
  BY <1>1, VerifyMaySend DEF VerifyGoes, MaySend, Verifying
<1>11. Types'
  BY <1>1, <1>2, <1>6, <1>7 DEF InStep, Types
<1>12. InOrder'
  BY <1>1, <1>2, <1>7 DEF InStep, InOrder, InOrderOf
<1>13. ConnectPlace'
  BY <1>1, <1>2 DEF InStep, ConnectPlace, ConnectPlaceOf
<1>14. VerifyPlace'
  <2> SUFFICES ASSUME NEW m \in Sessions PROVE VerifyPlaceOf(m)'
    BY DEF VerifyPlace
  <2>1. CASE m = n
    BY <1>1, <1>2, <1>3, <2>1 DEF VerifyPlaceOf, Waits
  <2>2. CASE m # n
    BY <1>1, <1>2, <1>7, <2>2 DEF InStep, VerifyPlace, VerifyPlaceOf, GoesOn
  <2>3. QED
    BY <2>1, <2>2
<1>15. HeardIsOwn'
  <2> SUFFICES ASSUME NEW l \in Tasks, task'[l].at \in Waits PROVE HeardIsOwnOf(l)'
    BY DEF HeardIsOwn
  <2>1. task'[l] = task[l] /\ HeardIsOwnOf(l)
    BY <1>8 DEF InStep, HeardIsOwn
  <2>2. QED
    BY <1>1, <2>1 DEF HeardIsOwnOf, Cmd, Alive
<1>16. OneReply'
  <2> SUFFICES ASSUME NEW l \in Tasks, task'[l].at \in Waits PROVE OneReplyOf(l)'
    BY DEF OneReply
  <2>1. OneReplyOf(l) /\ task'[l] = task[l] /\ l # k
    BY <1>8 DEF InStep, OneReply
  <2>2. CASE task[l].on # sock \/ ~Alive(sock)
    <3>1. task[l].on \in Conns
      BY <2>1, WaitsOnConn
    <3>2. asked'[task[l].on] = asked[task[l].on]
      BY <1>6, <2>2, <3>1
    <3>3. QED
      BY <1>1, <2>1, <3>2 DEF OneReplyOf, Cmd
  <2>3. CASE task[l].on = sock /\ Alive(sock)
    <3>1. sock \in mute
      BY <1>9, <2>1, <2>3
    <3>2. QED
      BY <1>1, <2>1, <2>3, <3>1 DEF OneReplyOf, Cmd
  <2>4. QED
    BY <2>2, <2>3
<1>17. OneCommand'
  <2> SUFFICES ASSUME NEW c \in Conns, c \notin mute PROVE OneCommandOf(c)'
    BY <1>1 DEF OneCommand
  <2>1. CASE c # sock \/ ~Alive(sock)
    <3>1. asked'[c] = asked[c] /\ OneCommandOf(c)
      BY <1>6, <2>1 DEF InStep, OneCommand
    <3>2. ~Waiting(k, c) /\ ~Waiting(k, c)'
      BY <1>2 DEF Waiting, Waits
    <3>3. \A l \in Tasks : /\ Waiting(l, c)' <=> Waiting(l, c)
                           /\ Waiting(l, c) => Cmd(l)' = Cmd(l)
      BY <1>2, <3>2 DEF Waiting, Cmd
    <3>4. QED
      BY <1>1, <3>1, <3>3 DEF OneCommandOf
  <2>2. CASE c = sock /\ Alive(sock)
    <3>1. \A l \in Tasks : ~Waiting(l, c)'
      BY <1>8, <1>9, <2>2 DEF Waiting
    <3>2. asked'[c] = <<q>>
      <4>1. asked[c] = <<>> /\ asked'[c] = Append(asked[c], q)
        BY <1>4, <1>6, <2>2
      <4>2. QED
        BY <4>1
    <3>3. QED
      BY <1>5, <3>1, <3>2 DEF OneCommandOf, Quits
  <2>3. QED
    BY <2>1, <2>2
<1>18. ReadyToVerify'
  <2> SUFFICES ASSUME NEW m \in Sessions, promise[m] # "pending", verdict'[m] = Undecided
               PROVE  ReadyToVerifyOf(m)'
    BY <1>1 DEF ReadyToVerify, ReadyToVerifyOf
  <2>1. m # n /\ verdict[m] = Undecided
    BY <1>7
  <2>2. sock \in Ours(m) /\ sock \in Ours(n)
    BY <1>3, <2>1, Own
  <2>3. QED
    BY <2>1, <2>2, Own
<1>19. NotOpen'
  <2> SUFFICES ASSUME NEW m \in Sessions PROVE NotOpenOf(m)'
    BY DEF NotOpen
  <2>1. /\ NotOpenOf(m) /\ Plain(m) \in Conns /\ Tls(m) \in Conns
        /\ Connecting(m)' = Connecting(m)
    BY <1>2, ConnFacts DEF InStep, NotOpen
  <2>2. CASE m # n
    <3>1. Plain(m) # sock /\ Tls(m) # sock
      BY <1>3, <2>2, ConnFacts DEF Ours
    <3>2. QED
      BY <1>1, <1>6, <2>1, <3>1 DEF NotOpenOf
  <2>3. CASE m = n /\ sock = Tls(n)
    <3>1. link[Tls(n)] \in {"open", "closed"} /\ Plain(n) # sock
      BY <2>3, ConnFacts DEF InStep, InOrder, InOrderOf
    <3>2. link[Tls(n)] = "closed" => ~Alive(sock)
      BY <2>3 DEF Alive
    <3>3. QED
      BY <1>1, <1>6, <2>1, <2>3, <3>1, <3>2 DEF NotOpenOf
  <2>4. CASE m = n /\ sock = Plain(n)
    <3>1. Tls(n) # sock
      BY <2>4, ConnFacts
    <3>2. link[Plain(n)] \in {"none", "closed"} => ~Alive(sock)
      BY <2>4 DEF Alive
    <3>3. link[Plain(n)] = "opening" => Plain(n) \in mute
      BY <1>3, <2>1, <2>4 DEF NotOpenOf
    <3>4. QED
      BY <1>1, <1>6, <2>1, <2>4, <3>1, <3>2, <3>3 DEF NotOpenOf
  <2>5. QED
    BY <1>3, <2>2, <2>3, <2>4 DEF Ours
<1>20. Securing'
  <2> SUFFICES ASSUME NEW m \in Sessions PROVE SecuringOf(m)'
    BY DEF Securing
  <2>1. SecuringOf(m) /\ Plain(m) \in Conns
    BY ConnFacts DEF InStep, Securing
  <2>2. CASE Plain(m) # sock
    BY <1>1, <1>6, <2>1, <2>2 DEF SecuringOf
  <2>3. CASE Plain(m) = sock
    <3>1. m = n /\ sock # Tls(n)
      BY <1>3, <2>3, ConnFacts DEF Ours
    <3>2. QED
      BY <1>1, <1>3, <2>1, <3>1 DEF SecuringOf
  <2>4. QED
    BY <2>2, <2>3
<1>21. OneConnectionAtATime'
  <2> SUFFICES ASSUME NEW c \in Conns, NEW i \in 1..Len(asked'[c])
               PROVE  asked'[c][i][1] = c[1]
    BY DEF OneConnectionAtATime
  <2>1. CASE asked'[c] = asked[c]
    BY <2>1 DEF InStep, OneConnectionAtATime
  <2>2. CASE c = sock /\ asked'[c] = Append(asked[c], q)
    <3>1. c[1] = n
      BY <1>3, <2>2, ConnFacts DEF Ours
    <3>2. asked'[c][i] = q \/ (i \in 1..Len(asked[c]) /\ asked'[c][i] = asked[c][i])
      BY <1>5, <1>6, <2>2
    <3>3. QED
      BY <1>5, <3>1, <3>2 DEF InStep, OneConnectionAtATime
  <2>3. QED
    BY <1>6, <2>1, <2>2
<1>22. VerdictIsAboutTheEmail'
  <2> SUFFICES ASSUME NEW m \in Sessions, verdict'[m].from # NoCmd
               PROVE  /\ verdict'[m].from[1] = m
                      /\ IF verdict'[m].what = "catch_all"
                         THEN verdict'[m].from[3] = "probe"
                         ELSE verdict'[m].from[3] = "rcpt"
    BY DEF VerdictIsAboutTheEmail
  <2>1. CASE m = n
    BY <1>7, <2>1 DEF DecideStep
  <2>2. CASE m # n
    BY <1>7, <2>2 DEF InStep, VerdictIsAboutTheEmail
  <2>3. QED
    BY <2>1, <2>2
<1>23. QED
  BY <1>11, <1>12, <1>13, <1>14, <1>15, <1>16, <1>17, <1>18, <1>19, <1>20, <1>21,
     <1>22 DEF InStep

-----------------------------------------------------------------------------
(* The steps of the coroutines *)

\* What a command is settled with.
LEMMA Answers ==
  ASSUME InStep, NEW k \in Tasks, task[k].at \in Waits, task[k].go
  PROVE  /\ task[k].heard.cmd \in {NoCmd, Cmd(k)}
         /\ task[k].at = "banner" /\ task[k].heard # Event("closed") =>
              task[k].heard.cmd # NoCmd
         /\ task[k].at # "banner" =>
              task[k].heard.reply \in Replies \union Rejections \union {"timeout"}
         /\ task[k].heard.cmd = NoCmd /\ task[k].at # "banner" =>
              task[k].heard.reply \in Rejections \union {"timeout"}
<1>1. HeardIsOwnOf(k)
  BY DEF InStep, HeardIsOwn
<1>2. task[k].heard \in Parts \union EventRecords
  BY DEF InStep, Types, Coroutine
<1>3. /\ task[k].heard.cmd \in {NoCmd, Cmd(k)}
      /\ task[k].heard.cmd = NoCmd =>
           /\ task[k].heard # Nothing
           /\ task[k].at = "banner" <=> task[k].heard = Event("closed")
  BY <1>1 DEF HeardIsOwnOf
<1>4. CASE task[k].heard.cmd # NoCmd
  BY <1>2, <1>3, <1>4, EventKinds DEF Parts
<1>5. CASE task[k].heard.cmd = NoCmd
  <2>1. task[k].heard = Event(task[k].heard.reply) /\ task[k].heard \notin Parts
    BY <1>2, <1>5, EventKinds, CmdFacts DEF Parts
  <2>2. task[k].heard.reply \in Rejections \union {"none", "timeout", "closed"}
    BY <1>2, <2>1 DEF EventRecords, Event
  <2>3. QED
    BY <1>3, <1>5, <2>1, <2>2 DEF Nothing
<1>6. QED
  BY <1>4, <1>5

\* What verifyEmail makes of a reply is a verdict.
LEMMA JudgeType ==
  ASSUME NEW r \in Replies \union Rejections \union {"timeout"}
  PROVE  Judge(r) \in Reasons /\ Judge(r) # "catch_all"
BY DEF Replies, Rejections, Judge, Reasons

\* Every step of connect keeps the invariant.
LEMMA ConnectKeeps ==
  ASSUME InStep, NEW n \in Sessions, ConnectStep(n)
  PROVE  InStep'
<1> DEFINE k == <<n, "connect">>
<1>1. k \in Tasks
  BY TaskFacts
<1>2. CASE Greeted(n)
  <2>1. task[k].at = "banner" /\ task[k].at \in Waits /\ task[k].go
    BY <1>2 DEF Greeted, Waits
  <2>2. CASE task[k].heard = Event("closed")
    <3>1. SettleStep(n, "mailbox_not_found")
      BY <1>2, <2>1, <2>2 DEF Greeted, SettleStep, Reasons
    <3>2. QED
      BY <3>1, SettleKeeps
  <2>3. CASE task[k].heard # Event("closed")
    <3>1. task[k].heard.cmd # NoCmd
      BY <1>1, <2>1, <2>3, Answers
    <3>2. ConnectSends(n, "ehlo")
      BY <1>2, <2>1, <2>3, <3>1 DEF Greeted, ConnectSends, SendStep
    <3>3. QED
      BY <1>1, <3>2, SendKeeps
  <2>4. QED
    BY <2>2, <2>3
<1>3. CASE EhloAnswered(n)
  <2>1. task[k].at = "ehlo" /\ task[k].at \in Waits /\ task[k].go
    BY <1>3 DEF EhloAnswered, Waits
  <2>2. CASE task[k].heard.reply = "tls"
    <3>1. task[k].heard.cmd # NoCmd
      BY <1>1, <2>1, <2>2, Answers DEF Rejections
    <3>2. ConnectSends(n, "starttls")
      BY <1>3, <2>1, <2>2, <3>1 DEF EhloAnswered, ConnectSends, SendStep
    <3>3. QED
      BY <1>1, <3>2, SendKeeps
  <2>3. CASE task[k].heard.reply # "tls"
    <3> DEFINE what == IF task[k].heard.reply = "ok" THEN "ready"
                       ELSE Judge(task[k].heard.reply)
    <3>1. what \in Reasons \union {"ready"}
      BY <1>1, <2>1, Answers, JudgeType
    <3>2. SettleStep(n, what)
      BY <1>3, <2>1, <2>3, <3>1 DEF EhloAnswered, SettleStep
    <3>3. QED
      BY <3>2, SettleKeeps
  <2>4. QED
    BY <2>2, <2>3
<1>4. CASE StartTls(n)
  <2>1. task[k].at = "starttls" /\ task[k].at \in Waits /\ task[k].go
    BY <1>4 DEF StartTls, Waits
  <2>2. CASE task[k].heard.reply \in Rejections
    <3>1. Judge(task[k].heard.reply) \in Reasons
      BY <2>2, JudgeType
    <3>2. SettleStep(n, Judge(task[k].heard.reply))
      BY <1>4, <2>1, <2>2, <3>1 DEF StartTls, SettleStep
    <3>3. QED
      BY <3>2, SettleKeeps
  <2>3. CASE task[k].heard.reply \notin Rejections
    <3>1. OpenTls(n)
      BY <1>4, <2>3 DEF StartTls, OpenTls
    <3>2. QED
      BY <3>1, OpenTlsKeeps
  <2>4. QED
    BY <2>2, <2>3
<1>5. CASE Refused(n)
  BY <1>5, RefusedKeeps
<1>6. QED
  BY <1>2, <1>3, <1>4, <1>5 DEF ConnectStep

\* Every step of verifyEmail keeps the invariant.
LEMMA VerifyKeeps ==
  ASSUME InStep, NEW n \in Sessions, VerifyStep(n)
  PROVE  InStep'
<1> DEFINE k == <<n, "verify">>
<1>1. k \in Tasks /\ k[1] = n /\ NoCmd # Cmd(k)
  BY TaskFacts DEF NoCmd, Cmd
<1>2. ASSUME NEW verb, VerifySends(n, verb) PROVE InStep'
  BY <1>1, <1>2, SendKeeps
<1>3. CASE VerifyEmail(n)
  <2>1. VerifySends(n, "ehlo")
    BY <1>3 DEF VerifyEmail, VerifySends, VerifyGoes, SendStep, Waits
  <2>2. QED
    BY <1>2, <2>1
<1>4. CASE Ehlo(n)
  <2>1. VerifySends(n, "mail")
    BY <1>4 DEF Ehlo, Answered, VerifySends, VerifyGoes, SendStep, Waits
  <2>2. QED
    BY <1>2, <2>1
<1>5. CASE MailFrom(n)
  <2>1. VerifySends(n, IF n \in Free THEN "rcpt" ELSE "probe")
    BY <1>5 DEF MailFrom, Answered, VerifySends, VerifyGoes, SendStep, Waits
  <2>2. QED
    BY <1>2, <2>1
<1>6. CASE Probe(n)
  <2>1. task[k].at = "probe" /\ task[k].at \in Waits /\ task[k].go
    BY <1>6 DEF Probe, Answered, Waits
  <2>2. CASE Judge(task[k].heard.reply) = "valid"
    <3>1. \/ task[k].heard.cmd = NoCmd
          \/ task[k].heard.cmd = <<n, "verify", "probe">>
      <4>1. task[k].heard.cmd \in {NoCmd, Cmd(k)}
        BY <1>1, <2>1, Answers
      <4>2. Cmd(k) = <<n, "verify", "probe">>
        BY <2>1 DEF Cmd
      <4>3. QED
        BY <4>1, <4>2
    <3>2. <<n, "verify", "probe">> \in Cmds
      BY DEF Cmds, Methods, Verbs
    <3>3. DecideStep(n, "catch_all", task[k].heard.cmd)
      BY <1>6, <2>1, <2>2, <3>1, <3>2 DEF Probe, DecideStep, Reasons
    <3>4. QED
      BY <3>3, DecideKeeps
  <2>3. CASE Judge(task[k].heard.reply) # "valid"
    <3>1. VerifySends(n, "rcpt")
      BY <1>6, <2>1, <2>3 DEF Probe, VerifySends, VerifyGoes, SendStep, Waits
    <3>2. QED
      BY <1>2, <3>1
  <2>4. QED
    BY <2>2, <2>3
<1>7. CASE Rcpt(n)
  <2>1. task[k].at = "rcpt" /\ task[k].at \in Waits /\ task[k].go
    BY <1>7 DEF Rcpt, Answered, Waits
  <2>2. \/ task[k].heard.cmd = NoCmd
        \/ task[k].heard.cmd = <<n, "verify", "rcpt">>
    <3>1. task[k].heard.cmd \in {NoCmd, Cmd(k)}
      BY <1>1, <2>1, Answers
    <3>2. Cmd(k) = <<n, "verify", "rcpt">>
      BY <2>1 DEF Cmd
    <3>3. QED
      BY <3>1, <3>2
  <2>3. <<n, "verify", "rcpt">> \in Cmds
    BY DEF Cmds, Methods, Verbs
  <2>4. /\ Judge(task[k].heard.reply) \in Reasons
        /\ Judge(task[k].heard.reply) # "catch_all"
    BY <1>1, <2>1, Answers, JudgeType
  <2>5. DecideStep(n, Judge(task[k].heard.reply), task[k].heard.cmd)
    BY <1>7, <2>1, <2>2, <2>3, <2>4 DEF Rcpt, DecideStep
  <2>6. QED
    BY <2>5, DecideKeeps
<1>8. CASE CommandRejected(n)
  <2>1. task[k].at \in Waits /\ task[k].go
    BY <1>8 DEF CommandRejected, InStep, VerifyPlace, VerifyPlaceOf, Verifying
  <2>2. Judge(task[k].heard.reply) \in Reasons
    BY <1>8, JudgeType DEF CommandRejected
  <2>3. DecideStep(n, Judge(task[k].heard.reply), NoCmd)
    BY <1>8, <2>1, <2>2 DEF CommandRejected, DecideStep
  <2>4. QED
    BY <2>3, DecideKeeps
<1>9. QED
  BY <1>3, <1>4, <1>5, <1>6, <1>7, <1>8 DEF VerifyStep
===============================================================================
