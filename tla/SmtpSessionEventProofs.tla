------------------------ MODULE SmtpSessionEventProofs ------------------------
(***************************************************************************)
(* The events of sockets, timers and servers keep a session in step, and   *)
(* what follows from that.                                                 *)
(***************************************************************************)
EXTENDS SmtpSessionProofs

-----------------------------------------------------------------------------
(* Between two events *)

\* Between two events no coroutine runs: each waits, or is not there.
LEMMA Rest ==
  ASSUME InStep, Quiescent
  PROVE  /\ \A k \in Tasks : task[k].go = FALSE
         /\ \A k \in Tasks : task[k].at \in Waits =>
              Waiting(k, task[k].on) /\ task[k].on \in Conns /\ OneReplyOf(k)
         /\ \A n \in Sessions : promise[n] # "pending" =>
              verdict[n] # Undecided \/ Verifying(n).at # "off"
<1>1. \A k \in Tasks : task[k].go = FALSE
  BY DEF Quiescent, InStep, Types, Coroutine
<1>2. \A k \in Tasks : task[k].at \in Waits =>
        Waiting(k, task[k].on) /\ task[k].on \in Conns /\ OneReplyOf(k)
  BY <1>1, WaitsOnConn DEF Waiting, InStep, OneReply
<1>3. QED
  BY <1>1, <1>2 DEF Quiescent, Verifying

\* The first element of a sequence, and the rest.
LEMMA HeadTail ==
  ASSUME NEW S, NEW s \in Seq(S), s # <<>>
  PROVE  /\ Head(s) = s[1] /\ s[1] \in S /\ Tail(s) \in Seq(S)
         /\ Len(s) \in Nat \ {0} /\ Len(Tail(s)) = Len(s) - 1
         /\ \A i \in 1..Len(Tail(s)) : Tail(s)[i] = s[i + 1]
         /\ Tail(s) = <<>> <=> Len(s) = 1
<1>1. /\ Len(s) \in Nat \ {0} /\ Head(s) = s[1] /\ s[1] \in S
  BY EmptySeq
<1>2. /\ Tail(s) \in Seq(S) /\ Len(Tail(s)) = Len(s) - 1
      /\ \A i \in 1..Len(Tail(s)) : Tail(s)[i] = s[i + 1]
  BY HeadTailProperties
<1>3. Tail(s) = <<>> <=> Len(Tail(s)) = 0
  BY <1>2, EmptySeq
<1>4. QED
  BY <1>1, <1>2, <1>3

\* A chunk that arrives is heard by the coroutine that asked for it.
LEMMA ReceiveKeeps ==
  ASSUME InStep, NEW c \in Conns, Receive(c)
  PROVE  InStep'
<1> DEFINE w == wire[c]
           heard(k) == [task[k] EXCEPT !.heard = Head(w),
                                       !.go = task[k].at = "banner" \/ ~slow']
<1>1. /\ UNCHANGED <<server, sock, link, asked, mute, armed, promise, verdict>>
      /\ Quiescent /\ Alive(c) /\ w # <<>>
      /\ task' = [k \in Tasks |-> IF Waiting(k, c) THEN heard(k) ELSE task[k]]
      /\ wire' = [wire EXCEPT ![c] = Tail(@)]
  BY DEF Receive
<1>0. /\ UNCHANGED <<server, sock, link, asked, mute, armed, promise, verdict>>
      /\ Quiescent /\ Alive(c) /\ wire[c] # <<>>
  BY <1>1
<1>2. /\ slow' \in BOOLEAN
      /\ \/ \A k \in Tasks : task[k].on = c => task[k].at \in {"off", "banner"}
         \/ server.slow => slow'
  BY DEF Receive, InStep, Types
<1>3. /\ w \in Seq(Parts) /\ Head(w) = w[1] /\ w[1] \in Parts
      /\ Tail(w) \in Seq(Parts) /\ Len(Tail(w)) = Len(w) - 1 /\ Len(w) \in Nat \ {0}
      /\ \A i \in 1..Len(Tail(w)) : Tail(w)[i] = w[i + 1]
      /\ Tail(w) = <<>> <=> Len(w) = 1
  <2>1. w \in Seq(Parts)
    BY DEF InStep, Types
  <2>2. QED
    BY <1>1, <2>1, HeadTail
<1>4. /\ wire' \in [Conns -> Seq(Parts)] /\ wire'[c] = Tail(w)
      /\ \A d \in Conns : d # c => wire'[d] = wire[d]
  BY <1>1, <1>3 DEF InStep, Types
<1>5. /\ task' \in [Tasks -> Coroutine]
      /\ \A k \in Tasks : task'[k].at = task[k].at /\ task'[k].on = task[k].on
      /\ \A k \in Tasks : ~Waiting(k, c) => task'[k] = task[k]
      /\ \A k \in Tasks : Waiting(k, c) =>
           /\ task'[k].heard = w[1]
           /\ task'[k].go = (task[k].at = "banner" \/ ~slow')
  <2>1. ASSUME NEW k \in Tasks
        PROVE  /\ heard(k) \in Coroutine
               /\ heard(k).at = task[k].at /\ heard(k).on = task[k].on
               /\ heard(k).heard = w[1]
               /\ heard(k).go = (task[k].at = "banner" \/ ~slow')
    <3>1. task[k] \in Coroutine
      BY DEF InStep, Types
    <3>2. QED
      BY <1>3, <3>1 DEF Coroutine
  <2>2. task \in [Tasks -> Coroutine]
    BY DEF InStep, Types
  <2> HIDE DEF heard
  <2>3. \A k \in Tasks : task'[k] = IF Waiting(k, c) THEN heard(k) ELSE task[k]
    BY <1>1
  <2>4. task' \in [Tasks -> Coroutine]
    BY <1>1, <2>1, <2>2
  <2>5. QED
    BY <2>1, <2>3, <2>4
<1>6. \A k \in Tasks : Waiting(k, c) =>
        /\ task[k].at \in Waits /\ task[k].on = c /\ Cmd(k) # NoCmd
        /\ c \notin mute /\ asked[c] = <<>>
        /\ \/ Len(w) = 1 /\ w[1].last
           \/ Len(w) = 2 /\ ~w[1].last /\ w[2].last /\ server.slow /\ task[k].at # "banner"
        /\ \A i \in 1..Len(w) : w[i].cmd = Cmd(k)
  <2> SUFFICES ASSUME NEW k \in Tasks, Waiting(k, c)
               PROVE  /\ task[k].at \in Waits /\ task[k].on = c /\ Cmd(k) # NoCmd
                      /\ c \notin mute /\ asked[c] = <<>>
                      /\ \/ Len(w) = 1 /\ w[1].last
                         \/ /\ Len(w) = 2 /\ ~w[1].last /\ w[2].last
                            /\ server.slow /\ task[k].at # "banner"
                      /\ \A i \in 1..Len(w) : w[i].cmd = Cmd(k)
    OBVIOUS
  <2>1. task[k].at \in Waits /\ task[k].on = c /\ ~task[k].go
    BY DEF Waiting
  <2>2. OneReplyOf(k) /\ Cmd(k) # NoCmd
    BY <1>0, <2>1, Rest, CmdFacts
  <2>3. QED
    BY <1>0, <2>1, <2>2 DEF OneReplyOf
<1>7. \A k \in Tasks : Waiting(k, c) => (task'[k].go => Len(w) = 1)
  BY <1>2, <1>5, <1>6 DEF Waits
<1>8. \A m \in Sessions :
        /\ Connecting(m)'.at = Connecting(m).at /\ Connecting(m)'.on = Connecting(m).on
        /\ Verifying(m)'.at = Verifying(m).at /\ Verifying(m)'.on = Verifying(m).on
  BY <1>5, TaskFacts DEF Connecting, Verifying
<1>9. \A k \in Tasks, d \in Conns :
        /\ Waiting(k, d)' => Waiting(k, d)
        /\ d # c => (Waiting(k, d)' <=> Waiting(k, d))
  BY <1>5 DEF Waiting
<1>10. \A k \in Tasks : Cmd(k)' = Cmd(k)
  BY <1>5 DEF Cmd
<1>11. Types'
  BY <1>0, <1>2, <1>4, <1>5 DEF InStep, Types
<1>12. InOrder'
  BY <1>0, <1>8 DEF InStep, InOrder, InOrderOf
<1>13. ConnectPlace'
  <2> SUFFICES ASSUME NEW m \in Sessions PROVE ConnectPlaceOf(m)'
    BY DEF ConnectPlace
  <2>1. ConnectPlaceOf(m) /\ Plain(m) \in Conns /\ <<m, "connect">> \in Tasks
    BY ConnFacts, TaskFacts DEF InStep, ConnectPlace
  <2>2. CASE ~Waiting(<<m, "connect">>, c)
    <3>1. Connecting(m)' = Connecting(m)
      BY <1>5, <2>1, <2>2 DEF Connecting
    <3>2. wire[Plain(m)] = <<>> => wire'[Plain(m)] = <<>>
      BY <1>0, <1>4, <2>1
    <3>3. QED
      BY <1>0, <2>1, <3>1, <3>2 DEF ConnectPlaceOf
  <2>3. CASE Waiting(<<m, "connect">>, c)
    <3>1. Connecting(m).at \in Waits /\ c = Plain(m) /\ ~Connecting(m).go
      BY <2>1, <2>3, Own DEF Waiting, Connecting
    <3>2. promise[m] = "pending"
      BY <1>0, <2>1, <3>1 DEF ConnectPlaceOf
    <3>3. sock = Plain(m)
      <4>1. sock \in Ours(m) /\ link[Tls(m)] = "none"
        BY <3>1, <3>2, Own DEF InStep, VerifyPlace, VerifyPlaceOf, InOrder, InOrderOf, Waits
      <4>2. QED
        BY <4>1 DEF InStep, InOrder, InOrderOf, Ours
    <3>4. QED
      BY <1>0, <1>8, <2>1, <3>1, <3>2, <3>3 DEF ConnectPlaceOf
  <2>4. QED
    BY <2>2, <2>3
<1>14. VerifyPlace'
  <2> SUFFICES ASSUME NEW m \in Sessions PROVE VerifyPlaceOf(m)'
    BY DEF VerifyPlace
  <2>1. Verifying(m)'.go => Verifying(m).at \in Waits
    <3>1. <<m, "verify">> \in Tasks /\ VerifyPlaceOf(m)
      BY TaskFacts DEF InStep, VerifyPlace
    <3>2. CASE Waiting(<<m, "verify">>, c)
      BY <3>2 DEF Waiting, Verifying
    <3>3. CASE ~Waiting(<<m, "verify">>, c)
      BY <1>5, <3>1, <3>3 DEF Verifying, VerifyPlaceOf
    <3>4. QED
      BY <3>2, <3>3
  <2>2. VerifyPlaceOf(m) /\ (GoesOn(m)' <=> GoesOn(m))
    BY <1>0 DEF InStep, VerifyPlace, GoesOn
  <2>3. QED
    BY <1>0, <1>8, <2>1, <2>2 DEF VerifyPlaceOf
<1>15. HeardIsOwn'
  <2> SUFFICES ASSUME NEW k \in Tasks, task'[k].at \in Waits PROVE HeardIsOwnOf(k)'
    BY DEF HeardIsOwn
  <2>1. CASE Waiting(k, c)
    <3>1. task'[k].heard.cmd = Cmd(k) /\ Cmd(k) # NoCmd /\ task'[k].heard # Nothing
      BY <1>3, <1>5, <1>6, <2>1 DEF Nothing, Event
    <3>2. task'[k].at = "banner" => task'[k].go
      BY <1>5, <2>1
    <3>3. QED
      BY <1>10, <3>1, <3>2 DEF HeardIsOwnOf, Alive
  <2>2. CASE ~Waiting(k, c)
    <3>1. task'[k] = task[k] /\ HeardIsOwnOf(k)
      BY <1>5, <2>2 DEF InStep, HeardIsOwn
    <3>2. QED
      BY <1>0, <1>10, <3>1 DEF HeardIsOwnOf, Alive
  <2>3. QED
    BY <2>1, <2>2
<1>16. OneReply'
  <2> SUFFICES ASSUME NEW k \in Tasks, task'[k].at \in Waits PROVE OneReplyOf(k)'
    BY DEF OneReply
  <2>1. /\ task[k].at \in Waits /\ Waiting(k, task[k].on) /\ task[k].on \in Conns
        /\ OneReplyOf(k)
    BY <1>0, <1>5, Rest
  <2>2. CASE Waiting(k, c)
    <3>1. task'[k].on = c /\ wire'[c] = Tail(w) /\ asked'[c] = <<>> /\ c \notin mute'
      BY <1>0, <1>4, <1>5, <1>6, <2>2
    <3>2. task'[k].go => wire'[c] = <<>>
      BY <1>3, <1>7, <2>2, <3>1
    <3>3. wire'[c] # <<>> =>
            /\ Len(wire'[c]) = 1 /\ wire'[c][1].last /\ wire'[c][1].cmd = Cmd(k)
            /\ ~task'[k].heard.last
      <4>1. Tail(w) # <<>> => Len(w) = 2 /\ Len(Tail(w)) = 1 /\ Tail(w)[1] = w[2]
        BY <1>3, <1>6, <2>2
      <4>2. QED
        BY <1>3, <1>5, <1>6, <2>2, <3>1, <4>1
    <3>4. \A n \in Sessions : c = Plain(n) => link[Tls(n)] = "none"
      BY <1>0 DEF InStep, Securing, SecuringOf
    <3>5. QED
      BY <1>0, <1>10, <3>1, <3>2, <3>3, <3>4 DEF OneReplyOf
  <2>3. CASE ~Waiting(k, c)
    <3>1. task'[k] = task[k] /\ task[k].on # c
      BY <1>5, <2>1, <2>3
    <3>2. wire'[task[k].on] = wire[task[k].on]
      BY <1>4, <2>1, <3>1
    <3>3. QED
      BY <1>0, <1>10, <2>1, <3>1, <3>2 DEF OneReplyOf
  <2>4. QED
    BY <2>2, <2>3
<1>17. OneCommand'
  <2> SUFFICES ASSUME NEW d \in Conns, d \notin mute PROVE OneCommandOf(d)'
    BY <1>0 DEF OneCommand
  <2>1. OneCommandOf(d)
    BY DEF InStep, OneCommand
  <2>2. CASE d = c /\ \E k \in Tasks : Waiting(k, c)
    <3>1. asked'[d] = <<>>
      BY <1>0, <1>6, <2>2
    <3>2. QED
      BY <3>1 DEF OneCommandOf
  <2>3. CASE d # c \/ \A k \in Tasks : ~Waiting(k, c)
    <3>1. \A k \in Tasks : Waiting(k, d)' <=> Waiting(k, d)
      BY <1>9, <2>3
    <3>2. QED
      BY <1>0, <1>10, <2>1, <3>1 DEF OneCommandOf
  <2>4. QED
    BY <2>2, <2>3
<1>18. ReadyToVerify'
  BY <1>0, <1>8, Rest DEF ReadyToVerify, ReadyToVerifyOf
<1>19. NotOpen'
  <2> SUFFICES ASSUME NEW m \in Sessions PROVE NotOpenOf(m)'
    BY DEF NotOpen
  <2>1. /\ NotOpenOf(m) /\ Plain(m) \in Conns /\ Tls(m) \in Conns
        /\ <<m, "connect">> \in Tasks
    BY ConnFacts, TaskFacts DEF InStep, NotOpen
  <2>2. \A d \in Conns : wire[d] = <<>> => wire'[d] = wire[d]
    BY <1>0, <1>4
  <2>3. link[Plain(m)] = "opening" => Connecting(m)' = Connecting(m)
    <3>1. ASSUME link[Plain(m)] = "opening" PROVE ~Waiting(<<m, "connect">>, c)
      <4>1. wire[Plain(m)] = <<>> /\ Connecting(m).on = Plain(m)
        BY <2>1, <3>1, Own DEF NotOpenOf, Waits
      <4>2. QED
        BY <1>0, <4>1 DEF Waiting, Connecting
    <3>2. QED
      BY <1>5, <2>1, <3>1 DEF Connecting
  <2>4. QED
    BY <1>0, <2>1, <2>2, <2>3 DEF NotOpenOf
<1>20. Securing'
  <2> SUFFICES ASSUME NEW m \in Sessions PROVE SecuringOf(m)'
    BY DEF Securing
  <2>1. SecuringOf(m) /\ Plain(m) \in Conns
    BY ConnFacts DEF InStep, Securing
  <2>2. wire[Plain(m)] = <<>> => wire'[Plain(m)] = <<>>
    BY <1>0, <1>4, <2>1
  <2>3. QED
    BY <1>0, <2>1, <2>2 DEF SecuringOf
<1>21. OneConnectionAtATime' /\ VerdictIsAboutTheEmail'
  BY <1>0 DEF InStep, OneConnectionAtATime, VerdictIsAboutTheEmail
<1>22. QED
  BY <1>11, <1>12, <1>13, <1>14, <1>15, <1>16, <1>17, <1>18, <1>19, <1>20, <1>21
     DEF InStep

\* Two seconds after the last chunk a slow reply is complete.
LEMMA QuietKeeps ==
  ASSUME InStep, NEW k \in Tasks, Quiet(k)
  PROVE  InStep'
<1>1. /\ UNCHANGED <<server, sock, slow, asked, promise, verdict, link, wire, mute, armed>>
      /\ Quiescent
      /\ task[k].at \in Waits /\ task[k].at # "banner" /\ ~task[k].go
      /\ task[k].heard # Nothing /\ task[k].heard.last
  BY DEF Quiet, network
<1>2. /\ task' \in [Tasks -> Coroutine]
      /\ \A l \in Tasks : task'[l].at = task[l].at /\ task'[l].on = task[l].on
                          /\ task'[l].heard = task[l].heard
      /\ \A l \in Tasks : l # k => task'[l] = task[l]
      /\ task'[k].go
  <2>1. task \in [Tasks -> Coroutine] /\ task' = [task EXCEPT ![k] = [@ EXCEPT !.go = TRUE]]
    BY DEF Quiet, SetTask, InStep, Types
  <2>2. [task[k] EXCEPT !.go = TRUE] \in Coroutine
    BY <2>1 DEF Coroutine
  <2>3. QED
    BY <2>1, <2>2 DEF Coroutine
<1>3. /\ OneReplyOf(k) /\ HeardIsOwnOf(k) /\ task[k].on \in Conns
      /\ wire[task[k].on] = <<>> /\ asked[task[k].on] = <<>>
  <2>1. OneReplyOf(k) /\ HeardIsOwnOf(k) /\ task[k].on \in Conns
    BY <1>1, WaitsOnConn DEF InStep, OneReply, HeardIsOwn
  <2>2. QED
    BY <1>1, <2>1 DEF OneReplyOf
<1>4. \A m \in Sessions :
        /\ Connecting(m)'.at = Connecting(m).at /\ Connecting(m)'.on = Connecting(m).on
        /\ Verifying(m)'.at = Verifying(m).at /\ Verifying(m)'.on = Verifying(m).on
  BY <1>2, TaskFacts DEF Connecting, Verifying
<1>5. \A l \in Tasks : Cmd(l)' = Cmd(l)
  BY <1>2 DEF Cmd
<1>11. Types'
  BY <1>1, <1>2 DEF InStep, Types
<1>12. InOrder'
  BY <1>1, <1>4 DEF InStep, InOrder, InOrderOf
<1>13. ConnectPlace'
  <2> SUFFICES ASSUME NEW m \in Sessions PROVE ConnectPlaceOf(m)'
    BY DEF ConnectPlace
  <2>1. ConnectPlaceOf(m) /\ <<m, "connect">> \in Tasks
    BY TaskFacts DEF InStep, ConnectPlace
  <2>2. CASE <<m, "connect">> # k
    <3>1. Connecting(m)' = Connecting(m)
      BY <1>2, <2>1, <2>2 DEF Connecting
    <3>2. QED
      BY <1>1, <2>1, <3>1 DEF ConnectPlaceOf
  <2>3. CASE <<m, "connect">> = k
    <3>1. /\ Connecting(m)'.go /\ Connecting(m).at \in Waits /\ Connecting(m).at # "banner"
          /\ ~Connecting(m).go
      BY <1>1, <1>2, <2>3 DEF Connecting
    <3>2. Connecting(m).at \in {"ehlo", "starttls"} /\ promise[m] = "pending"
      BY <2>1, <3>1 DEF ConnectPlaceOf
    <3>3. QED
      BY <1>1, <1>4, <2>1, <3>1, <3>2 DEF ConnectPlaceOf
  <2>4. QED
    BY <2>2, <2>3
<1>14. VerifyPlace'
  <2> SUFFICES ASSUME NEW m \in Sessions PROVE VerifyPlaceOf(m)'
    BY DEF VerifyPlace
  <2>1. /\ VerifyPlaceOf(m) /\ <<m, "verify">> \in Tasks
        /\ GoesOn(m)' <=> GoesOn(m)
    BY <1>1, TaskFacts DEF InStep, VerifyPlace, GoesOn
  <2>2. Verifying(m)'.go => Verifying(m).at \in Waits
    BY <1>1, <1>2, <2>1 DEF VerifyPlaceOf, Verifying
  <2>3. QED
    BY <1>1, <1>4, <2>1, <2>2 DEF VerifyPlaceOf
<1>15. HeardIsOwn'
  <2> SUFFICES ASSUME NEW l \in Tasks, task'[l].at \in Waits PROVE HeardIsOwnOf(l)'
    BY DEF HeardIsOwn
  <2>1. HeardIsOwnOf(l)
    BY <1>2 DEF InStep, HeardIsOwn
  <2>2. CASE l # k
    BY <1>1, <1>2, <1>5, <2>1, <2>2 DEF HeardIsOwnOf, Alive
  <2>3. CASE l = k
    <3>1. task[k].heard.cmd # NoCmd
      BY <1>1, <1>3 DEF HeardIsOwnOf
    <3>2. QED
      BY <1>1, <1>2, <1>5, <2>1, <2>3, <3>1 DEF HeardIsOwnOf, Alive
  <2>4. QED
    BY <2>2, <2>3
<1>16. OneReply'
  <2> SUFFICES ASSUME NEW l \in Tasks, task'[l].at \in Waits PROVE OneReplyOf(l)'
    BY DEF OneReply
  <2>1. OneReplyOf(l)
    BY <1>2 DEF InStep, OneReply
  <2>2. CASE l # k
    BY <1>1, <1>2, <1>5, <2>1, <2>2 DEF OneReplyOf
  <2>3. CASE l = k
    BY <1>1, <1>2, <1>3, <2>3 DEF OneReplyOf
  <2>4. QED
    BY <2>2, <2>3
<1>17. OneCommand'
  <2> SUFFICES ASSUME NEW d \in Conns, d \notin mute PROVE OneCommandOf(d)'
    BY <1>1 DEF OneCommand
  <2>1. OneCommandOf(d)
    BY DEF InStep, OneCommand
  <2>2. CASE d = task[k].on
    BY <1>1, <1>3, <2>2 DEF OneCommandOf
  <2>3. CASE d # task[k].on
    <3>1. \A l \in Tasks : Waiting(l, d)' <=> Waiting(l, d)
      BY <1>2, <2>3 DEF Waiting
    <3>2. QED
      BY <1>1, <1>5, <2>1, <3>1 DEF OneCommandOf
  <2>4. QED
    BY <2>2, <2>3
<1>18. ReadyToVerify'
  BY <1>1, <1>4, Rest DEF ReadyToVerify, ReadyToVerifyOf
<1>19. NotOpen'
  <2> SUFFICES ASSUME NEW m \in Sessions PROVE NotOpenOf(m)'
    BY DEF NotOpen
  <2>1. NotOpenOf(m) /\ <<m, "connect">> \in Tasks
    BY TaskFacts DEF InStep, NotOpen
  <2>2. Connecting(m).at = "banner" => Connecting(m)' = Connecting(m)
    BY <1>1, <1>2, <2>1 DEF Connecting
  <2>3. QED
    BY <1>1, <2>1, <2>2 DEF NotOpenOf
<1>20. Securing' /\ OneConnectionAtATime' /\ VerdictIsAboutTheEmail'
  BY <1>1 DEF InStep, Securing, SecuringOf, OneConnectionAtATime, VerdictIsAboutTheEmail
<1>21. QED
  BY <1>11, <1>12, <1>13, <1>14, <1>15, <1>16, <1>17, <1>18, <1>19, <1>20 DEF InStep

\* Only a session's own coroutines wait on its connections.
LEMMA WhoWaits ==
  ASSUME InStep, NEW n \in Sessions, NEW k \in Tasks,
         task[k].at \in Waits, task[k].on \in Ours(n)
  PROVE  k = <<n, "connect">> \/ k = <<n, "verify">>
<1>1. k[1] \in Sessions /\ task[k].on \in Ours(k[1])
  BY TaskFacts, WaitsOnConn
<1>2. k[1] = n
  BY <1>1, ConnFacts DEF Ours
<1>3. QED
  BY <1>2, TaskFacts

\* Once connect is over its commands, nobody waits before verifyEmail does.
LEMMA NobodyWaits ==
  ASSUME InStep, NEW n \in Sessions, promise[n] = "pending",
         Connecting(n).at \notin Waits, NEW k \in Tasks, task[k].at \in Waits
  PROVE  task[k].on \notin Ours(n)
<1>1. SUFFICES ASSUME task[k].on \in Ours(n) PROVE FALSE
  OBVIOUS
<1>2. Verifying(n).at = "off"
  BY DEF InStep, VerifyPlace, VerifyPlaceOf
<1>3. k = <<n, "connect">> \/ k = <<n, "verify">>
  BY <1>1, WhoWaits
<1>4. QED
  BY <1>2, <1>3 DEF Connecting, Verifying, Waits

-----------------------------------------------------------------------------
(* A connection ends *)

\* What Drop and Fail do to the session n, seen from outside.
CloseStep(n, conns, why) ==
  /\ Quiescent
  /\ link[Plain(n)] # "none"
  /\ \/ conns = {Plain(n)} /\ link[Tls(n)] = "none"
     \/ conns = Ours(n) /\ link[Tls(n)] # "none"
  /\ why \in {"close", "reset"} /\ Lose(conns, why)
  /\ link' = [d \in Conns |-> IF d \in conns THEN "closed" ELSE link[d]]
  /\ \/ UNCHANGED promise
     \/ /\ Settle(n, "no_accept")
        /\ why = "reset" \/ Connecting(n).at \notin {"ehlo", "starttls"}
  /\ asked' = [d \in Conns |-> IF d \in conns THEN <<>> ELSE asked[d]]
  /\ wire' = [d \in Conns |-> IF d \in conns THEN <<>> ELSE wire[d]]
  /\ UNCHANGED <<server, sock, slow, mute, armed, verdict>>

\* The coroutines of a lost connection: those that wait go on, but for one that
\* has heard a part of an answer.
LEMMA LoseFacts ==
  ASSUME InStep, Quiescent, NEW conns \in SUBSET Conns, NEW why, Lose(conns, why)
  PROVE  /\ task' \in [Tasks -> Coroutine]
         /\ \A k \in Tasks :
              /\ task'[k].on = task[k].on
              /\ \/ task'[k].at = task[k].at
                 \/ task[k].at = "tls" /\ task'[k].at = "over"
              /\ task[k].at \in Waits /\ task[k].on \notin conns => task'[k] = task[k]
              /\ task[k].at \in Waits /\ task[k].on \in conns =>
                   \/ /\ task[k].at # "banner" /\ task[k].heard # Nothing
                      /\ why = "close" /\ task'[k] = task[k]
                   \/ /\ task'[k].go
                      /\ task'[k].heard \in {Event("closed"), Event("no_accept"),
                                              Event("ip_blocked"), Event("reset")}
                      /\ task[k].at = "banner" <=> task'[k].heard = Event("closed")
              /\ task[k].at \notin Waits => task'[k].go = FALSE
<1> DEFINE woken(k, what) == [task[k] EXCEPT !.heard = Event(what), !.go = TRUE]
<1>1. \A k \in Tasks : task[k] \in Coroutine /\ task[k].go = FALSE
  BY Rest DEF InStep, Types
<1>2. \A k \in Tasks, what \in {"closed", "no_accept", "ip_blocked", "reset"} :
        /\ woken(k, what) \in Coroutine
        /\ woken(k, what).at = task[k].at /\ woken(k, what).on = task[k].on
        /\ woken(k, what).heard = Event(what) /\ woken(k, what).go
  BY <1>1 DEF Coroutine, EventRecords, Rejections
<1>3. \A k \in Tasks :
        LET o == [task[k] EXCEPT !.at = "over"] IN
        /\ o \in Coroutine /\ o.at = "over" /\ o.on = task[k].on /\ o.go = FALSE
  BY <1>1 DEF Coroutine, Places
<1>4. /\ Event("no_accept") # Event("closed") /\ Event("ip_blocked") # Event("closed")
      /\ Event("reset") # Event("closed")
  BY DEF Event
<1>5. \A k \in Tasks : (\E c \in conns : Waiting(k, c)) <=>
                          task[k].at \in Waits /\ task[k].on \in conns
  BY <1>1 DEF Waiting
<1>6. \A k \in Tasks :
        task'[k] = IF task[k].at \in Waits /\ task[k].on \in conns
                   THEN IF task[k].at = "banner" THEN woken(k, "closed")
                        ELSE IF why = "close" /\ task[k].heard # Nothing
                        THEN IF task[k].heard.reply \in {"no", "later"}
                             THEN woken(k, "no_accept") ELSE task[k]
                        ELSE woken(k, IF why = "close" THEN "ip_blocked" ELSE "reset")
                   ELSE IF task[k].at = "tls" /\ task[k].on \in conns
                   THEN [task[k] EXCEPT !.at = "over"]
                   ELSE task[k]
  BY <1>5 DEF Lose
<1>7. "tls" \notin Waits
  BY DEF Waits
<1> HIDE DEF woken
<1>8. ASSUME NEW k \in Tasks
      PROVE  /\ task'[k] \in Coroutine
             /\ task'[k].on = task[k].on
             /\ \/ task'[k].at = task[k].at
                \/ task[k].at = "tls" /\ task'[k].at = "over"
             /\ task[k].at \in Waits /\ task[k].on \notin conns => task'[k] = task[k]
             /\ task[k].at \in Waits /\ task[k].on \in conns =>
                   \/ /\ task[k].at # "banner" /\ task[k].heard # Nothing
                      /\ why = "close" /\ task'[k] = task[k]
                   \/ /\ task'[k].go
                      /\ task'[k].heard \in {Event("closed"), Event("no_accept"),
                                              Event("ip_blocked"), Event("reset")}
                      /\ task[k].at = "banner" <=> task'[k].heard = Event("closed")
             /\ task[k].at \notin Waits => task'[k].go = FALSE
  <2>1. CASE task[k].at \in Waits /\ task[k].on \in conns
    <3>1. CASE task[k].at = "banner"
      <4>1. task'[k] = woken(k, "closed")
        BY <1>6, <2>1, <3>1
      <4>2. QED
        BY <1>2, <2>1, <3>1, <4>1
    <3>2. CASE task[k].at # "banner" /\ why = "close" /\ task[k].heard # Nothing
      <4>1. task'[k] \in {woken(k, "no_accept"), task[k]}
        BY <1>6, <2>1, <3>2
      <4>2. CASE task'[k] = task[k]
        BY <1>1, <2>1, <3>2, <4>2
      <4>3. CASE task'[k] = woken(k, "no_accept")
        BY <1>2, <1>4, <2>1, <3>2, <4>3
      <4>4. QED
        BY <4>1, <4>2, <4>3
    <3>3. CASE task[k].at # "banner" /\ ~(why = "close" /\ task[k].heard # Nothing)
      <4>1. task'[k] \in {woken(k, "ip_blocked"), woken(k, "reset")}
        BY <1>6, <2>1, <3>3
      <4>2. QED
        BY <1>2, <1>4, <2>1, <3>3, <4>1
    <3>4. QED
      BY <3>1, <3>2, <3>3
  <2>2. CASE ~(task[k].at \in Waits /\ task[k].on \in conns)
    BY <1>1, <1>3, <1>6, <1>7, <2>2
  <2>3. QED
    BY <2>1, <2>2
<1>9. task' = [k \in Tasks |-> task'[k]]
  BY DEF Lose
<1>10. QED
  BY <1>8, <1>9

\* A lost connection wakes whoever waits on it.
LEMMA CloseKeeps ==
  ASSUME InStep, NEW n \in Sessions, NEW conns, NEW why, CloseStep(n, conns, why)
  PROVE  InStep'
<1>0. /\ UNCHANGED <<server, sock, slow, mute, armed, verdict>>
      /\ Quiescent /\ link[Plain(n)] # "none"
      /\ conns \in SUBSET Conns /\ conns \subseteq Ours(n)
      /\ \A d \in conns : link[d] # "none"
      /\ Plain(n) \in conns /\ (link[Tls(n)] # "none" => Tls(n) \in conns)
  BY ConnFacts DEF CloseStep, Ours
<1>1. /\ task' \in [Tasks -> Coroutine]
      /\ \A k \in Tasks :
           /\ task'[k].on = task[k].on
           /\ \/ task'[k].at = task[k].at
              \/ task[k].at = "tls" /\ task'[k].at = "over"
           /\ task[k].at \in Waits /\ task[k].on \notin conns => task'[k] = task[k]
           /\ task[k].at \in Waits /\ task[k].on \in conns =>
                \/ /\ task[k].at # "banner" /\ task[k].heard # Nothing
                   /\ why = "close" /\ task'[k] = task[k]
                \/ /\ task'[k].go
                   /\ task'[k].heard \in {Event("closed"), Event("no_accept"),
                                           Event("ip_blocked"), Event("reset")}
                   /\ task[k].at = "banner" <=> task'[k].heard = Event("closed")
           /\ task[k].at \notin Waits => task'[k].go = FALSE
  <2>1. Lose(conns, why)
    BY DEF CloseStep
  <2>2. QED
    BY <1>0, <2>1, LoseFacts
<1>2. /\ link' \in [Conns -> Links] /\ asked' \in [Conns -> Seq(Cmds)]
      /\ wire' \in [Conns -> Seq(Parts)]
      /\ \A d \in conns : link'[d] = "closed" /\ asked'[d] = <<>> /\ wire'[d] = <<>>
      /\ \A d \in Conns \ conns :
           link'[d] = link[d] /\ asked'[d] = asked[d] /\ wire'[d] = wire[d]
      /\ \A d \in Conns : link'[d] = "none" <=> link[d] = "none"
  <2>1. /\ link \in [Conns -> Links] /\ asked \in [Conns -> Seq(Cmds)]
        /\ wire \in [Conns -> Seq(Parts)]
    BY DEF InStep, Types
  <2>2. <<>> \in Seq(Cmds) /\ <<>> \in Seq(Parts) /\ "closed" \in Links
    BY DEF Links
  <2>3. QED
    BY <1>0, <2>1, <2>2 DEF CloseStep
<1>3. /\ promise' \in [Sessions -> Reasons \union {"pending", "ready"}]
      /\ \A m \in Sessions : m # n \/ promise[m] # "pending" => promise'[m] = promise[m]
      /\ promise'[n] # promise[n] =>
           why = "reset" \/ Connecting(n).at \notin {"ehlo", "starttls"}
  <2>1. CASE UNCHANGED promise
    BY <2>1 DEF InStep, Types
  <2>2. CASE Settle(n, "no_accept") /\ 
             (why = "reset" \/ Connecting(n).at \notin {"ehlo", "starttls"})
    BY <2>2, Settles DEF Reasons
  <2>3. QED
    BY <2>1, <2>2 DEF CloseStep
<1>4. \A m \in Sessions : GoesOn(m) => GoesOn(m)'
  BY <1>0, <1>3 DEF GoesOn
<1>5. \A k \in Tasks : /\ task'[k].at \in Waits <=> task[k].at \in Waits
                       /\ task'[k].at \in Waits => task'[k].at = task[k].at
                       /\ task'[k].at = "off" <=> task[k].at = "off"
                       /\ task[k].at = "over" => task'[k].at = "over"
                       /\ task'[k].at = "tls" => task[k].at = "tls"
                       /\ task[k].at = "tls" => task'[k].at \in {"tls", "over"}
                       /\ task'[k].at # task[k].at => task'[k].at = "over"
  BY <1>1 DEF Waits
<1>6. \A k \in Tasks : task[k].at \in Waits => Cmd(k)' = Cmd(k)
  BY <1>1, <1>5 DEF Cmd
<1>7. ASSUME NEW m \in Sessions
      PROVE  /\ Plain(m) \in Conns /\ Tls(m) \in Conns
             /\ m # n => Plain(m) \in Conns \ conns /\ Tls(m) \in Conns \ conns
             /\ sock \in conns => sock \in Conns
  BY <1>0, ConnFacts DEF Ours
<1>11. Types'
  BY <1>0, <1>1, <1>2, <1>3 DEF InStep, Types
<1>12. InOrder'
  <2> SUFFICES ASSUME NEW m \in Sessions PROVE InOrderOf(m)'
    BY DEF InOrder
  <2>1. InOrderOf(m) /\ <<m, "connect">> \in Tasks /\ link[Tls(m)] \in Links
    BY <1>7, TaskFacts DEF InStep, InOrder, Types
  <2>2. Connecting(m)'.at = "off" <=> Connecting(m).at = "off"
    BY <1>5, <2>1 DEF Connecting
  <2>3. link[Plain(m)] = "none" => promise'[m] = promise[m]
    BY <1>0, <1>3
  <2>4. link[Tls(m)] \in {"open", "closed"} => link'[Tls(m)] \in {"open", "closed"}
    BY <1>0, <1>2, <1>7
  <2>5. /\ link'[Plain(m)] = "none" <=> link[Plain(m)] = "none"
        /\ link'[Tls(m)] = "none" <=> link[Tls(m)] = "none"
    BY <1>2, <1>7
  <2>6. QED
    BY <1>0, <2>1, <2>2, <2>3, <2>4, <2>5 DEF InOrderOf
<1>13. ConnectPlace'
  <2> SUFFICES ASSUME NEW m \in Sessions PROVE ConnectPlaceOf(m)'
    BY DEF ConnectPlace
  <2>1. /\ ConnectPlaceOf(m) /\ <<m, "connect">> \in Tasks
        /\ Plain(m) \in Conns /\ Tls(m) \in Conns
    BY <1>7, TaskFacts DEF InStep, ConnectPlace
  <2>2. /\ Connecting(m)'.on = Connecting(m).on
        /\ Connecting(m)'.at \in Waits <=> Connecting(m).at \in Waits
        /\ Connecting(m)'.at \in Waits => Connecting(m)'.at = Connecting(m).at
        /\ Connecting(m)'.at = "tls" => Connecting(m).at = "tls"
        /\ Connecting(m).at \in {"tls", "over"} => Connecting(m)'.at \in {"tls", "over"}
    BY <1>1, <1>5, <2>1 DEF Connecting
  <2>3. /\ link'[Tls(m)] = "none" <=> link[Tls(m)] = "none"
        /\ wire[Plain(m)] = <<>> => wire'[Plain(m)] = <<>>
    BY <1>0, <1>2, <2>1
  <2>4. CASE Connecting(m).at \notin Waits
    BY <1>0, <2>1, <2>2, <2>3, <2>4 DEF ConnectPlaceOf, Waits
  <2>5. CASE Connecting(m).at \in Waits /\ m # n
    <3>1. Connecting(m).on = Plain(m) /\ Plain(m) \notin conns
      BY <1>7, <2>5, Own
    <3>2. Connecting(m)' = Connecting(m)
      BY <1>1, <2>1, <2>5, <3>1 DEF Connecting
    <3>3. QED
      BY <1>0, <1>3, <2>1, <2>3, <2>5, <3>2 DEF ConnectPlaceOf
  <2>6. CASE Connecting(m).at \in Waits /\ m = n
    <3>1. Connecting(n).on = Plain(n) /\ Connecting(n).go = FALSE
      BY <1>0, <2>1, <2>6, Own, Rest DEF Connecting
    <3>2. CASE Connecting(n)' = Connecting(n) /\ why = "close" /\ Connecting(n).at # "banner"
      <4>1. Connecting(n).at \in {"ehlo", "starttls"}
        BY <2>1, <2>6, <3>2 DEF ConnectPlaceOf
      <4>2. promise'[n] = promise[n]
        BY <1>3, <3>2, <4>1
      <4>3. QED
        BY <1>0, <2>1, <2>3, <2>6, <3>1, <3>2, <4>1, <4>2 DEF ConnectPlaceOf
    <3>3. CASE Connecting(n)'.go /\ Connecting(n)'.heard.cmd = NoCmd
      BY <1>0, <2>1, <2>2, <2>3, <2>6, <3>3 DEF ConnectPlaceOf, Waits
    <3>4. QED
      <4>1. \/ Connecting(n)' = Connecting(n) /\ why = "close" /\ Connecting(n).at # "banner"
            \/ /\ Connecting(n)'.go
               /\ Connecting(n)'.heard \in {Event("closed"), Event("no_accept"),
                                             Event("ip_blocked"), Event("reset")}
        BY <1>0, <1>1, <2>1, <2>6, <3>1 DEF Connecting
      <4>2. QED
        BY <3>2, <3>3, <4>1 DEF Event
  <2>7. QED
    BY <2>4, <2>5, <2>6
<1>14. VerifyPlace'
  <2> SUFFICES ASSUME NEW m \in Sessions PROVE VerifyPlaceOf(m)'
    BY DEF VerifyPlace
  <2>1. VerifyPlaceOf(m) /\ <<m, "verify">> \in Tasks
    BY TaskFacts DEF InStep, VerifyPlace
  <2>2. /\ Verifying(m)'.on = Verifying(m).on
        /\ Verifying(m)'.at \in Waits <=> Verifying(m).at \in Waits
        /\ Verifying(m)'.at \in Waits => Verifying(m)'.at = Verifying(m).at
        /\ Verifying(m)'.at = "off" <=> Verifying(m).at = "off"
        /\ Verifying(m).at \notin Waits => Verifying(m)'.go = FALSE
    BY <1>1, <1>5, <2>1 DEF Verifying
  <2>3. promise'[m] = "pending" => promise[m] = "pending"
    BY <1>3
  <2>4. QED
    BY <1>0, <1>4, <2>1, <2>2, <2>3 DEF VerifyPlaceOf
<1>15. HeardIsOwn'
  <2> SUFFICES ASSUME NEW k \in Tasks, task'[k].at \in Waits PROVE HeardIsOwnOf(k)'
    BY DEF HeardIsOwn
  <2>1. /\ task[k].at \in Waits /\ task'[k].at = task[k].at /\ HeardIsOwnOf(k)
        /\ task[k].go = FALSE /\ Cmd(k)' = Cmd(k)
    BY <1>0, <1>5, <1>6, Rest DEF InStep, HeardIsOwn
  <2>2. CASE task'[k] = task[k]
    BY <2>1, <2>2 DEF HeardIsOwnOf, Alive
  <2>3. CASE /\ task[k].on \in conns /\ task'[k].go
             /\ task'[k].heard \in {Event("closed"), Event("no_accept"),
                                     Event("ip_blocked"), Event("reset")}
             /\ task[k].at = "banner" <=> task'[k].heard = Event("closed")
    <3>1. /\ task'[k].heard.cmd = NoCmd /\ task'[k].heard # Nothing
          /\ task'[k].heard # Event("timeout")
      BY <2>3 DEF Event, Nothing
    <3>2. ~(link'[task'[k].on] \in {"opening", "open"})
      BY <1>1, <1>2, <2>3
    <3>3. QED
      BY <2>1, <2>3, <3>1, <3>2 DEF HeardIsOwnOf, Alive
  <2>4. QED
    BY <1>1, <2>1, <2>2, <2>3
<1>16. OneReply'
  <2> SUFFICES ASSUME NEW k \in Tasks, task'[k].at \in Waits PROVE OneReplyOf(k)'
    BY DEF OneReply
  <2>1. /\ task[k].at \in Waits /\ task'[k].at = task[k].at /\ OneReplyOf(k)
        /\ task[k].go = FALSE /\ Cmd(k)' = Cmd(k) /\ task[k].on \in Conns
        /\ task'[k].on = task[k].on
    BY <1>0, <1>1, <1>5, <1>6, Rest DEF InStep, OneReply
  <2>2. \A m \in Sessions : link'[Tls(m)] = "none" <=> link[Tls(m)] = "none"
    BY <1>2, <1>7
  <2>3. CASE task[k].on \in conns
    <3>1. wire'[task[k].on] = <<>> /\ asked'[task[k].on] = <<>>
      BY <1>2, <2>3
    <3>2. task'[k].go \/ task'[k] = task[k]
      BY <1>1, <2>1, <2>3
    <3>3. QED
      BY <1>0, <2>1, <2>2, <3>1, <3>2 DEF OneReplyOf
  <2>4. CASE task[k].on \notin conns
    <3>1. /\ wire'[task[k].on] = wire[task[k].on] /\ asked'[task[k].on] = asked[task[k].on]
          /\ task'[k] = task[k]
      BY <1>1, <1>2, <2>1, <2>4
    <3>2. QED
      BY <1>0, <2>1, <2>2, <3>1 DEF OneReplyOf
  <2>5. QED
    BY <2>3, <2>4
<1>17. OneCommand'
  <2> SUFFICES ASSUME NEW d \in Conns, d \notin mute PROVE OneCommandOf(d)'
    BY <1>0 DEF OneCommand
  <2>1. OneCommandOf(d)
    BY DEF InStep, OneCommand
  <2>2. CASE d \in conns
    BY <1>2, <2>2 DEF OneCommandOf
  <2>3. CASE d \notin conns
    <3>1. \A k \in Tasks : Waiting(k, d)' <=> Waiting(k, d)
      BY <1>1, <1>5, <2>3 DEF Waiting
    <3>2. asked'[d] = asked[d]
      BY <1>2, <2>3
    <3>3. \A m \in Sessions : link'[Tls(m)] = "none" <=> link[Tls(m)] = "none"
      BY <1>2, <1>7
    <3>4. \A k \in Tasks : Waiting(k, d) => Cmd(k)' = Cmd(k)
      BY <1>6 DEF Waiting
    <3>5. QED
      BY <2>1, <3>1, <3>2, <3>3, <3>4 DEF OneCommandOf
  <2>4. QED
    BY <2>2, <2>3
<1>18. ReadyToVerify'
  <2> SUFFICES ASSUME NEW m \in Sessions, promise'[m] # "pending",
                      Verifying(m)'.at = "off", verdict[m] = Undecided
               PROVE  ReadyToVerifyOf(m)'
    BY <1>0 DEF ReadyToVerify, ReadyToVerifyOf
  <2>1. Verifying(m).at = "off"
    BY <1>5, TaskFacts DEF Verifying
  <2>2. promise[m] = "pending" /\ m = n
    BY <1>0, <1>3, <2>1, Rest
  <2>3. sock \in conns
    BY <1>0, <2>2 DEF InStep, InOrder, InOrderOf, Ours
  <2>4. QED
    BY <1>0, <1>2, <2>3 DEF ReadyToVerifyOf
<1>19. NotOpen'
  <2> SUFFICES ASSUME NEW m \in Sessions PROVE NotOpenOf(m)'
    BY DEF NotOpen
  <2>1. NotOpenOf(m) /\ <<m, "connect">> \in Tasks
    BY TaskFacts DEF InStep, NotOpen
  <2>2. CASE m = n
    <3>1. Tls(n) \in conns \/ (Tls(n) \in Conns \ conns /\ link[Tls(n)] = "none")
      BY <1>0, <1>7
    <3>2. QED
      BY <1>0, <1>2, <2>1, <2>2, <3>1 DEF NotOpenOf
  <2>3. CASE m # n
    <3>1. Plain(m) \in Conns \ conns /\ Tls(m) \in Conns \ conns
      BY <1>7, <2>3
    <3>2. Connecting(m).at = "banner" => Connecting(m)' = Connecting(m)
      <4>1. Connecting(m).at \in Waits => Connecting(m).on = Plain(m)
        BY Own
      <4>2. QED
        BY <1>1, <2>1, <3>1, <4>1 DEF Connecting, Waits
    <3>3. QED
      BY <1>0, <1>2, <1>3, <2>1, <2>3, <3>1, <3>2 DEF NotOpenOf
  <2>4. QED
    BY <2>2, <2>3
<1>20. Securing'
  <2> SUFFICES ASSUME NEW m \in Sessions PROVE SecuringOf(m)'
    BY DEF Securing
  <2>1. SecuringOf(m)
    BY DEF InStep, Securing
  <2>2. CASE m = n
    <3>1. /\ link'[Plain(n)] = "closed" /\ wire'[Plain(n)] = <<>> /\ asked'[Plain(n)] = <<>>
          /\ link'[Tls(n)] \in {"none", "closed"}
          /\ link'[Tls(n)] = "none" => link[Tls(n)] = "none"
      BY <1>0, <1>2, <1>7
    <3>2. QED
      BY <1>0, <2>1, <2>2, <3>1 DEF SecuringOf
  <2>3. CASE m # n
    BY <1>0, <1>2, <1>3, <1>7, <2>1, <2>3 DEF SecuringOf
  <2>4. QED
    BY <2>2, <2>3
<1>21. OneConnectionAtATime' /\ VerdictIsAboutTheEmail'
  <2>1. ASSUME NEW d \in Conns, NEW i \in 1..Len(asked'[d]) PROVE asked'[d][i][1] = d[1]
    <3>1. asked'[d] = asked[d] \/ asked'[d] = <<>>
      BY <1>2
    <3>2. CASE asked'[d] = asked[d]
      BY <3>2 DEF InStep, OneConnectionAtATime
    <3>3. CASE asked'[d] = <<>>
      BY <3>3
    <3>4. QED
      BY <3>1, <3>2, <3>3
  <2>2. QED
    BY <1>0, <2>1 DEF InStep, OneConnectionAtATime, VerdictIsAboutTheEmail
<1>22. QED
  BY <1>11, <1>12, <1>13, <1>14, <1>15, <1>16, <1>17, <1>18, <1>19, <1>20, <1>21
     DEF InStep

\* The QUIT of a lost secure socket is written to a socket that is lost, too.
LEMMA LostFacts ==
  ASSUME InStep, NEW n \in Sessions, NEW c \in Ours(n), NEW conns \in SUBSET Conns,
         c = Tls(n) => link[c] # "none" /\ Ours(n) \subseteq conns
  PROVE  Lost(c, conns) = [d \in Conns |-> IF d \in conns THEN <<>> ELSE asked[d]]
<1> DEFINE q == <<c[1], "connect", "quit">>
<1>1. asked \in [Conns -> Seq(Cmds)]
  BY DEF InStep, Types
<1>2. CASE c = Tls(n)
  <2>1. sock \in conns
    BY <1>2, Own
  <2>2. \A d \in Conns \ conns : Write(q)[d] = asked[d]
    BY <1>1, <2>1 DEF Write
  <2> HIDE DEF q
  <2>3. \A d \in Conns : (IF d \in conns THEN <<>>
                          ELSE IF c[2] = "tls" THEN Write(q)[d] ELSE asked[d])
                         = IF d \in conns THEN <<>> ELSE asked[d]
    BY <2>2
  <2>4. Lost(c, conns) = [d \in Conns |-> IF d \in conns THEN <<>>
                            ELSE IF c[2] = "tls" THEN Write(q)[d] ELSE asked[d]]
    BY DEF Lost, q
  <2>5. QED
    BY <2>3, <2>4
<1>3. CASE c = Plain(n)
  BY <1>3, ConnFacts DEF Lost
<1>4. QED
  BY <1>2, <1>3 DEF Ours

\* The server may drop a connection at any time.
LEMMA DropKeeps ==
  ASSUME InStep, NEW c \in Conns, Drop(c)
  PROVE  InStep'
<1> DEFINE conns == IF c[2] = "tls" THEN {c, Plain(c[1])} ELSE {c}
<1>1. PICK n \in Sessions : c = Plain(n) \/ c = Tls(n)
  BY ConnFacts
<1>2. /\ Quiescent /\ link[c] = "open" /\ wire[c] = <<>>
      /\ c[2] = "plain" => link[Tls(c[1])] = "none"
      /\ link' = [d \in Conns |-> IF d \in conns THEN "closed" ELSE link[d]]
      /\ asked' = Lost(c, conns)
      /\ UNCHANGED <<server, sock, slow, wire, mute, armed, verdict>>
  BY DEF Drop
<1>3. PICK why \in {"close", "reset"} :
        /\ Lose(conns, why)
        /\ IF why = "reset" /\ c[2] = "plain" THEN Settle(c[1], "no_accept")
                                              ELSE UNCHANGED promise
  BY DEF Drop
<1>4. /\ c[1] = n /\ c \in Ours(n)
      /\ c = Plain(n) => conns = {Plain(n)} /\ c[2] = "plain" /\ link[Tls(n)] = "none"
      /\ c = Tls(n) => conns = Ours(n) /\ c[2] = "tls" /\ link[Tls(n)] # "none"
      /\ conns \subseteq Conns
  BY <1>1, <1>2, ConnFacts DEF Ours
<1>5. link[Plain(n)] # "none"
  BY <1>1, <1>2 DEF InStep, InOrder, InOrderOf
<1>6. \A d \in conns : wire[d] = <<>>
  BY <1>1, <1>2, <1>4 DEF InStep, Securing, SecuringOf, Ours
<1>7. wire \in [Conns -> Seq(Parts)]
  BY DEF InStep, Types
<1> HIDE DEF conns
<1>8. wire' = [d \in Conns |-> IF d \in conns THEN <<>> ELSE wire[d]]
  BY <1>2, <1>6, <1>7
<1>9. asked' = [d \in Conns |-> IF d \in conns THEN <<>> ELSE asked[d]]
  BY <1>2, <1>4, LostFacts
<1>10. CloseStep(n, conns, why)
  BY <1>1, <1>2, <1>3, <1>4, <1>5, <1>8, <1>9 DEF CloseStep
<1>11. QED
  BY <1>10, CloseKeeps

\* A connection or a handshake may fail.
LEMMA FailKeeps ==
  ASSUME InStep, NEW c \in Conns, Fail(c)
  PROVE  InStep'
<1> DEFINE conns == {c, Plain(c[1])}
<1>1. PICK n \in Sessions : c = Plain(n) \/ c = Tls(n)
  BY ConnFacts
<1>2. /\ Quiescent /\ link[c] = "opening" /\ Settle(c[1], "no_accept")
      /\ link' = [d \in Conns |-> IF d \in conns THEN "closed" ELSE link[d]]
      /\ asked' = Lost(c, conns)
      /\ wire' = [d \in Conns |-> IF d \in conns THEN <<>> ELSE wire[d]]
      /\ UNCHANGED <<server, sock, slow, mute, armed, verdict>>
  BY DEF Fail
<1>3. PICK why \in {"close", "reset"} : Lose(conns, why)
  BY DEF Fail
<1>4. /\ c[1] = n /\ c \in Ours(n) /\ conns \subseteq Conns
      /\ c = Plain(n) => conns = {Plain(n)}
      /\ c = Tls(n) => conns = Ours(n) /\ link[Tls(n)] # "none"
  BY <1>1, <1>2, ConnFacts DEF Ours
<1>5. link[Plain(n)] # "none"
  BY <1>1, <1>2 DEF InStep, InOrder, InOrderOf
<1>6. /\ c = Plain(n) => link[Tls(n)] = "none"
      /\ Connecting(n).at \notin {"ehlo", "starttls"}
  BY <1>1, <1>2 DEF InStep, NotOpen, NotOpenOf, ConnectPlace, ConnectPlaceOf
<1> HIDE DEF conns
<1>7. asked' = [d \in Conns |-> IF d \in conns THEN <<>> ELSE asked[d]]
  BY <1>2, <1>4, LostFacts
<1>8. CloseStep(n, conns, why)
  BY <1>1, <1>2, <1>3, <1>4, <1>5, <1>6, <1>7 DEF CloseStep
<1>9. QED
  BY <1>8, CloseKeeps

-----------------------------------------------------------------------------
(* Ten seconds of silence *)

\* A QUIT of the timeout listener finds nobody waiting for anything.
LEMMA TimeoutWrites ==
  ASSUME InStep, NEW n \in Sessions, Silent(Tls(n)), Tls(n) \in armed
  PROVE  /\ sock \in Ours(n)
         /\ sock = Plain(n) => link[Plain(n)] # "opening"
         /\ sock = Plain(n) /\ Alive(sock) /\ sock \notin mute =>
              /\ promise[n] = "pending" /\ asked[sock] = <<>>
              /\ \A k \in Tasks : task[k].at \in Waits => task[k].on # sock
<1>1. /\ link[Tls(n)] \in {"opening", "open"} /\ sock \in Ours(n)
      /\ Connecting(n).at \in {"tls", "over"}
  BY Own DEF Silent, Alive, InStep, ConnectPlace, ConnectPlaceOf
<1>2. link[Plain(n)] # "opening"
  BY <1>1 DEF InStep, NotOpen, NotOpenOf
<1>3. ASSUME sock = Plain(n), Alive(sock), sock \notin mute
      PROVE  /\ promise[n] = "pending" /\ asked[sock] = <<>>
             /\ \A k \in Tasks : task[k].at \in Waits => task[k].on # sock
  <2>1. link[Plain(n)] = "open" /\ link[Tls(n)] = "opening"
    BY <1>1, <1>2, <1>3, ConnFacts DEF Alive, InStep, Securing, SecuringOf
  <2>2. promise[n] = "pending" /\ asked[sock] = <<>>
    BY <1>3, <2>1 DEF InStep, Securing, SecuringOf
  <2>3. QED
    BY <1>1, <1>3, <2>2, NobodyWaits DEF Ours, Waits
<1>4. QED
  BY <1>1, <1>2, <1>3

\* A timeout leaves a mute server behind, unless late answers are possible.
LEMMA TimeoutKeeps ==
  ASSUME InStep, ~LateAnswers, NEW c \in Conns, Timeout(c)
  PROVE  InStep'
<1> DEFINE n == c[1]
           q == <<n, "connect", "quit">>
           woken(k) == [task[k] EXCEPT !.heard = Event("timeout"), !.go = TRUE]
<1>0. /\ UNCHANGED <<server, sock, slow, link, wire, verdict>>
      /\ Quiescent /\ Silent(c) /\ mute' = mute \union {c}
      /\ Alive(c) /\ wire[c] = <<>> /\ armed' = armed \ {c}
      /\ \A k \in Tasks : OnCommand(k, c) => task[k].heard = Nothing
  BY DEF Timeout, Silent
<1>1. /\ n \in Sessions /\ c \in Ours(n) /\ (c = Plain(n) \/ c = Tls(n))
      /\ c[2] = "tls" <=> c = Tls(n)
      /\ c[2] = "plain" <=> c = Plain(n)
      /\ Plain(n) \in Conns /\ Tls(n) \in Conns /\ Plain(n) # Tls(n)
  <2>1. PICK m \in Sessions : c = Plain(m) \/ c = Tls(m)
    BY ConnFacts
  <2>2. n = m
    BY <2>1, ConnFacts
  <2>3. QED
    BY <2>1, <2>2, ConnFacts DEF Ours
<1> HIDE DEF n
<1>2. /\ link[Plain(n)] # "none" /\ link[c] \in {"opening", "open"}
      /\ c = Tls(n) => link[Tls(n)] # "none"
      /\ c = Plain(n) => link[Tls(n)] \in {"none", "opening"}
  <2>1. link[c] \in {"opening", "open"}
    BY <1>0 DEF Alive
  <2>2. link[Plain(n)] # "none"
    BY <1>1, <2>1 DEF InStep, InOrder, InOrderOf
  <2>3. c = Plain(n) => link[Tls(n)] \in {"none", "opening"}
    BY <1>0, <1>1 DEF Silent, n
  <2>4. QED
    BY <2>1, <2>2, <2>3
<1>3. /\ promise' \in [Sessions -> Reasons \union {"pending", "ready"}]
      /\ \A m \in Sessions : m # n \/ promise[m] # "pending" => promise'[m] = promise[m]
      /\ c \in armed => promise'[n] # "pending"
      /\ c \notin armed => promise' = promise
  <2>1. CASE c \in armed
    <3>1. Settle(n, "timeout")
      BY <2>1 DEF Timeout, n
    <3>2. QED
      BY <1>1, <2>1, <3>1, Settles DEF Reasons
  <2>2. CASE c \notin armed
    BY <2>2 DEF Timeout, InStep, Types
  <2>3. QED
    BY <2>1, <2>2
<1>4. /\ task' \in [Tasks -> Coroutine]
      /\ \A k \in Tasks : task'[k].at = task[k].at /\ task'[k].on = task[k].on
      /\ \A k \in Tasks : ~OnCommand(k, c) => task'[k] = task[k]
      /\ \A k \in Tasks : OnCommand(k, c) =>
           task'[k].heard = Event("timeout") /\ task'[k].go
  <2>1. ASSUME NEW k \in Tasks
        PROVE  /\ woken(k) \in Coroutine
               /\ woken(k).at = task[k].at /\ woken(k).on = task[k].on
               /\ woken(k).heard = Event("timeout") /\ woken(k).go
    <3>1. task[k] \in Coroutine
      BY DEF InStep, Types
    <3>2. QED
      BY <3>1 DEF Coroutine, EventRecords
  <2>2. task \in [Tasks -> Coroutine]
    BY DEF InStep, Types
  <2>3. task' = [k \in Tasks |-> IF OnCommand(k, c) THEN woken(k) ELSE task[k]]
    BY DEF Timeout
  <2> HIDE DEF woken
  <2>4. \A k \in Tasks : task'[k] = IF OnCommand(k, c) THEN woken(k) ELSE task[k]
    BY <2>3
  <2>5. task' \in [Tasks -> Coroutine]
    BY <2>1, <2>2, <2>3
  <2>6. QED
    BY <2>1, <2>4, <2>5
<1>5. /\ asked' \in [Conns -> Seq(Cmds)] /\ asked \in [Conns -> Seq(Cmds)]
      /\ q \in Cmds /\ q[1] = n /\ q[3] = "quit"
      /\ \A d \in Conns :
           \/ asked'[d] = asked[d]
           \/ /\ d = sock /\ Alive(sock) /\ asked'[d] = Append(asked[d], q)
              /\ c = Tls(n) /\ c \in armed
  <2>1. asked \in [Conns -> Seq(Cmds)]
    BY DEF InStep, Types
  <2>2. q \in Cmds /\ q[1] = n /\ q[3] = "quit"
    BY <1>1 DEF Cmds, Methods, Verbs
  <2>3. CASE c \in armed /\ c = Tls(n) /\ Alive(sock)
    <3>1. asked' = [asked EXCEPT ![sock] = Append(@, q)] /\ sock \in Conns
      BY <1>1, <2>3 DEF Timeout, Write, Alive, n
    <3> HIDE DEF q
    <3>2. QED
      BY <2>1, <2>2, <2>3, <3>1
  <2>4. CASE ~(c \in armed /\ c = Tls(n) /\ Alive(sock))
    <3>1. asked' = asked
      BY <1>1, <2>4 DEF Timeout, Write
    <3>2. QED
      BY <2>1, <2>2, <3>1
  <2>5. QED
    BY <2>3, <2>4
<1> HIDE DEF q
<1>6. \A d \in Conns : asked'[d] # asked[d] =>
        /\ d = sock /\ d \in Ours(n) /\ link[Tls(n)] # "none" /\ c = Tls(n)
        /\ c \in armed /\ Alive(d) /\ link[d] = "open"
        /\ asked'[d] = Append(asked[d], q)
        /\ d \in mute' \/
             /\ d = Plain(n) /\ promise[n] = "pending" /\ asked[d] = <<>>
             /\ \A k \in Tasks : task[k].at \in Waits => task[k].on # d
  <2> SUFFICES ASSUME NEW d \in Conns, asked'[d] # asked[d]
               PROVE /\ d = sock /\ d \in Ours(n) /\ link[Tls(n)] # "none" /\ c = Tls(n)
                     /\ c \in armed /\ Alive(d) /\ link[d] = "open"
                     /\ asked'[d] = Append(asked[d], q)
                     /\ d \in mute' \/
                          /\ d = Plain(n) /\ promise[n] = "pending" /\ asked[d] = <<>>
                          /\ \A k \in Tasks : task[k].at \in Waits => task[k].on # d
    OBVIOUS
  <2>1. /\ d = sock /\ Alive(sock) /\ asked'[d] = Append(asked[d], q)
        /\ c = Tls(n) /\ c \in armed
    BY <1>5
  <2>2. /\ sock \in Ours(n)
        /\ sock = Plain(n) => link[Plain(n)] # "opening"
        /\ sock = Plain(n) /\ Alive(sock) /\ sock \notin mute =>
              /\ promise[n] = "pending" /\ asked[sock] = <<>>
              /\ \A k \in Tasks : task[k].at \in Waits => task[k].on # sock
    BY <1>0, <1>1, <2>1, TimeoutWrites
  <2>3. link[d] = "open"
    BY <1>1, <2>1, <2>2 DEF Alive, Ours, InStep, InOrder, InOrderOf
  <2>4. CASE sock = Tls(n)
    BY <1>0, <1>2, <2>1, <2>2, <2>3, <2>4
  <2>5. CASE sock = Plain(n)
    BY <1>0, <1>2, <2>1, <2>2, <2>3, <2>5
  <2>6. QED
    BY <2>2, <2>4, <2>5 DEF Ours
<1>7. \A m \in Sessions :
        /\ Connecting(m)'.at = Connecting(m).at /\ Connecting(m)'.on = Connecting(m).on
        /\ Verifying(m)'.at = Verifying(m).at /\ Verifying(m)'.on = Verifying(m).on
        /\ Plain(m) \in Conns /\ Tls(m) \in Conns
        /\ m # n => Plain(m) # c /\ Tls(m) # c
        /\ Plain(m) # Tls(n)
        /\ GoesOn(m) => GoesOn(m)'
  <2>1. \A m \in Sessions : GoesOn(m) => GoesOn(m)'
    BY <1>0, <1>3 DEF GoesOn
  <2>2. \A m \in Sessions :
        /\ Connecting(m)'.at = Connecting(m).at /\ Connecting(m)'.on = Connecting(m).on
        /\ Verifying(m)'.at = Verifying(m).at /\ Verifying(m)'.on = Verifying(m).on
    BY <1>4, TaskFacts DEF Connecting, Verifying
  <2>3. QED
    BY <1>1, <2>1, <2>2, ConnFacts
<1>8. \A k \in Tasks : Cmd(k)' = Cmd(k)
  BY <1>4 DEF Cmd
<1>11. Types'
  BY <1>0, <1>3, <1>4, <1>5 DEF InStep, Types
<1>12. InOrder'
  <2> SUFFICES ASSUME NEW m \in Sessions PROVE InOrderOf(m)'
    BY DEF InOrder
  <2>1. InOrderOf(m) /\ (link[Plain(m)] = "none" => promise'[m] = promise[m])
    BY <1>2, <1>3 DEF InStep, InOrder
  <2>2. QED
    BY <1>0, <1>7, <2>1 DEF InOrderOf
<1>13. ConnectPlace'
  <2> SUFFICES ASSUME NEW m \in Sessions PROVE ConnectPlaceOf(m)'
    BY DEF ConnectPlace
  <2>1. /\ ConnectPlaceOf(m) /\ <<m, "connect">> \in Tasks
    BY TaskFacts DEF InStep, ConnectPlace
  <2>2. CASE OnCommand(<<m, "connect">>, c)
    <3>1. /\ Connecting(m)'.go /\ Connecting(m)'.heard.cmd = NoCmd
          /\ Connecting(m).at # "banner" /\ Connecting(m).at \in Waits
      BY <1>4, <2>1, <2>2 DEF Connecting, Event, OnCommand, Waiting
    <3>2. QED
      BY <1>0, <1>7, <2>1, <3>1 DEF ConnectPlaceOf
  <2>3. CASE ~OnCommand(<<m, "connect">>, c)
    <3>1. Connecting(m)' = Connecting(m) /\ Connecting(m).go = FALSE
      BY <1>0, <1>4, <2>1, <2>3, Rest DEF Connecting
    <3>2. Connecting(m).at \in Waits =>
            /\ Connecting(m).on = Plain(m) /\ link[Tls(m)] = "none"
            /\ c # Tls(m)
      BY <1>2, <1>7, Own
    <3>3. Connecting(m).at \in {"ehlo", "starttls"} => m # n
      <4>1. ASSUME Connecting(m).at \in {"ehlo", "starttls"} PROVE c # Plain(m)
        BY <2>3, <3>1, <3>2, <4>1 DEF OnCommand, Waiting, Connecting, Waits
      <4>2. QED
        BY <1>1, <3>2, <4>1 DEF Waits
    <3>4. Connecting(m).at = "banner" /\ m = n => Plain(m) \in mute' /\ wire'[Plain(m)] = <<>>
      BY <1>0, <1>1, <3>2 DEF Waits
    <3>5. QED
      BY <1>0, <1>3, <2>1, <3>1, <3>3, <3>4 DEF ConnectPlaceOf
  <2>4. QED
    BY <2>2, <2>3
<1>14. VerifyPlace'
  <2> SUFFICES ASSUME NEW m \in Sessions PROVE VerifyPlaceOf(m)'
    BY DEF VerifyPlace
  <2>1. VerifyPlaceOf(m) /\ <<m, "verify">> \in Tasks
    BY TaskFacts DEF InStep, VerifyPlace
  <2>2. Verifying(m)'.go => Verifying(m).at \in Waits
    <3>1. CASE OnCommand(<<m, "verify">>, c)
      BY <3>1 DEF OnCommand, Waiting, Verifying
    <3>2. CASE ~OnCommand(<<m, "verify">>, c)
      BY <1>4, <2>1, <3>2 DEF Verifying, VerifyPlaceOf
    <3>3. QED
      BY <3>1, <3>2
  <2>3. promise'[m] = "pending" => promise[m] = "pending"
    BY <1>3
  <2>4. QED
    BY <1>0, <1>7, <2>1, <2>2, <2>3 DEF VerifyPlaceOf
<1>15. HeardIsOwn'
  <2> SUFFICES ASSUME NEW k \in Tasks, task'[k].at \in Waits PROVE HeardIsOwnOf(k)'
    BY DEF HeardIsOwn
  <2>1. CASE OnCommand(k, c)
    <3>1. /\ task'[k].heard = Event("timeout") /\ task'[k].go /\ task'[k].on = c
          /\ task'[k].at # "banner" /\ c \in mute'
      BY <1>0, <1>4, <2>1 DEF OnCommand, Waiting
    <3>2. /\ Event("timeout").cmd = NoCmd /\ Event("timeout") # Nothing
          /\ Event("timeout") # Event("closed")
      BY DEF Event, Nothing
    <3>3. QED
      BY <1>8, <3>1, <3>2 DEF HeardIsOwnOf, Alive
  <2>2. CASE ~OnCommand(k, c)
    <3>1. HeardIsOwnOf(k) /\ task'[k] = task[k] /\ task[k].go = FALSE
      BY <1>0, <1>4, <2>2, Rest DEF InStep, HeardIsOwn
    <3>2. QED
      BY <1>8, <3>1 DEF HeardIsOwnOf, Alive
  <2>3. QED
    BY <2>1, <2>2
<1>16. OneReply'
  <2> SUFFICES ASSUME NEW k \in Tasks, task'[k].at \in Waits PROVE OneReplyOf(k)'
    BY DEF OneReply
  <2>1. /\ task[k].at \in Waits /\ OneReplyOf(k) /\ task[k].go = FALSE
        /\ task[k].on \in Conns /\ task'[k].on = task[k].on
    BY <1>0, <1>4, Rest
  <2>2. CASE OnCommand(k, c)
    <3>1. task'[k].go /\ task'[k].on = c /\ wire'[c] = <<>> /\ c \in mute'
      BY <1>0, <1>4, <2>2 DEF OnCommand, Waiting
    <3>2. QED
      BY <3>1 DEF OneReplyOf
  <2>3. CASE task[k].on = c /\ ~OnCommand(k, c)
    <3>1. task[k].at = "banner" /\ task'[k] = task[k]
      BY <1>4, <2>1, <2>3 DEF OnCommand, Waiting
    <3>2. task[k].heard = Nothing
      BY <2>1, <3>1 DEF InStep, HeardIsOwn, HeardIsOwnOf
    <3>3. QED
      BY <1>0, <2>1, <2>3, <3>1, <3>2 DEF OneReplyOf
  <2>4. CASE task[k].on # c
    <3>1. task'[k] = task[k]
      BY <1>4, <2>4 DEF OnCommand, Waiting
    <3>2. CASE asked'[task[k].on] = asked[task[k].on]
      BY <1>0, <1>8, <2>1, <2>4, <3>1, <3>2 DEF OneReplyOf
    <3>3. CASE asked'[task[k].on] # asked[task[k].on]
      <4>1. task[k].on \in mute' /\ task[k].on \in mute
        BY <1>0, <1>6, <2>1, <2>4, <3>3
      <4>2. QED
        BY <1>0, <2>1, <3>1, <4>1 DEF OneReplyOf
    <3>4. QED
      BY <3>2, <3>3
  <2>5. QED
    BY <2>2, <2>3, <2>4
<1>17. OneCommand'
  <2> SUFFICES ASSUME NEW d \in Conns, d \notin mute' PROVE OneCommandOf(d)'
    BY DEF OneCommand
  <2>1. d # c /\ OneCommandOf(d)
    BY <1>0 DEF InStep, OneCommand
  <2>2. \A k \in Tasks : Waiting(k, d)' <=> Waiting(k, d)
    BY <1>4, <2>1 DEF Waiting, OnCommand
  <2>3. CASE asked'[d] = asked[d]
    BY <1>0, <1>8, <2>1, <2>2, <2>3 DEF OneCommandOf
  <2>4. CASE asked'[d] # asked[d]
    <3>1. /\ asked[d] = <<>> /\ asked'[d] = Append(asked[d], q)
          /\ \A k \in Tasks : ~Waiting(k, d)
      BY <1>6, <2>4 DEF Waiting
    <3>2. asked'[d] = <<q>>
      BY <3>1
    <3>3. QED
      BY <1>5, <2>2, <3>1, <3>2 DEF OneCommandOf, Quits
  <2>5. QED
    BY <2>3, <2>4
<1>18. ReadyToVerify'
  <2> SUFFICES ASSUME NEW m \in Sessions, promise'[m] # "pending",
                      Verifying(m)'.at = "off", verdict[m] = Undecided
               PROVE  ReadyToVerifyOf(m)'
    BY <1>0 DEF ReadyToVerify, ReadyToVerifyOf
  <2>1. Verifying(m).at = "off"
    BY <1>7
  <2>2. promise[m] = "pending" /\ m = n
    BY <1>0, <1>3, <2>1, Rest
  <2>3. sock \in Ours(n) /\ (sock = Tls(n) => c = Tls(n))
    BY <1>1, <1>2, <2>2 DEF InStep, InOrder, InOrderOf
  <2>4. CASE sock = c
    BY <1>0, <2>4 DEF ReadyToVerifyOf
  <2>5. CASE sock # c
    <3>1. sock = Plain(n) /\ link[Tls(n)] # "none"
      BY <1>1, <1>2, <2>3, <2>5 DEF Ours
    <3>2. wire[Plain(n)] = <<>>
      BY <1>1, <3>1 DEF InStep, Securing, SecuringOf
    <3>3. QED
      BY <1>0, <2>2, <3>1, <3>2 DEF ReadyToVerifyOf
  <2>6. QED
    BY <2>4, <2>5
<1>19. NotOpen'
  <2> SUFFICES ASSUME NEW m \in Sessions PROVE NotOpenOf(m)'
    BY DEF NotOpen
  <2>1. /\ NotOpenOf(m) /\ <<m, "connect">> \in Tasks
        /\ Plain(m) \in Conns /\ Tls(m) \in Conns
    BY <1>7, TaskFacts DEF InStep, NotOpen
  <2>2. \A d \in Conns : link[d] # "open" => asked'[d] = asked[d]
    BY <1>6
  <2>3. Connecting(m).at = "banner" => Connecting(m)' = Connecting(m)
    BY <1>4, <2>1 DEF Connecting, OnCommand
  <2>4. link[Plain(m)] = "opening" =>
          promise'[m] = promise[m] \/ Plain(m) \in mute'
    <3>1. CASE c = Plain(m)
      BY <1>0, <3>1
    <3>2. CASE c # Plain(m)
      <4>1. link[Plain(m)] = "opening" => link[Tls(m)] = "none"
        BY <2>1 DEF NotOpenOf, InStep, ConnectPlace, ConnectPlaceOf
      <4>2. QED
        BY <1>1, <1>2, <1>3, <3>2, <4>1
    <3>3. QED
      BY <3>1, <3>2
  <2>5. QED
    BY <1>0, <2>1, <2>2, <2>3, <2>4 DEF NotOpenOf
<1>20. Securing'
  <2> SUFFICES ASSUME NEW m \in Sessions PROVE SecuringOf(m)'
    BY DEF Securing
  <2>1. SecuringOf(m) /\ Plain(m) \in Conns /\ Plain(m) # Tls(m)
    BY <1>7, ConnFacts DEF InStep, Securing
  <2>2. CASE m # n
    <3>1. asked'[Plain(m)] = asked[Plain(m)]
      BY <1>1, <1>6, <1>7, <2>1, <2>2, ConnFacts DEF Ours
    <3>2. QED
      BY <1>0, <1>3, <1>7, <2>1, <2>2, <3>1 DEF SecuringOf
  <2>3. CASE m = n /\ c = Plain(n)
    <3>1. asked'[Plain(m)] = asked[Plain(m)]
      BY <1>1, <1>6, <2>1, <2>3
    <3>2. QED
      BY <1>0, <1>2, <2>1, <2>3, <3>1 DEF SecuringOf
  <2>4. CASE m = n /\ c = Tls(n)
    <3>1. link[Tls(n)] = "open" => asked'[Plain(n)] = asked[Plain(n)]
      BY <1>1, <1>6, <2>1, <2>4 DEF SecuringOf
    <3>2. promise'[n] = "pending" =>
            asked'[Plain(n)] = asked[Plain(n)] /\ promise[n] = "pending"
      BY <1>1, <1>3, <1>6
    <3>3. promise'[n] # promise[n] => promise'[n] # "pending"
      BY <1>3
    <3>4. QED
      BY <1>0, <1>2, <2>1, <2>4, <3>1, <3>2, <3>3 DEF SecuringOf
  <2>5. QED
    BY <1>1, <2>2, <2>3, <2>4
<1>21. OneConnectionAtATime' /\ VerdictIsAboutTheEmail'
  <2>1. ASSUME NEW d \in Conns, NEW i \in 1..Len(asked'[d]) PROVE asked'[d][i][1] = d[1]
    <3>1. CASE asked'[d] = asked[d]
      BY <3>1 DEF InStep, OneConnectionAtATime
    <3>2. CASE asked'[d] # asked[d]
      <4>1. d[1] = n /\ asked'[d] = Append(asked[d], q)
        BY <1>1, <1>6, <3>2, ConnFacts DEF Ours
      <4>2. asked'[d][i] = q \/ (i \in 1..Len(asked[d]) /\ asked'[d][i] = asked[d][i])
        BY <1>5, <4>1
      <4>3. QED
        BY <1>5, <4>1, <4>2 DEF InStep, OneConnectionAtATime
    <3>3. QED
      BY <3>1, <3>2
  <2>2. QED
    BY <1>0, <2>1 DEF InStep, OneConnectionAtATime, VerdictIsAboutTheEmail
<1>22. QED
  BY <1>11, <1>12, <1>13, <1>14, <1>15, <1>16, <1>17, <1>18, <1>19, <1>20, <1>21
     DEF InStep

-----------------------------------------------------------------------------
(* Sessions and connections begin *)

\* The secure socket takes over with nothing under way.
LEMMA SecuredKeeps ==
  ASSUME InStep, NEW n \in Sessions, Secured(n)
  PROVE  InStep'
<1> DEFINE k == <<n, "connect">>
           over(j) == [task[j] EXCEPT !.at = "over"]
<1>0. /\ UNCHANGED <<server, slow, asked, wire, mute, verdict>>
      /\ Quiescent /\ link[Tls(n)] = "opening" /\ link[Plain(n)] = "open"
      /\ Plain(n) \notin mute /\ Tls(n) \notin mute
      /\ sock' = Tls(n) /\ armed' = armed \ {Plain(n)}
  BY DEF Secured
<1>1. /\ promise[n] = "pending" /\ asked[Plain(n)] = <<>> /\ wire[Plain(n)] = <<>>
      /\ asked[Tls(n)] = <<>> /\ wire[Tls(n)] = <<>>
      /\ Connecting(n).at \in {"tls", "over"} /\ Connecting(n).at \notin Waits
      /\ Verifying(n).at = "off" /\ verdict[n] = Undecided
  BY <1>0 DEF InStep, Securing, SecuringOf, NotOpen, NotOpenOf, ConnectPlace,
              ConnectPlaceOf, VerifyPlace, VerifyPlaceOf, Waits
<1>2. sock = Plain(n)
  BY <1>0, <1>1 DEF InStep, InOrder, InOrderOf, Ours
<1>3. /\ promise' \in [Sessions -> Reasons \union {"pending", "ready"}]
      /\ promise'[n] = "ready"
      /\ \A m \in Sessions : m # n => promise'[m] = promise[m]
  <2>1. Settle(n, "ready")
    BY DEF Secured
  <2>2. QED
    BY <1>1, <2>1, Settles
<1>4. /\ link' \in [Conns -> Links] /\ link'[Tls(n)] = "open"
      /\ \A d \in Conns : d # Tls(n) => link'[d] = link[d]
  <2>1. link' = [link EXCEPT ![Tls(n)] = "open"]
    BY DEF Secured
  <2>2. QED
    BY <2>1, ConnFacts DEF InStep, Types, Links
<1>5. \A j \in Tasks, d \in Ours(n) : ~Waiting(j, d)
  BY <1>1, NobodyWaits DEF Waiting
<1>6. /\ task' \in [Tasks -> Coroutine] /\ k \in Tasks
      /\ \A j \in Tasks : j # k => task'[j] = task[j]
      /\ task'[k].at = "over" /\ task[k].at \notin Waits /\ task'[k].go = FALSE
  <2>1. k \in Tasks
    BY TaskFacts
  <2>2. \A j \in Tasks : ~Waiting(j, Plain(n))
    BY <1>5 DEF Ours
  <2>3. task' = [j \in Tasks |->
                  IF j = k THEN over(j)
                  ELSE IF Waiting(j, Plain(n)) THEN [task[j] EXCEPT !.on = <<>>]
                  ELSE task[j]]
    BY DEF Secured
  <2>4. /\ task[k] \in Coroutine /\ over(k) \in Coroutine /\ over(k).at = "over"
        /\ over(k).go = FALSE
    <3>1. task[k] \in Coroutine /\ task[k].go = FALSE
      BY <1>0, <2>1, Rest DEF InStep, Types
    <3>2. QED
      BY <3>1 DEF Coroutine, Places
  <2>5. task \in [Tasks -> Coroutine]
    BY DEF InStep, Types
  <2> HIDE DEF over
  <2>6. \A j \in Tasks : task'[j] = IF j = k THEN over(j) ELSE task[j]
    BY <2>2, <2>3
  <2>7. \A j \in Tasks : task'[j] \in Coroutine
    BY <2>4, <2>5, <2>6
  <2>8. task' = [j \in Tasks |-> task'[j]]
    BY <2>3
  <2>9. QED
    BY <1>1, <2>1, <2>4, <2>6, <2>7, <2>8 DEF Connecting
<1>7. /\ \A m \in Sessions : Verifying(m)' = Verifying(m)
      /\ \A m \in Sessions : m # n => Connecting(m)' = Connecting(m)
      /\ Connecting(n)'.at = "over" /\ Connecting(n)'.go = FALSE
  BY <1>6, TaskFacts DEF Connecting, Verifying
<1>8. \A m \in Sessions :
        /\ Plain(m) \in Conns /\ Tls(m) \in Conns
        /\ link'[Plain(m)] = link[Plain(m)]
        /\ link'[Tls(m)] = "none" <=> link[Tls(m)] = "none"
        /\ m # n => /\ link'[Tls(m)] = link[Tls(m)]
                    /\ sock \notin Ours(m) /\ sock' \notin Ours(m)
                    /\ GoesOn(m)' <=> GoesOn(m)
        /\ Tls(m) \in armed' <=> Tls(m) \in armed
  <2>1. \A m \in Sessions : m # n => sock \notin Ours(m) /\ sock' \notin Ours(m)
    BY <1>0, <1>2, ConnFacts DEF Ours
  <2>2. \A m \in Sessions : m # n => (GoesOn(m)' <=> GoesOn(m))
    BY <1>0, <1>3 DEF GoesOn
  <2>3. QED
    BY <1>0, <1>4, <2>1, <2>2, ConnFacts
<1>9. \A j \in Tasks :
        /\ task'[j].at \in Waits => task'[j] = task[j] /\ task[j].go = FALSE
        /\ \A d \in Conns : Waiting(j, d)' <=> Waiting(j, d)
  <2>1. task'[k].at \notin Waits
    BY <1>6 DEF Waits
  <2>2. \A j \in Tasks : task[j].go = FALSE
    BY <1>0, Rest
  <2>3. QED
    BY <1>6, <2>1, <2>2 DEF Waiting
<1>11. Types'
  BY <1>0, <1>3, <1>4, <1>6, ConnFacts DEF InStep, Types
<1>12. InOrder'
  <2> SUFFICES ASSUME NEW m \in Sessions PROVE InOrderOf(m)'
    BY DEF InOrder
  <2>1. InOrderOf(m)
    BY DEF InStep, InOrder
  <2>2. CASE m = n
    BY <1>0, <1>4, <1>8, <2>1, <2>2, ConnFacts DEF InOrderOf, Ours
  <2>3. CASE m # n
    <3>1. sock' # Plain(m) /\ sock' # Tls(m)
      BY <1>8, <2>3 DEF Ours
    <3>2. QED
      BY <1>0, <1>3, <1>7, <1>8, <2>1, <2>3, <3>1 DEF InOrderOf
  <2>4. QED
    BY <2>2, <2>3
<1>13. ConnectPlace'
  <2> SUFFICES ASSUME NEW m \in Sessions PROVE ConnectPlaceOf(m)'
    BY DEF ConnectPlace
  <2>1. CASE m = n
    BY <1>7, <2>1 DEF ConnectPlaceOf, Waits
  <2>2. CASE m # n
    <3>1. ConnectPlaceOf(m) /\ sock # Plain(m)
      BY <1>8, <2>2 DEF InStep, ConnectPlace, Ours
    <3>2. QED
      BY <1>0, <1>3, <1>7, <1>8, <2>2, <3>1 DEF ConnectPlaceOf
  <2>3. QED
    BY <2>1, <2>2
<1>14. VerifyPlace'
  <2> SUFFICES ASSUME NEW m \in Sessions PROVE VerifyPlaceOf(m)'
    BY DEF VerifyPlace
  <2>1. VerifyPlaceOf(m)
    BY DEF InStep, VerifyPlace
  <2>2. CASE m = n
    BY <1>1, <1>3, <1>7, <2>1, <2>2 DEF VerifyPlaceOf, Waits
  <2>3. CASE m # n
    BY <1>0, <1>3, <1>7, <1>8, <2>1, <2>3 DEF VerifyPlaceOf
  <2>4. QED
    BY <2>2, <2>3
<1>15. HeardIsOwn'
  <2> SUFFICES ASSUME NEW j \in Tasks, task'[j].at \in Waits PROVE HeardIsOwnOf(j)'
    BY DEF HeardIsOwn
  <2>1. task'[j] = task[j] /\ task[j].go = FALSE /\ HeardIsOwnOf(j)
    BY <1>9 DEF InStep, HeardIsOwn
  <2>2. QED
    BY <2>1 DEF HeardIsOwnOf, Cmd, Alive
<1>16. OneReply'
  <2> SUFFICES ASSUME NEW j \in Tasks, task'[j].at \in Waits PROVE OneReplyOf(j)'
    BY DEF OneReply
  <2>1. task'[j] = task[j] /\ task[j].go = FALSE /\ OneReplyOf(j)
    BY <1>9 DEF InStep, OneReply
  <2>2. QED
    BY <1>0, <1>8, <2>1 DEF OneReplyOf, Cmd
<1>17. OneCommand'
  <2> SUFFICES ASSUME NEW d \in Conns, d \notin mute PROVE OneCommandOf(d)'
    BY <1>0 DEF OneCommand
  <2>1. OneCommandOf(d)
    BY DEF InStep, OneCommand
  <2>2. \A j \in Tasks : Waiting(j, d)' => Cmd(j)' = Cmd(j)
    BY <1>9 DEF Waiting, Cmd
  <2>3. QED
    BY <1>0, <1>8, <1>9, <2>1, <2>2 DEF OneCommandOf
<1>18. ReadyToVerify'
  <2> SUFFICES ASSUME NEW m \in Sessions, promise'[m] # "pending",
                      Verifying(m)'.at = "off", verdict[m] = Undecided
               PROVE  ReadyToVerifyOf(m)'
    BY <1>0 DEF ReadyToVerify, ReadyToVerifyOf
  <2>1. m = n
    BY <1>0, <1>3, <1>7, Rest
  <2>2. QED
    BY <1>0, <1>1, <2>1 DEF ReadyToVerifyOf
<1>19. NotOpen'
  <2> SUFFICES ASSUME NEW m \in Sessions PROVE NotOpenOf(m)'
    BY DEF NotOpen
  <2>1. NotOpenOf(m)
    BY DEF InStep, NotOpen
  <2>2. CASE m = n
    BY <1>0, <1>4, <1>8, <2>1, <2>2 DEF NotOpenOf
  <2>3. CASE m # n
    BY <1>0, <1>3, <1>7, <1>8, <2>1, <2>3 DEF NotOpenOf
  <2>4. QED
    BY <2>2, <2>3
<1>20. Securing'
  <2> SUFFICES ASSUME NEW m \in Sessions PROVE SecuringOf(m)'
    BY DEF Securing
  <2>1. SecuringOf(m)
    BY DEF InStep, Securing
  <2>2. CASE m = n
    BY <1>0, <1>1, <1>3, <1>4, <2>1, <2>2 DEF SecuringOf
  <2>3. CASE m # n
    <3>1. link[Tls(m)] # "open"
      BY <1>8, <2>1, <2>3 DEF SecuringOf, Ours
    <3>2. QED
      BY <1>0, <1>3, <1>8, <2>1, <2>3, <3>1 DEF SecuringOf
  <2>4. QED
    BY <2>2, <2>3
<1>21. OneConnectionAtATime' /\ VerdictIsAboutTheEmail'
  BY <1>0 DEF InStep, OneConnectionAtATime, VerdictIsAboutTheEmail
<1>22. QED
  BY <1>11, <1>12, <1>13, <1>14, <1>15, <1>16, <1>17, <1>18, <1>19, <1>20, <1>21
     DEF InStep

\* The next session begins on a connection nobody else writes to.
LEMMA ConnectBegins ==
  ASSUME InStep, ~ReusedAfterTls, NEW n \in Sessions, Connect(n)
  PROVE  InStep'
<1> DEFINE k == <<n, "connect">>
           fresh == [at |-> "banner", on |-> Plain(n), heard |-> Nothing, go |-> FALSE]
<1>0. /\ UNCHANGED <<server, slow, asked, wire, mute, promise, verdict>>
      /\ Quiescent /\ link[Plain(n)] = "none"
      /\ \A m \in Sessions : m < n => verdict[m] # Undecided
      /\ \A m \in Sessions : link[Tls(m)] = "none"
      /\ sock' = Plain(n) /\ armed' = armed \union {Plain(n)}
      /\ SetTask(k, fresh)
  BY DEF Connect
<1>1. /\ promise[n] = "pending" /\ asked[Plain(n)] = <<>> /\ wire[Plain(n)] = <<>>
      /\ Connecting(n).at = "off" /\ Verifying(n).at = "off" /\ verdict[n] = Undecided
  BY <1>0 DEF InStep, InOrder, InOrderOf, NotOpen, NotOpenOf, VerifyPlace, VerifyPlaceOf
<1>2. ASSUME NEW m \in Sessions, m # n, link[Plain(m)] # "none"
      PROVE  verdict[m] # Undecided
  <2>1. m \in Nat /\ n \in Nat
    BY SessionsAssumption
  <2>2. CASE m < n
    BY <1>0, <2>2
  <2>3. CASE n < m
    BY <1>1, <1>2, <2>3 DEF InStep, InOrder, InOrderOf
  <2>4. QED
    BY <1>2, <2>1, <2>2, <2>3
<1>3. /\ link' \in [Conns -> Links] /\ link'[Plain(n)] = "opening"
      /\ \A d \in Conns : d # Plain(n) => link'[d] = link[d]
  <2>1. link' = [link EXCEPT ![Plain(n)] = "opening"]
    BY DEF Connect
  <2>2. QED
    BY <2>1, ConnFacts DEF InStep, Types, Links
<1>4. /\ task' \in [Tasks -> Coroutine] /\ k \in Tasks
      /\ \A j \in Tasks : j # k => task'[j] = task[j]
      /\ task'[k] = fresh
      /\ \A m \in Sessions : Verifying(m)' = Verifying(m)
      /\ \A m \in Sessions : m # n => Connecting(m)' = Connecting(m)
      /\ Connecting(n)' = fresh
  <2>1. fresh \in Coroutine
    BY ConnFacts DEF Coroutine, Places, Waits, EventRecords, Nothing
  <2>2. "connect" \in Methods /\ k \in Tasks /\ SetTask(<<n, "connect">>, fresh)
    BY <1>0, TaskFacts DEF Methods
  <2> HIDE DEF fresh
  <2>3. QED
    BY <2>1, <2>2, OneTask
<1>5. /\ fresh.at = "banner" /\ fresh.on = Plain(n) /\ fresh.heard = Nothing
      /\ fresh.go = FALSE /\ Nothing.cmd = NoCmd
  BY DEF Nothing, Event
<1> HIDE DEF fresh
<1>6. \A m \in Sessions :
        /\ Plain(m) \in Conns /\ Tls(m) \in Conns
        /\ link'[Tls(m)] = "none" /\ link[Tls(m)] = "none"
        /\ m # n => link'[Plain(m)] = link[Plain(m)] /\ sock' # Plain(m)
        /\ sock' # Tls(m)
        /\ GoesOn(m)' <=> GoesOn(m)
        /\ Tls(m) \in armed' <=> Tls(m) \in armed
  <2>1. \A m \in Sessions : GoesOn(m)' <=> GoesOn(m)
    BY <1>0 DEF GoesOn
  <2>2. QED
    BY <1>0, <1>3, <2>1, ConnFacts
<1>7. ASSUME NEW m \in Sessions, m # n
      PROVE  Connecting(m).at \notin {"ehlo", "starttls", "tls"} /\ Verifying(m).at \notin Waits
  <2>1. ConnectPlaceOf(m) /\ VerifyPlaceOf(m) /\ InOrderOf(m)
    BY DEF InStep, ConnectPlace, VerifyPlace, InOrder
  <2>2. Connecting(m).go = FALSE
    BY <1>0, Rest, TaskFacts DEF Connecting
  <2>3. CASE link[Plain(m)] = "none"
    <3>1. promise[m] = "pending" /\ Connecting(m).at = "off"
      BY <2>1, <2>3 DEF InOrderOf
    <3>2. Verifying(m).at = "off"
      BY <2>1, <3>1 DEF VerifyPlaceOf
    <3>3. QED
      BY <3>1, <3>2 DEF Waits
  <2>4. CASE link[Plain(m)] # "none"
    <3>1. verdict[m] # Undecided
      BY <1>2, <1>7, <2>4
    <3>2. promise[m] # "pending" /\ Verifying(m).at \notin Waits
      BY <2>1, <3>1 DEF VerifyPlaceOf
    <3>3. QED
      BY <1>6, <2>1, <2>2, <3>2 DEF ConnectPlaceOf
  <2>5. QED
    BY <2>3, <2>4
<1>8. \A j \in Tasks : j # k /\ task'[j].at \in Waits =>
        task'[j] = task[j] /\ task[j].go = FALSE
  BY <1>0, <1>4, Rest
<1>9. \A j \in Tasks, d \in Conns : d # Plain(n) => (Waiting(j, d)' <=> Waiting(j, d))
  <2> SUFFICES ASSUME NEW j \in Tasks, NEW d \in Conns, d # Plain(n)
               PROVE  Waiting(j, d)' <=> Waiting(j, d)
    OBVIOUS
  <2>1. CASE j = k
    BY <1>1, <1>4, <1>5, <2>1 DEF Waiting, Waits, Connecting
  <2>2. CASE j # k
    BY <1>4, <2>2 DEF Waiting
  <2>3. QED
    BY <2>1, <2>2
<1>11. Types'
  BY <1>0, <1>3, <1>4, ConnFacts DEF InStep, Types
<1>12. InOrder'
  <2> SUFFICES ASSUME NEW m \in Sessions PROVE InOrderOf(m)'
    BY DEF InOrder
  <2>1. InOrderOf(m)
    BY DEF InStep, InOrder
  <2>2. CASE m = n
    BY <1>0, <1>3, <1>6, <2>2 DEF InOrderOf, Ours
  <2>3. CASE m # n
    BY <1>0, <1>2, <1>4, <1>6, <2>1, <2>3 DEF InOrderOf
  <2>4. QED
    BY <2>2, <2>3
<1>13. ConnectPlace'
  <2> SUFFICES ASSUME NEW m \in Sessions PROVE ConnectPlaceOf(m)'
    BY DEF ConnectPlace
  <2>1. CASE m = n
    BY <1>0, <1>1, <1>4, <1>5, <1>6, <2>1 DEF ConnectPlaceOf, Waits
  <2>2. CASE m # n
    <3>1. ConnectPlaceOf(m) /\ Connecting(m).at \notin {"ehlo", "starttls", "tls"}
          /\ Connecting(m).go = FALSE
      BY <1>0, <1>7, <2>2, Rest, TaskFacts DEF InStep, ConnectPlace, Connecting
    <3>2. QED
      BY <1>0, <1>4, <1>6, <2>2, <3>1 DEF ConnectPlaceOf
  <2>3. QED
    BY <2>1, <2>2
<1>14. VerifyPlace'
  <2> SUFFICES ASSUME NEW m \in Sessions PROVE VerifyPlaceOf(m)'
    BY DEF VerifyPlace
  <2>1. VerifyPlaceOf(m)
    BY DEF InStep, VerifyPlace
  <2>2. Verifying(m).at \notin Waits
    BY <1>1, <1>7 DEF Waits
  <2>3. QED
    BY <1>0, <1>4, <2>1, <2>2 DEF VerifyPlaceOf
<1>15. HeardIsOwn'
  <2> SUFFICES ASSUME NEW j \in Tasks, task'[j].at \in Waits PROVE HeardIsOwnOf(j)'
    BY DEF HeardIsOwn
  <2>1. CASE j = k
    BY <1>4, <1>5, <2>1 DEF HeardIsOwnOf, Alive
  <2>2. CASE j # k
    <3>1. task'[j] = task[j] /\ task[j].go = FALSE /\ HeardIsOwnOf(j)
      BY <1>8, <2>2 DEF InStep, HeardIsOwn
    <3>2. QED
      BY <3>1 DEF HeardIsOwnOf, Cmd, Alive
  <2>3. QED
    BY <2>1, <2>2
<1>16. OneReply'
  <2> SUFFICES ASSUME NEW j \in Tasks, task'[j].at \in Waits PROVE OneReplyOf(j)'
    BY DEF OneReply
  <2>1. CASE j = k
    BY <1>0, <1>1, <1>4, <1>5, <2>1 DEF OneReplyOf
  <2>2. CASE j # k
    <3>1. task'[j] = task[j] /\ task[j].go = FALSE /\ OneReplyOf(j)
      BY <1>8, <2>2 DEF InStep, OneReply
    <3>2. QED
      BY <1>0, <1>6, <3>1 DEF OneReplyOf, Cmd
  <2>3. QED
    BY <2>1, <2>2
<1>17. OneCommand'
  <2> SUFFICES ASSUME NEW d \in Conns, d \notin mute PROVE OneCommandOf(d)'
    BY <1>0 DEF OneCommand
  <2>1. CASE d = Plain(n)
    BY <1>0, <1>1, <2>1 DEF OneCommandOf
  <2>2. CASE d # Plain(n)
    <3>1. OneCommandOf(d)
      BY DEF InStep, OneCommand
    <3>2. \A j \in Tasks : Waiting(j, d)' => Cmd(j)' = Cmd(j)
      BY <1>4, <1>5, <2>2 DEF Waiting, Cmd
    <3>3. QED
      BY <1>0, <1>6, <1>9, <2>2, <3>1, <3>2 DEF OneCommandOf
  <2>3. QED
    BY <2>1, <2>2
<1>18. ReadyToVerify'
  BY <1>0, <1>4, Rest DEF ReadyToVerify, ReadyToVerifyOf
<1>19. NotOpen'
  <2> SUFFICES ASSUME NEW m \in Sessions PROVE NotOpenOf(m)'
    BY DEF NotOpen
  <2>1. NotOpenOf(m)
    BY DEF InStep, NotOpen
  <2>2. CASE m = n
    BY <1>0, <1>1, <1>3, <1>4, <1>5, <1>6, <2>1, <2>2 DEF NotOpenOf
  <2>3. CASE m # n
    BY <1>0, <1>4, <1>6, <2>1, <2>3 DEF NotOpenOf
  <2>4. QED
    BY <2>2, <2>3
<1>20. Securing'
  BY <1>0, <1>6 DEF InStep, Securing, SecuringOf
<1>21. OneConnectionAtATime' /\ VerdictIsAboutTheEmail'
  BY <1>0 DEF InStep, OneConnectionAtATime, VerdictIsAboutTheEmail
<1>22. QED
  BY <1>11, <1>12, <1>13, <1>14, <1>15, <1>16, <1>17, <1>18, <1>19, <1>20, <1>21
     DEF InStep

-----------------------------------------------------------------------------
(* The mail server *)

\* Sequences of one and two elements.
LEMMA Literals ==
  ASSUME NEW S, NEW x \in S, NEW y \in S
  PROVE  /\ <<x>> \in Seq(S) /\ Len(<<x>>) = 1 /\ <<x>>[1] = x
         /\ <<x, y>> \in Seq(S) /\ Len(<<x, y>>) = 2
         /\ <<x, y>>[1] = x /\ <<x, y>>[2] = y
OBVIOUS

\* An accepted connection is greeted.
LEMMA AcceptKeeps ==
  ASSUME InStep, NEW n \in Sessions, Accept(n)
  PROVE  InStep'
<1> DEFINE c == Plain(n)  k == <<n, "connect">>  g == <<n, "connect", "greet">>
<1>0. /\ UNCHANGED <<server, sock, slow, wire, mute, armed, task, promise, verdict>>
      /\ Quiescent /\ link[c] = "opening" /\ c \notin mute
  BY DEF Accept
<1>1. /\ Connecting(n).at = "banner" /\ wire[c] = <<>> /\ asked[c] = <<>>
      /\ promise[n] = "pending" /\ link[Tls(n)] = "none" /\ Connecting(n).on = c
      /\ Verifying(n).at = "off" /\ Connecting(n).at \in Waits
  BY <1>0, Own DEF InStep, NotOpen, NotOpenOf, VerifyPlace, VerifyPlaceOf, Waits
<1>2. g \in Cmds /\ g[1] = n /\ c[1] = n /\ c \in Conns
  BY ConnFacts DEF Cmds, Methods, Verbs
<1>3. /\ link' \in [Conns -> Links] /\ link'[c] = "open"
      /\ \A d \in Conns : d # c => link'[d] = link[d]
  BY <1>2 DEF Accept, InStep, Types, Links
<1>4. /\ asked' \in [Conns -> Seq(Cmds)] /\ asked'[c] = <<g>>
      /\ \A d \in Conns : d # c => asked'[d] = asked[d]
  <2>1. asked' = [asked EXCEPT ![c] = <<g>> \o @] /\ asked \in [Conns -> Seq(Cmds)]
    BY DEF Accept, InStep, Types
  <2>2. <<g>> \o asked[c] = <<g>> /\ <<g>> \in Seq(Cmds)
    BY <1>1, <1>2
  <2> HIDE DEF g
  <2>3. QED
    BY <1>2, <2>1, <2>2
<1>5. \A m \in Sessions :
        /\ Plain(m) \in Conns /\ Tls(m) \in Conns
        /\ link'[Tls(m)] = link[Tls(m)]
        /\ link'[Plain(m)] = "none" <=> link[Plain(m)] = "none"
        /\ m # n => Plain(m) # c /\ link'[Plain(m)] = link[Plain(m)]
        /\ Tls(m) # c
        /\ Connecting(m)' = Connecting(m) /\ Verifying(m)' = Verifying(m)
        /\ GoesOn(m)' <=> GoesOn(m)
  <2>1. \A m \in Sessions : /\ Connecting(m)' = Connecting(m)
                            /\ Verifying(m)' = Verifying(m)
                            /\ GoesOn(m)' <=> GoesOn(m)
    BY <1>0 DEF Connecting, Verifying, GoesOn
  <2>2. QED
    BY <1>0, <1>3, <2>1, ConnFacts
<1>6. \A j \in Tasks : /\ task[j].go = FALSE
                       /\ task[j].at \in Waits /\ task[j].on = c => j = k
  <2>1. \A j \in Tasks : task[j].go = FALSE
    BY <1>0, Rest
  <2>2. ASSUME NEW j \in Tasks, task[j].at \in Waits, task[j].on = c PROVE j = k
    <3>1. j = k \/ j = <<n, "verify">>
      BY <2>2, WhoWaits DEF Ours
    <3>2. QED
      BY <1>1, <2>2, <3>1 DEF Verifying, Waits
  <2>3. QED
    BY <2>1, <2>2
<1>11. Types'
  BY <1>0, <1>3, <1>4 DEF InStep, Types
<1>12. InOrder'
  BY <1>0, <1>5 DEF InStep, InOrder, InOrderOf
<1>13. ConnectPlace'
  BY <1>0, <1>5 DEF InStep, ConnectPlace, ConnectPlaceOf
<1>14. VerifyPlace'
  BY <1>0, <1>5 DEF InStep, VerifyPlace, VerifyPlaceOf
<1>15. HeardIsOwn'
  <2> SUFFICES ASSUME NEW j \in Tasks, task[j].at \in Waits PROVE HeardIsOwnOf(j)'
    BY <1>0 DEF HeardIsOwn
  <2>1. HeardIsOwnOf(j) /\ task[j].go = FALSE
    BY <1>6 DEF InStep, HeardIsOwn
  <2>2. QED
    BY <1>0, <2>1 DEF HeardIsOwnOf, Cmd, Alive
<1>16. OneReply'
  <2> SUFFICES ASSUME NEW j \in Tasks, task[j].at \in Waits PROVE OneReplyOf(j)'
    BY <1>0 DEF OneReply
  <2>1. OneReplyOf(j) /\ task[j].go = FALSE /\ task[j].on \in Conns
    BY <1>6, WaitsOnConn DEF InStep, OneReply
  <2>2. CASE task[j].on = c
    <3>1. j = k
      BY <1>6, <2>2
    <3>2. task[j].heard = Nothing
      BY <1>1, <2>1, <3>1 DEF InStep, HeardIsOwn, HeardIsOwnOf, Connecting
    <3>3. QED
      BY <1>0, <1>1, <2>1, <2>2, <3>2 DEF OneReplyOf
  <2>3. CASE task[j].on # c
    <3>1. asked'[task[j].on] = asked[task[j].on]
      BY <1>4, <2>1, <2>3
    <3>2. QED
      BY <1>0, <1>5, <2>1, <3>1 DEF OneReplyOf, Cmd
  <2>4. QED
    BY <2>2, <2>3
<1>17. OneCommand'
  <2> SUFFICES ASSUME NEW d \in Conns, d \notin mute PROVE OneCommandOf(d)'
    BY <1>0 DEF OneCommand
  <2>1. \A j \in Tasks : /\ Waiting(j, d)' <=> Waiting(j, d)
                         /\ Cmd(j)' = Cmd(j)
    BY <1>0 DEF Waiting, Cmd
  <2>2. CASE d = c
    <3>1. \A j \in Tasks : Waiting(j, d) => j = k
      BY <1>6, <2>2 DEF Waiting
    <3>2. k \in Tasks /\ Waiting(k, d) /\ Cmd(k) = g
      BY <1>1, <1>6, <2>2, TaskFacts DEF Waiting, Cmd, Connecting
    <3> HIDE DEF g, k
    <3>3. QED
      BY <1>4, <2>1, <2>2, <3>1, <3>2 DEF OneCommandOf
  <2>3. CASE d # c
    <3>1. OneCommandOf(d) /\ asked'[d] = asked[d]
      BY <1>4, <2>3 DEF InStep, OneCommand
    <3>2. QED
      BY <1>5, <2>1, <3>1 DEF OneCommandOf
  <2>4. QED
    BY <2>2, <2>3
<1>18. ReadyToVerify'
  BY <1>0, <1>5, Rest DEF ReadyToVerify, ReadyToVerifyOf
<1>19. NotOpen'
  <2> SUFFICES ASSUME NEW m \in Sessions PROVE NotOpenOf(m)'
    BY DEF NotOpen
  <2>1. NotOpenOf(m)
    BY DEF InStep, NotOpen
  <2>2. CASE m = n
    BY <1>0, <1>3, <1>4, <1>5, <2>1, <2>2 DEF NotOpenOf
  <2>3. CASE m # n
    BY <1>0, <1>4, <1>5, <2>1, <2>3 DEF NotOpenOf
  <2>4. QED
    BY <2>2, <2>3
<1>20. Securing'
  <2> SUFFICES ASSUME NEW m \in Sessions PROVE SecuringOf(m)'
    BY DEF Securing
  <2>1. SecuringOf(m)
    BY DEF InStep, Securing
  <2>2. CASE m = n
    BY <1>0, <1>1, <1>5, <2>1, <2>2 DEF SecuringOf
  <2>3. CASE m # n
    BY <1>0, <1>4, <1>5, <2>1, <2>3 DEF SecuringOf
  <2>4. QED
    BY <2>2, <2>3
<1>21. OneConnectionAtATime' /\ VerdictIsAboutTheEmail'
  <2>1. ASSUME NEW d \in Conns, NEW i \in 1..Len(asked'[d]) PROVE asked'[d][i][1] = d[1]
    <3>1. CASE d = c
      <4> HIDE DEF c, g
      <4>1. asked'[d] = <<g>>
        BY <1>4, <3>1
      <4>2. i = 1 /\ asked'[d][i] = g
        BY <1>2, <4>1, Literals
      <4>3. QED
        BY <1>2, <3>1, <4>2
    <3>2. CASE d # c
      <4>1. asked'[d] = asked[d]
        BY <1>4, <3>2
      <4>2. QED
        BY <4>1 DEF InStep, OneConnectionAtATime
    <3>3. QED
      BY <3>1, <3>2
  <2>2. QED
    BY <1>0, <2>1 DEF InStep, OneConnectionAtATime, VerdictIsAboutTheEmail
<1>22. QED
  BY <1>11, <1>12, <1>13, <1>14, <1>15, <1>16, <1>17, <1>18, <1>19, <1>20, <1>21
     DEF InStep

\* A reply is one chunk, or two of a slow server.
LEMMA ChunkFacts ==
  ASSUME InStep, NEW cmd \in Cmds, NEW c, NEW reply \in RepliesTo(cmd, c),
         NEW chunks \in Chunks(cmd, reply)
  PROVE  /\ chunks \in Seq(Parts)
         /\ \/ Len(chunks) = 1 /\ chunks[1].last
            \/ /\ Len(chunks) = 2 /\ ~chunks[1].last /\ chunks[2].last
               /\ server.slow /\ cmd[3] # "greet"
         /\ \A i \in 1..Len(chunks) : chunks[i].cmd = cmd
<1> DEFINE part(says, last) ==
             [cmd |-> cmd, reply |-> says, whole |-> reply, last |-> last]
<1>1. reply \in Replies
  BY DEF RepliesTo, Replies, Cmds, Verbs
<1>2. \A says \in Replies, last \in BOOLEAN :
        part(says, last) \in Parts /\ part(says, last).cmd = cmd
        /\ part(says, last).last = last
  BY <1>1 DEF Parts
<1>3. \/ chunks = <<part(reply, TRUE)>>
      \/ /\ server.slow /\ cmd[3] # "greet"
         /\ \E a \in Replies, b \in Replies : chunks = <<part(a, FALSE), part(b, TRUE)>>
  <2>1. server.chunks = 1 \/ server.slow
    BY DEF InStep, Types
  <2>2. QED
    BY <1>1, <2>1 DEF Chunks, Replies
<1> HIDE DEF part
<1>4. CASE chunks = <<part(reply, TRUE)>>
  <2>1. chunks \in Seq(Parts) /\ Len(chunks) = 1 /\ chunks[1] = part(reply, TRUE)
    BY <1>1, <1>2, <1>4, Literals
  <2>2. part(reply, TRUE).last /\ part(reply, TRUE).cmd = cmd
    BY <1>1, <1>2
  <2>3. \A i \in 1..Len(chunks) : i = 1
    BY <2>1
  <2>4. QED
    BY <2>1, <2>2, <2>3
<1>5. CASE /\ server.slow /\ cmd[3] # "greet"
           /\ \E a \in Replies, b \in Replies : chunks = <<part(a, FALSE), part(b, TRUE)>>
  <2>1. PICK a \in Replies, b \in Replies : chunks = <<part(a, FALSE), part(b, TRUE)>>
    BY <1>5
  <2>2. /\ chunks \in Seq(Parts) /\ Len(chunks) = 2
        /\ chunks[1] = part(a, FALSE) /\ chunks[2] = part(b, TRUE)
    BY <1>2, <2>1, Literals
  <2>3. /\ part(a, FALSE).last = FALSE /\ part(a, FALSE).cmd = cmd
        /\ part(b, TRUE).last = TRUE /\ part(b, TRUE).cmd = cmd
    BY <1>2
  <2>4. \A i \in 1..Len(chunks) : i = 1 \/ i = 2
    BY <2>2
  <2>5. QED
    BY <1>5, <2>2, <2>3, <2>4
<1>6. QED
  BY <1>3, <1>4, <1>5

\* A server answers the first command it was asked.
LEMMA AnswerKeeps ==
  ASSUME InStep, NEW c \in Conns, Answer(c)
  PROVE  InStep'
<1> DEFINE cmd == Head(asked[c])
<1>0. /\ UNCHANGED <<server, sock, slow, link, armed, task, promise, verdict>>
      /\ Quiescent /\ link[c] = "open" /\ c \notin mute /\ asked[c] # <<>>
      /\ \A n \in Sessions : c = Plain(n) => link[Tls(n)] = "none"
      /\ mute' = IF cmd[3] = "quit" THEN mute \union {c} ELSE mute
      /\ asked' = [asked EXCEPT ![c] = Tail(@)]
  BY ConnFacts DEF Answer
<1>1. PICK reply \in RepliesTo(cmd, c) : \E chunks \in Chunks(cmd, reply) :
        wire' = [wire EXCEPT ![c] = @ \o chunks]
  BY DEF Answer
<1>2. PICK chunks \in Chunks(cmd, reply) : wire' = [wire EXCEPT ![c] = @ \o chunks]
  BY <1>1
<1>3. /\ asked \in [Conns -> Seq(Cmds)] /\ wire \in [Conns -> Seq(Parts)]
      /\ asked[c] \in Seq(Cmds) /\ wire[c] \in Seq(Parts)
  BY DEF InStep, Types
<1>4. /\ cmd = asked[c][1] /\ cmd \in Cmds
      /\ Tail(asked[c]) \in Seq(Cmds) /\ Len(asked[c]) \in Nat \ {0}
      /\ Len(Tail(asked[c])) = Len(asked[c]) - 1
      /\ \A i \in 1..Len(Tail(asked[c])) : Tail(asked[c])[i] = asked[c][i + 1]
      /\ Tail(asked[c]) = <<>> <=> Len(asked[c]) = 1
  BY <1>0, <1>3, HeadTail
<1> HIDE DEF cmd
<1>5. /\ chunks \in Seq(Parts)
      /\ \/ Len(chunks) = 1 /\ chunks[1].last
         \/ /\ Len(chunks) = 2 /\ ~chunks[1].last /\ chunks[2].last
            /\ server.slow /\ cmd[3] # "greet"
      /\ \A i \in 1..Len(chunks) : chunks[i].cmd = cmd
  BY <1>4, ChunkFacts
<1>6. /\ asked' \in [Conns -> Seq(Cmds)] /\ asked'[c] = Tail(asked[c])
      /\ \A d \in Conns : d # c => asked'[d] = asked[d]
      /\ wire' \in [Conns -> Seq(Parts)] /\ wire'[c] = wire[c] \o chunks
      /\ \A d \in Conns : d # c => wire'[d] = wire[d]
      /\ mute' \subseteq Conns /\ mute \subseteq mute'
      /\ \A d \in Conns : d # c => (d \in mute' <=> d \in mute)
  <2>1. mute \subseteq Conns
    BY DEF InStep, Types
  <2>2. wire[c] \o chunks \in Seq(Parts)
    BY <1>3, <1>5
  <2>3. QED
    BY <1>0, <1>2, <1>3, <1>4, <2>1, <2>2
<1>7. \A k \in Tasks : task[k].go = FALSE
  BY <1>0, Rest
\* Who waits, waits for this very answer.
<1>8. ASSUME NEW k \in Tasks, Waiting(k, c)
      PROVE  /\ asked[c] = <<Cmd(k)>> /\ cmd = Cmd(k) /\ cmd[3] # "quit"
             /\ wire[c] = <<>> /\ task[k].heard = Nothing
             /\ task[k].at = "banner" => cmd[3] = "greet"
  <2>1. task[k].at \in Waits /\ task[k].on = c /\ ~task[k].go
    BY <1>8 DEF Waiting
  <2>2. OneCommandOf(c) /\ OneReplyOf(k)
    BY <1>0, <2>1 DEF InStep, OneCommand, OneReply
  <2>3. asked[c] = <<Cmd(k)>>
    BY <1>0, <1>8, <2>2 DEF OneCommandOf
  <2>4. Cmd(k) \in Cmds /\ Cmd(k)[3] # "quit"
    BY <2>1, CmdFacts
  <2>5. cmd = Cmd(k)
    BY <1>4, <2>3
  <2>6. wire[c] = <<>> /\ task[k].heard = Nothing
    BY <1>0, <2>1, <2>2 DEF OneReplyOf
  <2>7. task[k].at = "banner" => Cmd(k)[3] = "greet"
    BY DEF Cmd
  <2>8. QED
    BY <2>3, <2>4, <2>5, <2>6, <2>7
\* What nobody waits for is a QUIT, the last command.
<1>9. c \notin mute' => Tail(asked[c]) = <<>>
  <2>1. CASE \E k \in Tasks : Waiting(k, c)
    <3>1. PICK k \in Tasks : Waiting(k, c)
      BY <2>1
    <3>2. asked[c] = <<Cmd(k)>>
      BY <1>8, <3>1
    <3>3. Len(asked[c]) = 1
      BY <3>2
    <3>4. QED
      BY <1>4, <3>3
  <2>2. CASE \A k \in Tasks : ~Waiting(k, c)
    <3>1. OneCommandOf(c)
      BY <1>0 DEF InStep, OneCommand
    <3>2. Quits(asked[c])
      BY <1>0, <2>2, <3>1 DEF OneCommandOf
    <3>3. cmd[3] = "quit"
      BY <1>4, <3>2 DEF Quits
    <3>4. QED
      BY <1>0, <3>3
  <2>3. QED
    BY <2>1, <2>2
<1>10. \A m \in Sessions :
         /\ Connecting(m)' = Connecting(m) /\ Verifying(m)' = Verifying(m)
         /\ GoesOn(m)' <=> GoesOn(m)
         /\ Plain(m) \in Conns /\ Tls(m) \in Conns
  BY <1>0, ConnFacts DEF Connecting, Verifying, GoesOn
<1>11. Types'
  BY <1>0, <1>6 DEF InStep, Types
<1>12. InOrder'
  BY <1>0, <1>10 DEF InStep, InOrder, InOrderOf
<1>13. ConnectPlace'
  <2> SUFFICES ASSUME NEW m \in Sessions PROVE ConnectPlaceOf(m)'
    BY DEF ConnectPlace
  <2>1. ConnectPlaceOf(m)
    BY DEF InStep, ConnectPlace
  <2>2. CASE c = Plain(m)
    BY <1>0, <1>10, <2>1, <2>2 DEF ConnectPlaceOf
  <2>3. CASE c # Plain(m)
    BY <1>0, <1>6, <1>10, <2>1, <2>3 DEF ConnectPlaceOf
  <2>4. QED
    BY <2>2, <2>3
<1>14. VerifyPlace'
  BY <1>0, <1>10 DEF InStep, VerifyPlace, VerifyPlaceOf
<1>15. HeardIsOwn'
  <2> SUFFICES ASSUME NEW k \in Tasks, task[k].at \in Waits PROVE HeardIsOwnOf(k)'
    BY <1>0 DEF HeardIsOwn
  <2>1. HeardIsOwnOf(k) /\ task[k].go = FALSE
    BY <1>7 DEF InStep, HeardIsOwn
  <2>2. QED
    BY <1>0, <2>1 DEF HeardIsOwnOf, Cmd, Alive
<1>16. OneReply'
  <2> SUFFICES ASSUME NEW k \in Tasks, task[k].at \in Waits PROVE OneReplyOf(k)'
    BY <1>0 DEF OneReply
  <2>1. OneReplyOf(k) /\ task[k].go = FALSE /\ task[k].on \in Conns /\ Cmd(k)' = Cmd(k)
    BY <1>0, <1>7, WaitsOnConn DEF InStep, OneReply, Cmd
  <2>2. CASE task[k].on = c
    <3>1. Waiting(k, c)
      BY <2>1, <2>2 DEF Waiting
    <3>2. wire[c] \o chunks = chunks
      BY <1>5, <1>8, <3>1
    <3>3. wire'[c] = chunks /\ asked'[c] = <<>> /\ c \notin mute' /\ task[k].heard = Nothing
      BY <1>0, <1>6, <1>8, <1>9, <3>1, <3>2
    <3>4. cmd = Cmd(k) /\ (task[k].at = "banner" => cmd[3] = "greet")
      BY <1>8, <3>1
    <3>5. QED
      BY <1>0, <1>5, <2>1, <2>2, <3>3, <3>4 DEF OneReplyOf
  <2>3. CASE task[k].on # c
    <3>1. /\ asked'[task[k].on] = asked[task[k].on] /\ wire'[task[k].on] = wire[task[k].on]
          /\ task[k].on \in mute' <=> task[k].on \in mute
      BY <1>6, <2>1, <2>3
    <3>2. QED
      BY <1>0, <2>1, <3>1 DEF OneReplyOf
  <2>4. QED
    BY <2>2, <2>3
<1>17. OneCommand'
  <2> SUFFICES ASSUME NEW d \in Conns, d \notin mute' PROVE OneCommandOf(d)'
    BY DEF OneCommand
  <2>1. \A k \in Tasks : /\ Waiting(k, d)' <=> Waiting(k, d)
                         /\ Cmd(k)' = Cmd(k)
    BY <1>0 DEF Waiting, Cmd
  <2>2. CASE d = c
    <3>1. asked'[d] = <<>>
      BY <1>6, <1>9, <2>2
    <3>2. QED
      BY <3>1 DEF OneCommandOf
  <2>3. CASE d # c
    <3>1. OneCommandOf(d) /\ asked'[d] = asked[d]
      BY <1>6, <2>3 DEF InStep, OneCommand
    <3>2. QED
      BY <1>0, <2>1, <3>1 DEF OneCommandOf
  <2>4. QED
    BY <2>2, <2>3
<1>18. ReadyToVerify'
  BY <1>0, <1>10, Rest DEF ReadyToVerify, ReadyToVerifyOf
<1>19. NotOpen'
  <2> SUFFICES ASSUME NEW m \in Sessions PROVE NotOpenOf(m)'
    BY DEF NotOpen
  <2>1. NotOpenOf(m)
    BY DEF InStep, NotOpen
  <2>2. \A d \in Conns : link[d] # "open" =>
          /\ asked'[d] = asked[d] /\ wire'[d] = wire[d]
          /\ d \in mute' <=> d \in mute
    BY <1>0, <1>6
  <2>3. QED
    BY <1>0, <1>10, <2>1, <2>2 DEF NotOpenOf
<1>20. Securing'
  <2> SUFFICES ASSUME NEW m \in Sessions PROVE SecuringOf(m)'
    BY DEF Securing
  <2>1. SecuringOf(m)
    BY DEF InStep, Securing
  <2>2. CASE link[Tls(m)] = "none"
    <3>1. Tls(m) # c
      BY <1>0, <2>2
    <3>2. QED
      BY <1>0, <1>6, <1>10, <2>1, <2>2, <3>1 DEF SecuringOf
  <2>3. CASE link[Tls(m)] # "none"
    <3>1. /\ wire'[Plain(m)] = wire[Plain(m)] /\ asked'[Plain(m)] = asked[Plain(m)]
          /\ link[Tls(m)] # "open" => (Tls(m) \in mute' <=> Tls(m) \in mute)
      BY <1>0, <1>6, <1>10, <2>3
    <3>2. QED
      BY <1>0, <1>6, <2>1, <2>3, <3>1 DEF SecuringOf
  <2>4. QED
    BY <2>2, <2>3
<1>21. OneConnectionAtATime' /\ VerdictIsAboutTheEmail'
  <2>1. ASSUME NEW d \in Conns, NEW i \in 1..Len(asked'[d]) PROVE asked'[d][i][1] = d[1]
    <3>1. CASE d = c
      <4>1. i \in 1..Len(Tail(asked[c])) /\ asked'[d][i] = asked[c][i + 1]
        BY <1>4, <1>6, <3>1
      <4>2. i + 1 \in 1..Len(asked[c])
        BY <1>4, <4>1
      <4>3. QED
        BY <3>1, <4>1, <4>2 DEF InStep, OneConnectionAtATime
    <3>2. CASE d # c
      <4>1. asked'[d] = asked[d]
        BY <1>6, <3>2
      <4>2. QED
        BY <4>1 DEF InStep, OneConnectionAtATime
    <3>3. QED
      BY <3>1, <3>2
  <2>2. QED
    BY <1>0, <2>1 DEF InStep, OneConnectionAtATime, VerdictIsAboutTheEmail
<1>22. QED
  BY <1>11, <1>12, <1>13, <1>14, <1>15, <1>16, <1>17, <1>18, <1>19, <1>20, <1>21
     DEF InStep

-----------------------------------------------------------------------------
(* The invariant *)

\* At first no session has begun.
LEMMA InitInStep ==
  ASSUME Orderly, Init
  PROVE  InStep
<1>1. /\ sock = <<>> /\ slow = FALSE /\ mute = {} /\ armed = {}
      /\ link = [c \in Conns |-> "none"]
      /\ asked = [c \in Conns |-> <<>>] /\ wire = [c \in Conns |-> <<>>]
      /\ task = [k \in Tasks |-> IdleTask]
      /\ promise = [n \in Sessions |-> "pending"]
      /\ verdict = [n \in Sessions |-> Undecided]
  BY DEF Init
<1>2. /\ server \in [slow : BOOLEAN, chunks : 1..2, caller : {"validate", "grey"}]
      /\ server.chunks = 2 => server.slow
  <2>1. PICK p \in Peers, c \in Callers :
          server = [slow |-> p.slow, chunks |-> p.chunks, caller |-> c]
    BY DEF Init
  <2>2. p \in [slow : BOOLEAN, chunks : 1..2] /\ c \in {"validate", "grey"}
    BY PeersAssumption, CallersAssumption
  <2>3. p.chunks = 2 => p.slow
    BY DEF Orderly
  <2>4. QED
    BY <2>1, <2>2, <2>3
<1>3. /\ IdleTask \in Coroutine /\ IdleTask.at = "off" /\ IdleTask.go = FALSE
      /\ "off" \notin Waits
  BY DEF IdleTask, Coroutine, Places, Waits, EventRecords, Nothing
<1>4. \A k \in Tasks : task[k].at = "off" /\ task[k].go = FALSE
  BY <1>1, <1>3
<1>5. \A n \in Sessions : /\ Connecting(n).at = "off" /\ Connecting(n).go = FALSE
                          /\ Verifying(n).at = "off" /\ Verifying(n).go = FALSE
                          /\ link[Plain(n)] = "none" /\ link[Tls(n)] = "none"
                          /\ asked[Plain(n)] = <<>> /\ asked[Tls(n)] = <<>>
                          /\ wire[Plain(n)] = <<>> /\ wire[Tls(n)] = <<>>
                          /\ sock # Plain(n) /\ sock # Tls(n)
                          /\ promise[n] = "pending" /\ verdict[n] = Undecided
  <2> SUFFICES ASSUME NEW n \in Sessions
               PROVE  /\ Connecting(n).at = "off" /\ Connecting(n).go = FALSE
                      /\ Verifying(n).at = "off" /\ Verifying(n).go = FALSE
                      /\ link[Plain(n)] = "none" /\ link[Tls(n)] = "none"
                      /\ asked[Plain(n)] = <<>> /\ asked[Tls(n)] = <<>>
                      /\ wire[Plain(n)] = <<>> /\ wire[Tls(n)] = <<>>
                      /\ sock # Plain(n) /\ sock # Tls(n)
                      /\ promise[n] = "pending" /\ verdict[n] = Undecided
    OBVIOUS
  <2>1. <<n, "connect">> \in Tasks /\ <<n, "verify">> \in Tasks
    BY DEF Tasks, Methods
  <2>2. /\ Connecting(n).at = "off" /\ Connecting(n).go = FALSE
        /\ Verifying(n).at = "off" /\ Verifying(n).go = FALSE
    BY <1>4, <2>1 DEF Connecting, Verifying
  <2>3. Plain(n) \in Conns /\ Tls(n) \in Conns
    BY DEF Plain, Tls, Conns, Wires
  <2>4. Plain(n) # <<>> /\ Tls(n) # <<>>
    BY DEF Plain, Tls
  <2>5. /\ link[Plain(n)] = "none" /\ link[Tls(n)] = "none"
        /\ asked[Plain(n)] = <<>> /\ asked[Tls(n)] = <<>>
        /\ wire[Plain(n)] = <<>> /\ wire[Tls(n)] = <<>>
    BY <1>1, <2>3
  <2>6. sock # Plain(n) /\ sock # Tls(n)
    BY <1>1, <2>4
  <2>7. promise[n] = "pending" /\ verdict[n] = Undecided
    BY <1>1
  <2>8. QED
    BY <2>2, <2>5, <2>6, <2>7
<1>6. Types
  <2>1. <<>> \in Seq(Cmds) /\ <<>> \in Seq(Parts)
    OBVIOUS
  <2>2. Undecided \in [what : Reasons \union {"none"}, from : Cmds \union {NoCmd}]
    BY DEF Undecided
  <2> HIDE DEF Undecided
  <2>3. QED
    BY <1>1, <1>2, <1>3, <2>1, <2>2 DEF Types, Links
<1>7. InOrder /\ ConnectPlace /\ VerifyPlace
  BY <1>3, <1>5 DEF InOrder, InOrderOf, ConnectPlace, ConnectPlaceOf, VerifyPlace,
                    VerifyPlaceOf
<1>8. HeardIsOwn /\ OneReply
  BY <1>3, <1>4 DEF HeardIsOwn, OneReply
<1>9. OneCommand
  BY <1>1 DEF OneCommand, OneCommandOf
<1>10. ReadyToVerify /\ NotOpen /\ Securing
  BY <1>1, <1>5 DEF ReadyToVerify, ReadyToVerifyOf, NotOpen, NotOpenOf, Securing, SecuringOf
<1>11. OneConnectionAtATime /\ VerdictIsAboutTheEmail
  <2>1. \A c \in Conns : Len(asked[c]) = 0
    BY <1>1
  <2>2. \A n \in Sessions : verdict[n].from = NoCmd
    BY <1>1 DEF Undecided
  <2>3. QED
    BY <2>1, <2>2 DEF OneConnectionAtATime, VerdictIsAboutTheEmail
<1>12. QED
  BY <1>6, <1>7, <1>8, <1>9, <1>10, <1>11 DEF InStep

\* A stutter keeps the invariant.
LEMMA StutterInStep ==
  ASSUME InStep, UNCHANGED vars
  PROVE  InStep'
<1>1. UNCHANGED <<server, sock, slow, asked, task, promise, verdict, link, wire, mute, armed>>
  BY DEF vars, network
<1>2. \A n \in Sessions : /\ Connecting(n)' = Connecting(n) /\ Verifying(n)' = Verifying(n)
                          /\ GoesOn(n)' <=> GoesOn(n)
  BY <1>1 DEF Connecting, Verifying, GoesOn
<1>3. \A k \in Tasks : /\ Cmd(k)' = Cmd(k)
                       /\ \A c \in Conns : Waiting(k, c)' <=> Waiting(k, c)
  BY <1>1 DEF Cmd, Waiting
<1>4. Types' /\ OneConnectionAtATime' /\ VerdictIsAboutTheEmail' /\ Securing'
  BY <1>1 DEF InStep, Types, OneConnectionAtATime, VerdictIsAboutTheEmail, Securing, SecuringOf
<1>5. InOrder' /\ ConnectPlace'
  BY <1>1, <1>2 DEF InStep, InOrder, InOrderOf, ConnectPlace, ConnectPlaceOf
<1>6. VerifyPlace' /\ ReadyToVerify' /\ NotOpen'
  BY <1>1, <1>2 DEF InStep, VerifyPlace, VerifyPlaceOf, ReadyToVerify, ReadyToVerifyOf,
                    NotOpen, NotOpenOf
<1>7. HeardIsOwn'
  BY <1>1 DEF InStep, HeardIsOwn, HeardIsOwnOf, Cmd, Alive
<1>8. OneReply'
  BY <1>1 DEF InStep, OneReply, OneReplyOf, Cmd
<1>9. OneCommand'
  BY <1>1, <1>3 DEF InStep, OneCommand, OneCommandOf
<1>10. QED
  BY <1>4, <1>5, <1>6, <1>7, <1>8, <1>9 DEF InStep

\* Every step keeps the invariant.
LEMMA NextInStep ==
  ASSUME Orderly, InStep, [Next]_vars
  PROVE  InStep'
<1>1. ~LateAnswers /\ ~ReusedAfterTls
  BY DEF Orderly
<1>2. CASE \E n \in Sessions : Connect(n)
  BY <1>1, <1>2, ConnectBegins
<1>3. CASE Coroutines
  BY <1>3, ConnectKeeps, VerifyKeeps DEF Coroutines
<1>4. CASE Events
  <2>1. CASE \E c \in Conns : Receive(c) \/ Timeout(c) \/ Drop(c) \/ Fail(c)
    BY <1>1, <2>1, ReceiveKeeps, TimeoutKeeps, DropKeeps, FailKeeps
  <2>2. CASE \E n \in Sessions : Secured(n)
    BY <2>2, SecuredKeeps
  <2>3. CASE \E k \in Tasks : Quiet(k)
    BY <2>3, QuietKeeps
  <2>4. QED
    BY <1>4, <2>1, <2>2, <2>3 DEF Events
<1>5. CASE Peer
  BY <1>5, AcceptKeeps, AnswerKeeps DEF Peer
<1>6. CASE UNCHANGED vars
  BY <1>6, StutterInStep
<1>7. QED
  BY <1>2, <1>3, <1>4, <1>5, <1>6 DEF Next

\* One command, one reply, one session at a time: the inductive invariant.
THEOREM InStepCorrect == Orderly => (Spec => []InStep)
<1>1. SUFFICES ASSUME Orderly PROVE Spec => []InStep
  OBVIOUS
<1>2. Init => InStep
  BY <1>1, InitInStep
<1>3. InStep /\ [Next]_vars => InStep'
  BY <1>1, NextInStep
<1>4. QED
  BY <1>2, <1>3, PTL DEF Spec

-----------------------------------------------------------------------------
(* What follows from it *)

\* The instance, the connections and the coroutines keep their types.
THEOREM SessionTypeCorrect == Orderly => (Spec => []TypeOK)
<1>1. InStep => TypeOK
  <2>1. SUFFICES ASSUME InStep PROVE TypeOK
    OBVIOUS
  <2>2. Parts \subseteq Heard /\ EventRecords \subseteq Heard
    <3>1. Replies \subseteq Outcomes
      BY DEF Outcomes
    <3>2. Parts \subseteq Heard
      BY <3>1 DEF Parts, Heard
    <3>3. \A what \in Rejections \union {"none", "timeout", "closed"} : what \in Outcomes
      BY DEF Outcomes
    <3>4. \A what \in Outcomes : Event(what) \in Heard
      BY DEF Event, Heard
    <3>5. QED
      BY <3>2, <3>3, <3>4 DEF EventRecords
  <2>3. \A c \in Conns : /\ \A i \in 1..Len(asked[c]) : asked[c][i] \in Cmds
                         /\ \A i \in 1..Len(wire[c]) : wire[c][i] \in Parts
    BY <2>1 DEF InStep, Types
  <2>4. \A k \in Tasks : /\ task[k].heard \in Parts \union EventRecords
                         /\ task[k].go \in BOOLEAN
    BY <2>1 DEF InStep, Types, Coroutine
  <2>5. QED
    BY <2>1, <2>2, <2>3, <2>4 DEF TypeOK, InStep, Types
<1>2. QED
  BY <1>1, InStepCorrect, PTL

\* A coroutine never takes the reply to another command for its own.
THEOREM AnswerIsOwnCorrect == Orderly => (Spec => []AnswerIsOwn)
<1>1. InStep => AnswerIsOwn
  BY DEF InStep, HeardIsOwn, HeardIsOwnOf, AnswerIsOwn, Cmd
<1>2. QED
  BY <1>1, InStepCorrect, PTL

\* A verdict rests on the answer about its own email.
THEOREM VerdictIsAboutTheEmailCorrect == Orderly => (Spec => []VerdictIsAboutTheEmail)
<1>1. InStep => VerdictIsAboutTheEmail
  BY DEF InStep
<1>2. QED
  BY <1>1, InStepCorrect, PTL

\* A server that still answers has at most one command to answer, besides a QUIT.
THEOREM LockStepCorrect == Orderly => (Spec => []LockStep)
<1>1. InStep => LockStep
  <2> SUFFICES ASSUME InStep, NEW c \in Conns, c \notin mute
               PROVE Cardinality({i \in 1..Len(asked[c]) : asked[c][i][3] # "quit"}) <= 1
    BY DEF LockStep
  <2> DEFINE I == {i \in 1..Len(asked[c]) : asked[c][i][3] # "quit"}
  <2>1. \E j \in 1..2 : I \subseteq {j}
    <3>1. OneCommandOf(c) /\ asked[c] \in Seq(Cmds)
      BY DEF InStep, OneCommand, Types
    <3>2. CASE \E k \in Tasks : Waiting(k, c)
      <4>1. PICK k \in Tasks : Waiting(k, c)
        BY <3>2
      <4>2. CASE asked[c] \in {<<>>, <<Cmd(k)>>}
        BY <4>2
      <4>3. CASE \E cmd \in Cmds : cmd[3] = "quit" /\ asked[c] = <<cmd, Cmd(k)>>
        BY <4>3
      <4>4. QED
        BY <3>1, <4>1, <4>2, <4>3 DEF OneCommandOf
    <3>3. CASE \A k \in Tasks : ~Waiting(k, c)
      <4>1. asked[c] = <<>> \/ Quits(asked[c])
        BY <3>1, <3>3 DEF OneCommandOf
      <4>2. QED
        BY <4>1 DEF Quits
    <3>4. QED
      BY <3>2, <3>3
  <2>2. PICK j \in 1..2 : I \subseteq {j}
    BY <2>1
  <2>3. IsFiniteSet({j}) /\ Cardinality({j}) = 1
    BY FS_Singleton
  <2>4. Cardinality(I) <= Cardinality({j})
    BY <2>2, <2>3, FS_Subset
  <2>5. QED
    BY <2>3, <2>4
<1>2. QED
  BY <1>1, InStepCorrect, PTL

\* Nothing about a mailbox is asked on a plain socket once TLS is up.
THEOREM NothingInTheClearCorrect == Orderly => (Spec => []NothingInTheClear)
<1>1. InStep => NothingInTheClear
  <2> SUFFICES ASSUME InStep, NEW c \in Conns, c[2] = "plain", link[Tls(c[1])] = "open",
                      NEW i \in 1..Len(asked[c])
               PROVE  FALSE
    BY DEF NothingInTheClear
  <2>1. PICK n \in Sessions : c = Plain(n) \/ c = Tls(n)
    BY ConnFacts
  <2>2. c = Plain(n) /\ c[1] = n
    BY <2>1, ConnFacts
  <2>3. asked[c] = <<>>
    BY <2>2 DEF InStep, Securing, SecuringOf
  <2>4. QED
    BY <2>3
<1>2. QED
  BY <1>1, InStepCorrect, PTL
===============================================================================
