---------------------------- MODULE HandshakeProofs ----------------------------
(***************************************************************************)
(* The handshake gives both sides the same keys, and no secure session     *)
(* reads what was not meant for it.  The argument follows the hello of     *)
(* each side from its builder over the sender channel, the sender and the  *)
(* connection to the other side's receiver and builder: no step copies it  *)
(* or moves it back (Forward), so that whoever has it knows how far its    *)
(* sender has come and that no more of it is under way.                    *)
(***************************************************************************)
EXTENDS Handshake, SequenceTheorems, TLAPS

\* Reading takes one frame or more from the front, and leaves the others as they are.
LEMMA Takes ==
  ASSUME net \in [Side -> Seq(Frame)], NEW x \in Side, TakeFrame(x), net[x] # <<>>
  PROVE  /\ net' \in [Side -> Seq(Frame)] /\ net' = [net EXCEPT ![x] = net'[x]]
         /\ \E n \in 1..Len(net[x]) : /\ Len(net'[x]) = Len(net[x]) - n
                                      /\ \A i \in 1..Len(net'[x]) : net'[x][i] = net[x][i + n]
<1>1. PICK m \in 2..Len(net[x]) + 1 : net' = [net EXCEPT ![x] = SubSeq(@, m, Len(@))]
  BY DEF TakeFrame
<1> DEFINE n == m - 1
           rest == SubSeq(net[x], m, Len(net[x]))
<1>2. net[x] \in Seq(Frame) /\ m \in Nat /\ Len(net[x]) \in Nat /\ n \in 1..Len(net[x])
  BY DEF Side
<1>3. rest \in Seq(Frame)
  BY <1>2
<1>4. Len(rest) = Len(net[x]) - n /\ \A i \in 1..Len(net[x]) - n : rest[i] = net[x][i + n]
  BY <1>2
<1>5. net'[x] = rest /\ net' = [net EXCEPT ![x] = net'[x]] /\ net' \in [Side -> Seq(Frame)]
  BY <1>1, <1>3
<1> HIDE DEF rest, n
<1> QED BY <1>2, <1>4, <1>5

\* Writing appends the frame, unless the other side has closed.
LEMMA Puts ==
  ASSUME net \in [Side -> Seq(Frame)], NEW x \in Side, NEW f \in Frame, PutFrame(x, f)
  PROVE  /\ net' \in [Side -> Seq(Frame)]
         /\ net' = net \/ net' = [net EXCEPT ![Other(x)] = Append(@, f)]
BY DEF PutFrame, Side, Other

\* Closing a session, either way, keeps the types of what it touches.
LEMMA Closes ==
  ASSUME TypeOK, NEW x \in Side, TempClose(x) \/ (SoftClose(x) /\ UNCHANGED connOpen)
  PROVE  /\ ended' \in [Side -> {"no", "soft", "hard"}] /\ connOpen' \in [Side -> BOOLEAN]
         /\ k' \in [Side -> {"none", "deadline", "signal", "done"}]
<1>1. /\ ended \in [Side -> {"no", "soft", "hard"}] /\ connOpen \in [Side -> BOOLEAN]
      /\ k \in [Side -> {"none", "deadline", "signal", "done"}]
  BY DEF TypeOK
<1>2. CASE UNCHANGED <<ended, k, connOpen>>
  BY <1>1, <1>2
<1>3. CASE TempClose(x) /\ ended[x] = "no"
  <2>1. /\ ended' = [ended EXCEPT ![x] = "hard"] /\ k' = [k EXCEPT ![x] = "deadline"]
        /\ connOpen' = [connOpen EXCEPT ![x] = FALSE]
    BY <1>3 DEF TempClose
  <2> QED BY <1>1, <2>1
<1>4. CASE SoftClose(x) /\ ended[x] = "no" /\ UNCHANGED connOpen
  BY <1>1, <1>4 DEF SoftClose
<1> QED BY <1>2, <1>3, <1>4 DEF TempClose, SoftClose

\* The receiver of the session that stays goes on, or ends and closes the connection.
LEMMA SReads ==
  ASSUME TypeOK, NEW x \in Side, SRead(x)
  PROVE  s' \in [Side -> {"off", "poll", "read", "done"}] /\ connOpen' \in [Side -> BOOLEAN]
<1>1. s \in [Side -> {"off", "poll", "read", "done"}] /\ connOpen \in [Side -> BOOLEAN]
  BY DEF TypeOK
<1>2. \/ SGoto(x, "poll") /\ connOpen' = connOpen
      \/ SGoto(x, "done") /\ connOpen' = [connOpen EXCEPT ![x] = FALSE]
  BY DEF SRead, SEnds
<1> QED BY <1>1, <1>2 DEF SGoto

\* Sending from main is into the buffer or to the sender.
LEMMA Sends ==
  ASSUME TypeOK, NEW x \in Side, NEW l, MainSends(x, l)
  PROVE  /\ queued' \in [Side -> BOOLEAN] /\ w' \in [Side -> {"select", "write", "done"}]
         /\ \/ queued' = [queued EXCEPT ![x] = TRUE] /\ w' = w
            \/ queued' = queued /\ w' = [w EXCEPT ![x] = "write"]
<1>1. queued \in [Side -> BOOLEAN] /\ w \in [Side -> {"select", "write", "done"}]
  BY DEF TypeOK
<1>2. \/ queued' = [queued EXCEPT ![x] = TRUE] /\ w' = w
      \/ queued' = queued /\ w' = [w EXCEPT ![x] = "write"]
  BY DEF MainSends, WGoto
<1> QED BY <1>1, <1>2

\* What a step does to the variables of the temporary sessions keeps their types.
LEMMA TypeStep ==
  ASSUME TypeOK, [Next]_vars
  PROVE  TypeOK'
<1> USE DEF TypeOK, Side
<1>1. ASSUME NEW x \in Side, RNext(x) PROVE TypeOK'
  <2>1. CASE RShutdown(x)
    BY <2>1, Closes DEF RShutdown, REnds, RGoto, mainVars
  <2>2. CASE RPoll(x)
    BY <2>2 DEF RPoll, RGoto, mainVars
  <2>3. CASE RPollFails(x)
    BY <2>3, Closes DEF RPollFails, REnds, RGoto, mainVars
  <2>4. CASE RRead(x)
    <3>1. net' \in [Side -> Seq(Frame)] /\ Head(net[x]) \in Frame
      BY <2>4, Takes DEF RRead, Readable
    <3> QED BY <2>4, <3>1 DEF RRead, RGoto, mainVars, connVars, Frame
  <2>5. CASE RRefuses(x)
    <3>1. net' \in [Side -> Seq(Frame)]
      BY <2>5, Takes DEF RRefuses, Readable
    <3> QED BY <2>5, <3>1, Closes DEF RRefuses, REnds, RGoto, mainVars
  <2>6. CASE REOF(x)
    BY <2>6 DEF REOF, RGoto, mainVars, connVars
  <2>7. CASE RFails(x)
    BY <2>7, Closes DEF RFails, REnds, RGoto, mainVars
  <2> QED BY <1>1, <2>1, <2>2, <2>3, <2>4, <2>5, <2>6, <2>7 DEF RNext
<1>2. ASSUME NEW x \in Side, WNext(x) PROVE TypeOK'
  <2>1. CASE WShutdown(x)
    BY <2>1, Closes DEF WShutdown, WEnds, WGoto, mainVars
  <2>2. CASE WTake(x)
    BY <2>2 DEF WTake, WGoto, mainVars, connVars
  <2>3. CASE WWrite(x)
    <3>1. net' \in [Side -> Seq(Frame)]
      BY <2>3, Puts DEF WWrite, Hello, Frame
    <3> QED BY <2>3, <3>1 DEF WWrite, WGoto, mainVars
  <2>4. CASE WFails(x)
    BY <2>4, Closes DEF WFails, WEnds, WGoto, mainVars
  <2> QED BY <1>2, <2>1, <2>2, <2>3, <2>4 DEF WNext
<1>3. ASSUME NEW x \in Side, IFire(x) \/ KNext(x) PROVE TypeOK'
  <2>1. CASE IFire(x)
    BY <2>1, Closes DEF IFire, mainVars
  <2>2. CASE KDeadline(x)
    <3>1. deadline' \in [Side -> {"future", "past"}]
      BY <2>2 DEF KDeadline
    <3> QED BY <2>2, <3>1 DEF KDeadline, mainVars
  <2>3. CASE KSignals(x)
    BY <2>3 DEF KSignals, mainVars, connVars
  <2> QED BY <1>3, <2>1, <2>2, <2>3 DEF KNext
<1>4. ASSUME NEW x \in Side, SNext(x) \/ AppSends(x) \/ AppCloses(x) \/ DeadlineExpires(x)
      PROVE  TypeOK'
  <2>1. CASE SPoll(x)
    <3>1. /\ s' \in [Side -> {"off", "poll", "read", "done"}]
          /\ deadline' \in [Side -> {"future", "past"}]
      BY <2>1 DEF SPoll, SGoto
    <3> QED BY <2>1, <3>1 DEF SPoll, mainVars, tempVars
  <2>2. CASE SRead(x)
    <3>1. net' \in [Side -> Seq(Frame)]
      BY <2>2, Takes DEF SRead, Readable
    <3> QED BY <2>2, <3>1, SReads DEF SRead, mainVars, tempVars
  <2>3. CASE SEOF(x)
    BY <2>3 DEF SEOF, SGoto, mainVars, tempVars, connVars
  <2>4. CASE SFails(x)
    BY <2>4 DEF SFails, SEnds, SGoto, mainVars, tempVars
  <2>5. CASE AppSends(x)
    <3>1. net' \in [Side -> Seq(Frame)]
      BY <2>5, Puts DEF AppSends, Own, Frame
    <3>2. config.frames \in Nat
      BY HandshakeAssumption DEF Config
    <3> QED BY <2>5, <3>1, <3>2 DEF AppSends, mainVars, tempVars
  <2>6. CASE AppCloses(x)
    BY <2>6 DEF AppCloses, mainVars, tempVars
  <2>7. CASE DeadlineExpires(x)
    BY <2>7 DEF DeadlineExpires, mainVars, tempVars
  <2> QED BY <1>4, <2>1, <2>2, <2>3, <2>4, <2>5, <2>6, <2>7 DEF SNext
<1>5. CASE ClientMain
  <2>1. ASSUME NEW x \in Side, NEW l \in {"wait", "soft"}, MainSends(x, l)
        PROVE  TypeOK'
    BY <2>1, Sends DEF MainSends, Goto, connVars
  <2>2. CASE ClientTakesKey
    BY <2>2 DEF ClientTakesKey, MainTakes, Goto, RGoto, connVars
  <2>3. CASE ClientRefuses
    BY <2>3 DEF ClientRefuses, MainTakes, Goto, RGoto
  <2>4. CASE ClientSoftCloses
    <3>1. deadline' \in [Side -> {"future", "past"}]
      BY <2>4 DEF ClientSoftCloses, SoftClose
    <3> QED BY <2>4, <3>1, Closes DEF ClientSoftCloses, Goto
  <2>5. CASE Wrap("c")
    BY <2>5 DEF Wrap, Goto, SGoto, tempVars, connVars
  <2> QED BY <1>5, <2>1, <2>2, <2>3, <2>4, <2>5 DEF ClientMain, ClientSends
<1>6. CASE ServerMain
  <2>1. CASE ServerSends
    BY <2>1, Sends DEF ServerSends, MainSends, Goto, connVars
  <2>2. CASE ServerTakes
    BY <2>2 DEF ServerTakes, MainTakes, Goto, RGoto, connVars
  <2>3. CASE ServerSoftCloses
    <3>1. deadline' \in [Side -> {"future", "past"}]
      BY <2>3 DEF ServerSoftCloses, SoftClose
    <3> QED BY <2>3, <3>1, Closes DEF ServerSoftCloses, Goto
  <2>4. CASE ServerChecks \/ Wrap("s")
    BY <2>4 DEF ServerChecks, Wrap, Goto, SGoto, tempVars, connVars
  <2> QED BY <1>6, <2>1, <2>2, <2>3, <2>4 DEF ServerMain
<1>7. CASE UNCHANGED vars
  BY <1>7 DEF vars, mainVars, tempVars, connVars
<1> QED BY <1>1, <1>2, <1>3, <1>4, <1>5, <1>6, <1>7 DEF Next

\* Every goroutine and builder of either side stays at a place of its own code, and the
\* receiver carries a frame exactly when it hands one over.
THEOREM TypeCorrect == Spec => []TypeOK
<1>1. Init => TypeOK
  <2>1. ASSUME Init PROVE config.frames \in Nat
    BY <2>1, HandshakeAssumption DEF Init, Config
  <2> QED BY <2>1 DEF Init, TypeOK, Both, Side, Frame
<1> QED BY <1>1, TypeStep, PTL DEF Spec

-----------------------------------------------------------------------------
(* The hello of a side, which is the server's key or the client's secret.  *)

\* Where it may be: in the sender channel, with W, on the connection, with the R of the
\* other side, and taken by the other builder.
InQueue(x)  == queued[x]
InWriter(x) == w[x] = "write"
OnNet(x)    == \E i \in 1..Len(net[Other(x)]) : net[Other(x)][i] = Hello(x)
InHand(x)   == carried[Other(x)] = Hello(x)
Taken(x)    == IF x = "c" THEN got = "secret"
               ELSE Secure("c") /\ main["c"] \in {"send", "soft", "wrap", "done"}

\* It is in one of these places only, and once.
OneHello(x) ==
  /\ InQueue(x) => ~InWriter(x) /\ ~OnNet(x) /\ ~InHand(x) /\ ~Taken(x)
  /\ InWriter(x) => ~OnNet(x) /\ ~InHand(x) /\ ~Taken(x)
  /\ OnNet(x) => ~InHand(x) /\ ~Taken(x)
  /\ InHand(x) => ~Taken(x)
  /\ \A i, j \in 1..Len(net[Other(x)]) :
       net[Other(x)][i] = Hello(x) /\ net[Other(x)][j] = Hello(x) => i = j

\* The builder of the side has sent it.
HasSent(x) ==
  Secure(x) /\ main[x] \notin (IF x = "s" THEN {"send"} ELSE {"wait", "send", "failed"})

SentFirst(x) ==
  InQueue(x) \/ InWriter(x) \/ OnNet(x) \/ InHand(x) \/ Taken(x) => HasSent(x)

\* What travels to x is the hello and the application's messages of the other side.
FromOther(x) == \A i \in 1..Len(net[x]) : net[x][i] \in {Hello(Other(x)), Own(Other(x))}

\* The secure session begins when the exchange is done, on the server with the secret.
Begins ==
  /\ \A x \in Side : /\ main[x] # "done" => Secure(x)
                     /\ Secure(x) /\ s[x] # "off" => main[x] = "done"
  /\ Secure("s") /\ main["s"] \in {"wrap", "done"} => got = "secret"
  /\ main["c"] # "check"

HelloOK(x) == OneHello(x) /\ SentFirst(x) /\ FromOther(x)

HelloInv == (\A x \in Side : HelloOK(x)) /\ Begins

\* A step that moves the hello of x on, if it moves it at all.
Forward(x) ==
  /\ InQueue(x)' => InQueue(x)
  /\ InWriter(x)' => InWriter(x) \/ (InQueue(x) /\ ~InQueue(x)')
  /\ OnNet(x)' => OnNet(x) \/ (InWriter(x) /\ ~InWriter(x)')
  /\ InHand(x)' => InHand(x) \/ (OnNet(x) /\ ~OnNet(x)')
  /\ Taken(x)' => Taken(x) \/ (InHand(x) /\ ~InHand(x)')
  /\ HasSent(x) => HasSent(x)'
  /\ \A i, j \in 1..Len(net'[Other(x)]) :
       net'[Other(x)][i] = Hello(x) /\ net'[Other(x)][j] = Hello(x) => i = j

\* A hello that only moves on stays in one place, after it was sent.
LEMMA ForwardKeeps ==
  ASSUME NEW x \in Side, OneHello(x), SentFirst(x), Forward(x)
  PROVE  OneHello(x)' /\ SentFirst(x)'
<1>1. SentFirst(x)'
  BY DEF Forward, SentFirst
<1>2. \A i, j \in 1..Len(net'[Other(x)]) :
        net'[Other(x)][i] = Hello(x) /\ net'[Other(x)][j] = Hello(x) => i = j
  BY DEF Forward
<1>3. /\ InQueue(x)' => ~InWriter(x)' /\ ~OnNet(x)' /\ ~InHand(x)' /\ ~Taken(x)'
      /\ InWriter(x)' => ~OnNet(x)' /\ ~InHand(x)' /\ ~Taken(x)'
      /\ OnNet(x)' => ~InHand(x)' /\ ~Taken(x)'
      /\ InHand(x)' => ~Taken(x)'
  BY DEF Forward, OneHello
<1> QED BY <1>1, <1>2, <1>3 DEF OneHello

\* A step that leaves the connection alone and moves nothing towards it keeps the hello
\* where it is, or drops it.
LEMMA Stays ==
  ASSUME NEW x \in Side, HelloOK(x), UNCHANGED <<config, net, got>>,
         queued'[x] => queued[x], w'[x] = "write" => w[x] = "write",
         carried'[Other(x)] \in {carried[Other(x)], "none"},
         HasSent(x) => HasSent(x)', Taken(x)' => Taken(x)
  PROVE  HelloOK(x)'
<1>1. FromOther(x)'
  BY DEF HelloOK, FromOther, Own, Secure
<1>2. InHand(x)' => InHand(x)
  BY DEF InHand, Hello
<1>3. OnNet(x)' <=> OnNet(x)
  BY DEF OnNet
<1>4. Forward(x)
  BY <1>2, <1>3 DEF Forward, HelloOK, OneHello, InQueue, InWriter
<1> QED BY <1>1, <1>4, ForwardKeeps DEF HelloOK

\* A receiver takes frames off the connection: the hello goes to its hand, or is lost.
LEMMA Receives ==
  ASSUME TypeOK, NEW x \in Side, HelloOK(x), UNCHANGED <<config, mainVars, queued, w>>,
         NEW z \in Side, net[z] # <<>>, TakeFrame(z),
         carried' = carried \/ carried' = [carried EXCEPT ![z] = Head(net[z])]
  PROVE  HelloOK(x)'
<1>1. net \in [Side -> Seq(Frame)] /\ carried \in [Side -> Frame \cup {"none"}] /\ Other(x) \in Side
  BY DEF TypeOK, Side, Other
<1>2. /\ net' \in [Side -> Seq(Frame)] /\ net' = [net EXCEPT ![z] = net'[z]]
      /\ \E n \in 1..Len(net[z]) : /\ Len(net'[z]) = Len(net[z]) - n
                                   /\ \A i \in 1..Len(net'[z]) : net'[z][i] = net[z][i + n]
  BY <1>1, Takes
<1>3. PICK n \in 1..Len(net[z]) : /\ Len(net'[z]) = Len(net[z]) - n
                                 /\ \A i \in 1..Len(net'[z]) : net'[z][i] = net[z][i + n]
  BY <1>2
<1>4. Len(net[z]) \in Nat /\ Head(net[z]) = net[z][1] /\ n \in Nat
  BY <1>1
<1>5. FromOther(x)'
  <2>1. CASE x = z
    <3>1. ASSUME NEW i \in 1..Len(net'[x])
          PROVE  net'[x][i] \in {Hello(Other(x)), Own(Other(x))}
      <4>1. i + n \in 1..Len(net[x]) /\ net'[x][i] = net[x][i + n]
        BY <1>3, <1>4, <2>1
      <4> QED BY <4>1 DEF HelloOK, FromOther
    <3> QED BY <3>1 DEF FromOther, Own, Secure
  <2>2. CASE x # z
    BY <1>1, <1>2, <2>2 DEF HelloOK, FromOther, Own, Secure
  <2> QED BY <2>1, <2>2
<1>6. HasSent(x)' = HasSent(x) /\ Taken(x)' = Taken(x)
  BY DEF HasSent, Taken, Secure, mainVars
<1>7. CASE z = Other(x)
  <2>1. OnNet(x)' => OnNet(x)
    BY <1>3, <1>4, <1>7 DEF OnNet
  <2>2. \A i, j \in 1..Len(net'[z]) : net'[z][i] = Hello(x) /\ net'[z][j] = Hello(x) => i = j
    <3> SUFFICES ASSUME NEW i \in 1..Len(net'[z]), NEW j \in 1..Len(net'[z]),
                        net'[z][i] = Hello(x), net'[z][j] = Hello(x)
                 PROVE  i = j
      OBVIOUS
    <3>1. i + n \in 1..Len(net[z]) /\ j + n \in 1..Len(net[z])
      BY <1>3, <1>4
    <3>2. net[z][i + n] = Hello(x) /\ net[z][j + n] = Hello(x)
      BY <1>3
    <3> QED BY <1>7, <1>4, <3>1, <3>2 DEF HelloOK, OneHello
  <2>3. InHand(x)' => InHand(x) \/ (OnNet(x) /\ ~OnNet(x)')
    <3> SUFFICES ASSUME carried'[z] = Hello(x), carried[z] # Hello(x)
                 PROVE  OnNet(x) /\ ~OnNet(x)'
      BY <1>7 DEF InHand, Hello
    <3>1. net[z][1] = Hello(x) /\ 1 \in 1..Len(net[z])
      BY <1>1, <1>4
    <3>2. \A i \in 1..Len(net'[z]) : net'[z][i] # Hello(x)
      <4> SUFFICES ASSUME NEW i \in 1..Len(net'[z]), net'[z][i] = Hello(x) PROVE FALSE
        OBVIOUS
      <4>1. i + n \in 1..Len(net[z]) /\ net[z][i + n] = Hello(x) /\ i + n # 1
        BY <1>3, <1>4
      <4> QED BY <3>1, <4>1, <1>7 DEF HelloOK, OneHello
    <3> QED BY <3>1, <3>2, <1>7 DEF OnNet, Hello
  <2>4. Forward(x)
    BY <1>6, <1>7, <2>1, <2>2, <2>3 DEF Forward, InQueue, InWriter
  <2> QED BY <2>4, <1>5, ForwardKeeps DEF HelloOK
<1>8. CASE z # Other(x)
  <2>1. net'[Other(x)] = net[Other(x)] /\ carried'[Other(x)] = carried[Other(x)]
    BY <1>1, <1>2, <1>8
  <2>2. InHand(x)' = InHand(x) /\ OnNet(x)' = OnNet(x)
    BY <2>1 DEF InHand, OnNet, Hello
  <2>3. Forward(x)
    BY <1>6, <2>1, <2>2 DEF Forward, InQueue, InWriter, HelloOK, OneHello
  <2> QED BY <2>3, <1>5, ForwardKeeps DEF HelloOK
<1> QED BY <1>7, <1>8

\* A frame is appended for the other side: the hello, which leaves W, or one of the
\* application.
LEMMA Writes ==
  ASSUME TypeOK, NEW x \in Side, HelloOK(x), UNCHANGED <<config, mainVars, queued, carried>>,
         NEW z \in Side, NEW f \in Frame, PutFrame(z, f),
         \/ f = Own(z) /\ UNCHANGED w
         \/ f = Hello(z) /\ w[z] = "write" /\ w' = [w EXCEPT ![z] = "select"]
  PROVE  HelloOK(x)'
<1>1. /\ net \in [Side -> Seq(Frame)] /\ w \in [Side -> {"select", "write", "done"}]
      /\ Other(x) \in Side /\ Other(z) \in Side
  BY DEF TypeOK, Side, Other
<1>2. HasSent(x)' = HasSent(x) /\ Taken(x)' = Taken(x) /\ InHand(x)' = InHand(x)
  BY DEF HasSent, Taken, InHand, Secure, mainVars, Hello
<1>3. InWriter(x)' => InWriter(x)
  BY <1>1 DEF InWriter
<1>4. CASE net' = net
  <2>1. FromOther(x)' /\ OnNet(x)' = OnNet(x)
    BY <1>4 DEF HelloOK, FromOther, Own, Secure, OnNet, Hello
  <2> QED BY <1>2, <1>3, <1>4, <2>1, ForwardKeeps DEF Forward, InQueue, HelloOK, OneHello
<1>5. CASE net' = [net EXCEPT ![Other(z)] = Append(@, f)]
  <2>1. net[Other(z)] \in Seq(Frame) /\ Len(net[Other(z)]) \in Nat
    BY <1>1
  <2>2. /\ Len(net'[Other(z)]) = Len(net[Other(z)]) + 1
        /\ net'[Other(z)][Len(net[Other(z)]) + 1] = f
        /\ \A i \in 1..Len(net[Other(z)]) : net'[Other(z)][i] = net[Other(z)][i]
    BY <1>1, <1>5, <2>1
  <2>3. FromOther(x)'
    <3>1. CASE x = Other(z)
      <4>1. z = Other(x)
        BY <3>1 DEF Other, Side
      <4> QED BY <2>1, <2>2, <3>1, <4>1, SMTT(30) DEF HelloOK, FromOther, Own, Secure
    <3>2. CASE x # Other(z)
      BY <1>1, <1>5, <3>2 DEF HelloOK, FromOther, Own, Secure
    <3> QED BY <3>1, <3>2
  <2>4. CASE x # z \/ f # Hello(x)
    <3>1. CASE x = z
      <4>1. \A i \in 1..Len(net'[Other(x)]) :
              net'[Other(x)][i] = Hello(x) => i \in 1..Len(net[Other(x)]) /\ net[Other(x)][i] = Hello(x)
        BY <2>1, <2>2, <2>4, <3>1
      <4>2. OnNet(x)' => OnNet(x)
        BY <4>1 DEF OnNet
      <4>3. \A i, j \in 1..Len(net'[Other(x)]) :
              net'[Other(x)][i] = Hello(x) /\ net'[Other(x)][j] = Hello(x) => i = j
        BY <4>1 DEF HelloOK, OneHello
      <4> QED BY <1>2, <1>3, <2>3, <4>2, <4>3, ForwardKeeps DEF Forward, InQueue, HelloOK
    <3>2. CASE x # z
      <4>1. net'[Other(x)] = net[Other(x)]
        BY <1>1, <1>5, <3>2 DEF Other, Side
      <4>2. OnNet(x)' = OnNet(x)
        BY <4>1 DEF OnNet
      <4> QED BY <1>2, <1>3, <2>3, <4>1, <4>2, ForwardKeeps DEF Forward, InQueue, HelloOK, OneHello
    <3> QED BY <3>1, <3>2
  <2>5. CASE x = z /\ f = Hello(x)
    <3>1. InWriter(x) /\ ~InWriter(x)' /\ ~OnNet(x)
      BY <1>1, <2>5 DEF InWriter, HelloOK, OneHello, Hello, Own
    <3>2. \A i \in 1..Len(net[Other(x)]) : net[Other(x)][i] # Hello(x)
      BY <3>1 DEF OnNet
    <3>3. \A i, j \in 1..Len(net'[Other(x)]) :
            net'[Other(x)][i] = Hello(x) /\ net'[Other(x)][j] = Hello(x) => i = j
      BY <2>1, <2>2, <2>5, <3>2
    <3> QED BY <1>2, <1>3, <2>3, <3>1, <3>3, ForwardKeeps DEF Forward, InQueue, HelloOK
  <2> QED BY <2>4, <2>5
<1> QED BY <1>1, <1>4, <1>5, Puts

\* W takes the hello from the sender channel.
LEMMA Dequeues ==
  ASSUME TypeOK, NEW x \in Side, HelloOK(x), NEW z \in Side, WTake(z)
  PROVE  HelloOK(x)'
<1>1. queued \in [Side -> BOOLEAN] /\ w \in [Side -> {"select", "write", "done"}]
  BY DEF TypeOK
<1>2. FromOther(x)' /\ OnNet(x)' = OnNet(x)
  BY DEF WTake, connVars, HelloOK, FromOther, Own, Secure, OnNet, Hello
<1>3. HasSent(x)' = HasSent(x) /\ Taken(x)' = Taken(x) /\ InHand(x)' = InHand(x)
  BY DEF WTake, HasSent, Taken, InHand, Secure, mainVars, Hello
<1>4. /\ InQueue(x)' => InQueue(x)
      /\ InWriter(x)' => InWriter(x) \/ (InQueue(x) /\ ~InQueue(x)')
  BY <1>1 DEF WTake, WGoto, InQueue, InWriter
<1>5. Forward(x)
  BY <1>2, <1>3, <1>4 DEF WTake, connVars, Forward, HelloOK, OneHello
<1> QED BY <1>2, <1>5, ForwardKeeps DEF HelloOK

\* A builder sends its hello: nothing of it was anywhere before.
LEMMA Greets ==
  ASSUME TypeOK, Begins, NEW x \in Side, HelloOK(x),
         NEW z \in Side, MainSends(z, IF z = "s" THEN "wait" ELSE "soft")
  PROVE  HelloOK(x)'
<1>1. /\ queued \in [Side -> BOOLEAN] /\ w \in [Side -> {"select", "write", "done"}]
      /\ \A y \in Side : main[y] \in {"send", "wait", "soft", "check", "wrap", "done", "failed"}
      /\ main \in [Side -> {"send", "wait", "soft", "check", "wrap", "done", "failed"}]
  BY DEF TypeOK
<1>2. /\ main[z] = "send" /\ main' = [main EXCEPT ![z] = IF z = "s" THEN "wait" ELSE "soft"]
      /\ UNCHANGED <<config, got, carried, net>>
  BY DEF MainSends, Goto, connVars
<1>3. \/ queued' = [queued EXCEPT ![z] = TRUE] /\ w' = w
      \/ queued' = queued /\ w' = [w EXCEPT ![z] = "write"]
  BY Sends
<1>4. FromOther(x)' /\ (OnNet(x)' <=> OnNet(x)) /\ (InHand(x)' <=> InHand(x))
  BY <1>2 DEF HelloOK, FromOther, Own, Secure, OnNet, Hello, InHand
<1>5. Taken(x)' <=> Taken(x)
  BY <1>1, <1>2 DEF Taken, Secure, Side
<1>6. CASE x # z
  <2>1. HasSent(x)' <=> HasSent(x)
    BY <1>1, <1>2, <1>6 DEF HasSent, Secure
  <2>2. (InQueue(x)' <=> InQueue(x)) /\ (InWriter(x)' <=> InWriter(x))
    BY <1>1, <1>3, <1>6 DEF InQueue, InWriter
  <2>3. Forward(x)
    BY <1>2, <1>4, <1>5, <2>1, <2>2 DEF Forward, HelloOK, OneHello
  <2> QED BY <1>4, <2>3, ForwardKeeps DEF HelloOK
<1>7. CASE x = z
  <2>1. ~HasSent(x) /\ HasSent(x)'
    BY <1>1, <1>2, <1>7 DEF HasSent, Secure, Begins, Side
  <2>2. ~InQueue(x) /\ ~InWriter(x) /\ ~OnNet(x) /\ ~InHand(x) /\ ~Taken(x)
    BY <2>1 DEF HelloOK, SentFirst
  <2>3. InQueue(x)' => ~InWriter(x)'
    BY <1>1, <1>3, <1>7, <2>2 DEF InQueue, InWriter
  <2>4. \A i, j \in 1..Len(net'[Other(x)]) :
          net'[Other(x)][i] = Hello(x) /\ net'[Other(x)][j] = Hello(x) => i = j
    BY <1>2 DEF HelloOK, OneHello
  <2>5. OneHello(x)' /\ SentFirst(x)'
    BY <1>4, <1>5, <2>1, <2>2, <2>3, <2>4 DEF OneHello, SentFirst
  <2> QED BY <1>4, <2>5 DEF HelloOK
<1> QED BY <1>6, <1>7

\* A builder takes the hello of the other side from the receiver's hand.
LEMMA Accepts ==
  ASSUME TypeOK, NEW x \in Side, HelloOK(x), ClientTakesKey \/ ServerTakes
  PROVE  HelloOK(x)'
<1>1. /\ main \in [Side -> {"send", "wait", "soft", "check", "wrap", "done", "failed"}]
      /\ carried \in [Side -> Frame \cup {"none"}]
  BY DEF TypeOK
<1>2. UNCHANGED <<config, net, queued, w>>
  BY DEF ClientTakesKey, ServerTakes, connVars
<1>3. FromOther(x)' /\ (OnNet(x)' <=> OnNet(x))
  BY <1>2 DEF HelloOK, FromOther, Own, Secure, OnNet, Hello
<1>4. HasSent(x) => HasSent(x)'
  BY <1>1, <1>2 DEF HasSent, Secure, ClientTakesKey, ServerTakes, MainTakes, Goto, Side
<1>5. InHand(x)' => InHand(x)
  BY <1>1 DEF InHand, Hello, ClientTakesKey, ServerTakes, MainTakes, Side, Other
<1>6. Taken(x)' => Taken(x) \/ (InHand(x) /\ ~InHand(x)')
  BY <1>1, <1>2 DEF Taken, InHand, Hello, ClientTakesKey, ServerTakes, MainTakes, Goto, Secure,
                    Side, Other
<1>7. Forward(x)
  BY <1>2, <1>3, <1>4, <1>5, <1>6 DEF Forward, InQueue, InWriter, HelloOK, OneHello
<1> QED BY <1>3, <1>7, ForwardKeeps DEF HelloOK

\* Every step keeps the hello of either side where it may be.
LEMMA HelloStep ==
  ASSUME TypeOK, HelloInv, [Next]_vars, NEW x \in Side
  PROVE  HelloOK(x)'
<1>1. /\ HelloOK(x) /\ Begins /\ Other(x) \in Side
      /\ main \in [Side -> {"send", "wait", "soft", "check", "wrap", "done", "failed"}]
      /\ w \in [Side -> {"select", "write", "done"}]
      /\ carried \in [Side -> Frame \cup {"none"}] /\ net \in [Side -> Seq(Frame)]
  BY DEF HelloInv, TypeOK, Side, Other
<1>2. ASSUME UNCHANGED <<config, mainVars, queued, carried, net>>,
             w' = w \/ \E z \in Side : w' = [w EXCEPT ![z] = "done"]
      PROVE  HelloOK(x)'
  <2>1. (HasSent(x)' <=> HasSent(x)) /\ (Taken(x)' <=> Taken(x))
    BY <1>2 DEF HasSent, Taken, Secure, mainVars
  <2> QED BY <1>1, <1>2, <2>1, Stays DEF mainVars
<1>3. ASSUME NEW z \in Side, RNext(z) PROVE HelloOK(x)'
  <2>1. CASE RShutdown(z) \/ RPoll(z) \/ RPollFails(z) \/ REOF(z) \/ RFails(z)
    BY <1>2, <2>1 DEF RShutdown, RPoll, RPollFails, REOF, RFails, REnds, connVars
  <2>2. CASE RRead(z)
    BY <1>1, <2>2, Receives DEF RRead, Readable
  <2>3. CASE RRefuses(z)
    BY <1>1, <2>3, Receives DEF RRefuses, REnds, Readable
  <2> QED BY <1>3, <2>1, <2>2, <2>3 DEF RNext
<1>4. ASSUME NEW z \in Side, WNext(z) PROVE HelloOK(x)'
  <2>1. CASE WShutdown(z) \/ WFails(z)
    BY <1>2, <2>1 DEF WShutdown, WFails, WEnds, WGoto
  <2>2. CASE WTake(z)
    BY <1>1, <2>2, Dequeues
  <2>3. CASE WWrite(z)
    BY <1>1, <2>3, Writes DEF WWrite, WGoto, Hello, Frame
  <2> QED BY <1>4, <2>1, <2>2, <2>3 DEF WNext
<1>5. ASSUME NEW z \in Side,
             IFire(z) \/ KNext(z) \/ AppCloses(z) \/ DeadlineExpires(z) \/ Wrap(z)
      PROVE  HelloOK(x)'
  <2>1. CASE IFire(z) \/ KNext(z) \/ AppCloses(z) \/ DeadlineExpires(z)
    BY <1>2, <2>1 DEF IFire, KNext, KDeadline, KSignals, AppCloses, DeadlineExpires, tempVars,
                      connVars
  <2>2. CASE Wrap(z)
    <3>1. (HasSent(x) => HasSent(x)') /\ (Taken(x)' <=> Taken(x))
      BY <1>1, <2>2 DEF HasSent, Taken, Secure, Wrap, Goto, tempVars, Side
    <3> QED BY <1>1, <2>2, <3>1, Stays DEF Wrap, tempVars, connVars
  <2> QED BY <1>5, <2>1, <2>2
<1>6. ASSUME NEW z \in Side, SNext(z) \/ AppSends(z) PROVE HelloOK(x)'
  <2>1. CASE SPoll(z) \/ SEOF(z) \/ SFails(z)
    BY <1>2, <2>1 DEF SPoll, SEOF, SFails, tempVars, connVars
  <2>2. CASE SRead(z)
    BY <1>1, <2>2, Receives DEF SRead, Readable, tempVars
  <2>3. CASE AppSends(z)
    BY <1>1, <2>3, Writes DEF AppSends, tempVars, Own, Frame
  <2> QED BY <1>6, <2>1, <2>2, <2>3 DEF SNext
<1>7. CASE ClientMain
  <2>1. CASE ClientTakesKey
    BY <1>1, <2>1, Accepts
  <2>2. CASE ClientRefuses
    <3>1. (HasSent(x) => HasSent(x)') /\ (Taken(x)' <=> Taken(x))
      BY <1>1, <2>2 DEF HasSent, Taken, Secure, ClientRefuses, MainTakes, Goto, Side
    <3> QED BY <1>1, <2>2, <3>1, Stays DEF ClientRefuses, MainTakes
  <2>3. CASE ClientSends
    BY <1>1, <2>3, Greets DEF ClientSends, Side
  <2>4. CASE ClientSoftCloses
    <3>1. (HasSent(x) => HasSent(x)') /\ (Taken(x)' <=> Taken(x))
      BY <1>1, <2>4 DEF HasSent, Taken, Secure, ClientSoftCloses, Goto, Side
    <3> QED BY <1>1, <2>4, <3>1, Stays DEF ClientSoftCloses
  <2> QED BY <1>5, <1>7, <2>1, <2>2, <2>3, <2>4 DEF ClientMain, Side
<1>8. CASE ServerMain
  <2>1. CASE ServerSends
    BY <1>1, <2>1, Greets DEF ServerSends, Side
  <2>2. CASE ServerTakes
    BY <1>1, <2>2, Accepts
  <2>3. CASE ServerSoftCloses
    <3>1. (HasSent(x) => HasSent(x)') /\ (Taken(x)' <=> Taken(x))
      BY <1>1, <2>3 DEF HasSent, Taken, Secure, ServerSoftCloses, Goto, Side
    <3> QED BY <1>1, <2>3, <3>1, Stays DEF ServerSoftCloses
  <2>4. CASE ServerChecks
    <3>1. (HasSent(x) => HasSent(x)') /\ (Taken(x)' <=> Taken(x))
      BY <1>1, <2>4 DEF HasSent, Taken, Secure, ServerChecks, Goto, tempVars, Side
    <3> QED BY <1>1, <2>4, <3>1, Stays DEF ServerChecks, tempVars, connVars
  <2> QED BY <1>5, <1>8, <2>1, <2>2, <2>3, <2>4 DEF ServerMain, Side
<1>9. CASE UNCHANGED vars
  BY <1>2, <1>9 DEF vars, tempVars, connVars
<1> QED BY <1>3, <1>4, <1>5, <1>6, <1>7, <1>8, <1>9 DEF Next

\* A secure session begins only where the exchange has come to its end.
LEMMA BeginsStep ==
  ASSUME TypeOK, Begins, [Next]_vars
  PROVE  Begins'
<1>1. /\ main \in [Side -> {"send", "wait", "soft", "check", "wrap", "done", "failed"}]
      /\ s \in [Side -> {"off", "poll", "read", "done"}]
  BY DEF TypeOK
<1>2. CASE UNCHANGED <<config, mainVars, s>>
  BY <1>2 DEF Begins, Secure, mainVars
<1>3. ASSUME NEW z \in Side, SNext(z) PROVE Begins'
  <2>1. UNCHANGED <<config, mainVars>>
    BY <1>3 DEF SNext, SPoll, SRead, SEOF, SFails
  <2>2. s[z] # "off" /\ \E l \in {"poll", "read", "done"} : s' = [s EXCEPT ![z] = l]
    BY <1>3 DEF SNext, SPoll, SRead, SEOF, SFails, SEnds, SGoto
  <2> QED BY <1>1, <2>1, <2>2 DEF Begins, Secure, mainVars
<1>4. ASSUME NEW z \in Side, Wrap(z) PROVE Begins'
  BY <1>1, <1>4 DEF Wrap, Goto, SGoto, Begins, Secure, mainVars
<1>5. CASE ClientMain /\ ~Wrap("c")
  <2>1. /\ main["c"] # "done" /\ UNCHANGED <<config, got, s>>
        /\ \E l \in {"send", "soft", "wrap", "failed"} : main' = [main EXCEPT !["c"] = l]
    BY <1>5 DEF ClientMain, ClientTakesKey, ClientRefuses, ClientSends, ClientSoftCloses, MainSends,
                MainTakes, Goto
  <2> QED BY <1>1, <2>1 DEF Begins, Secure, Side
<1>6. CASE ServerMain /\ ~Wrap("s")
  <2>1. /\ main["s"] # "done" /\ UNCHANGED <<config, s>>
        /\ \/ \E l \in {"wait", "soft", "check", "failed"} : main' = [main EXCEPT !["s"] = l]
           \/ got = "secret" /\ got' = got /\ main' = [main EXCEPT !["s"] = "wrap"]
    BY <1>6 DEF ServerMain, ServerSends, ServerTakes, ServerSoftCloses, ServerChecks, MainSends,
                MainTakes, Goto
  <2> QED BY <1>1, <2>1 DEF Begins, Secure, Side
<1>7. ASSUME NEW z \in Side,
             RNext(z) \/ WNext(z) \/ IFire(z) \/ KNext(z) \/ AppSends(z) \/ AppCloses(z)
               \/ DeadlineExpires(z)
      PROVE  UNCHANGED <<config, mainVars, s>>
  BY <1>7 DEF RNext, RShutdown, RPoll, RPollFails, RRead, RRefuses, REOF, RFails, REnds,
              WNext, WShutdown, WTake, WWrite, WFails, WEnds, IFire, KNext, KDeadline, KSignals,
              AppSends, AppCloses, DeadlineExpires
<1> QED BY <1>2, <1>3, <1>4, <1>5, <1>6, <1>7 DEF Next, vars, ClientMain, ServerMain, Side

\* The hello of each side is in one place, and was sent; no secure session is ahead of the
\* exchange: the invariant that SameKeys and SecureReadsEncrypted follow from.
THEOREM HelloCorrect == Spec => []HelloInv
<1>1. ASSUME Init PROVE HelloInv
  <2>1. ASSUME NEW x \in Side
        PROVE  /\ ~InQueue(x) /\ ~InWriter(x) /\ ~OnNet(x) /\ ~InHand(x) /\ ~Taken(x)
               /\ net[x] = <<>> /\ net[Other(x)] = <<>>
    BY <1>1 DEF Init, InQueue, InWriter, OnNet, InHand, Taken, Both, Side, Other, Hello, Secure
  <2>2. \A x \in Side : HelloOK(x)
    BY <2>1 DEF HelloOK, OneHello, SentFirst, FromOther
  <2>3. Begins
    BY <1>1 DEF Begins, Init, Side, Secure
  <2> QED BY <2>2, <2>3 DEF HelloInv
<1>2. TypeOK /\ HelloInv /\ [Next]_vars => HelloInv'
  <2> SUFFICES ASSUME TypeOK, HelloInv, [Next]_vars PROVE HelloInv'
    OBVIOUS
  <2>1. Begins'
    BY BeginsStep DEF HelloInv
  <2>2. \A x \in Side : HelloOK(x)'
    BY HelloStep
  <2> QED BY <2>1, <2>2 DEF HelloInv
<1> QED BY <1>1, <1>2, TypeCorrect, PTL DEF Spec

\* Neither builder returns a session that shares no key with the other one's: the server
\* has the client's secret, which only a client that was given the server's key has sent.
THEOREM KeysAreShared == Spec => []SameKeys
<1>1. HelloInv /\ TypeOK => SameKeys
  <2> SUFFICES ASSUME HelloInv, TypeOK PROVE SameKeys
    OBVIOUS
  <2>1. SentFirst("c") /\ SentFirst("s") /\ Begins
    BY DEF HelloInv, HelloOK, Side
  <2>2. ASSUME main["s"] = "done", Secure("s")
        PROVE  Secure("c") /\ main["c"] \in {"soft", "wrap", "done"}
    <3>1. Taken("c")
      BY <2>1, <2>2 DEF Begins, Taken
    <3>2. Secure("c") /\ main["c"] \notin {"wait", "send", "failed"}
      BY <2>1, <3>1 DEF SentFirst, HasSent
    <3> QED BY <2>1, <3>2 DEF TypeOK, Side, Begins
  <2>3. ASSUME main["c"] \in {"soft", "wrap", "done"}, Secure("c")
        PROVE  Secure("s") /\ main["s"] \notin {"send"}
    BY <2>1, <2>3 DEF SentFirst, Taken, HasSent
  <2> QED BY <2>2, <2>3 DEF SameKeys
<1> QED BY <1>1, HelloCorrect, TypeCorrect, PTL

\* When the receiver of a secure session reads, the hello of the other side has been taken,
\* so that it is no longer on the connection, and its application sends with keys.
THEOREM SecureReads == Spec => []SecureReadsEncrypted
<1>1. HelloInv /\ TypeOK => SecureReadsEncrypted
  <2> SUFFICES ASSUME HelloInv, TypeOK, NEW x \in Side, Secure(x), s[x] \in {"poll", "read"},
                      NEW i \in 1..Len(net[x])
               PROVE  net[x][i] = "enc"
    BY DEF SecureReadsEncrypted
  <2>1. Other(x) \in Side /\ Other(Other(x)) = x
    BY DEF Side, Other
  <2>2. HelloOK(x) /\ HelloOK(Other(x)) /\ Begins
    BY <2>1 DEF HelloInv
  <2>3. main[x] = "done"
    BY <2>2 DEF Begins
  <2>4. Taken(Other(x))
    BY <2>2, <2>3 DEF Begins, Taken, Other, Side
  <2>5. Secure(Other(x)) /\ ~OnNet(Other(x))
    BY <2>2, <2>4 DEF HelloOK, SentFirst, OneHello, HasSent
  <2> QED BY <2>1, <2>2, <2>5 DEF HelloOK, FromOther, OnNet, Own
<1> QED BY <1>1, HelloCorrect, TypeCorrect, PTL
=============================================================================
