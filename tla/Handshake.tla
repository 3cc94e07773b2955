------------------------------- MODULE Handshake -------------------------------
(***************************************************************************)
(* The secure handshake: buildTcpClient and startServerListening, which    *)
(* run two sessions in turn on one connection.  On each side x             *)
(*   main  the builder (client "c") or the accept loop (server "s")        *)
(*   R, W, I, K  the temporary session: receiver, sender, idle check and   *)
(*               the goroutine of closeLogic                               *)
(*   S     the receiver of the session wrapped after the exchange          *)
(* The two sessions share the connection: its bytes, its read deadline and *)
(* its closing.  The server sends its public key, the client answers with  *)
(* its secret (the keys of the session to come, encrypted), and both leave *)
(* the temporary session by softClose.  Close and softClose are one step   *)
(* each; module Session opens them up.  A side may also be insecure: then  *)
(* it runs one session, whose receiver is S, without keys.                 *)
(***************************************************************************)
EXTENDS Naturals, Sequences

CONSTANT Configs  \* the settings to consider

Side     == {"c", "s"}
Other(x) == IF x = "c" THEN "s" ELSE "c"

\* A setting: whether each side is secure, the size of the temporary sender channels,
\* whether all is calm (nothing times out and no application closes), and the bound on the
\* frames each application sends.
Config == [secure : SUBSET Side, buffer : 0..1, calm : BOOLEAN, frames : Nat]

ASSUME HandshakeAssumption == Configs \subseteq Config

VARIABLES
  config,     \* the setting, fixed
  main,       \* where each builder is
  got,        \* the frame the accept loop has received
  r, w, k,    \* where R, W and K of the temporary session are
  carried,    \* the frame R is handing over
  queued,     \* the sender channel holds the message of the handshake
  ended,      \* how the temporary session was closed: "no", "soft" or "hard"
  rsd, wsd,   \* a signal is in readerShutdown, in writerShutdown
  s,          \* where S is
  net,        \* frames on their way to each side
  connOpen,   \* the side has not closed the connection
  deadline,   \* its read deadline: "future" or "past"
  sent        \* frames sent by each application

mainVars == <<main, got>>
tempVars == <<r, w, k, carried, queued, ended, rsd, wsd>>
connVars == <<net, connOpen, deadline>>
vars == <<config, mainVars, tempVars, s, connVars, sent>>

\* The kinds of frames: the two of the handshake, and those of the applications
\* without and with keys.
Frame  == {"key", "secret", "plain", "enc"}
Hello(x) == IF x = "s" THEN "key" ELSE "secret"
Secure(x) == x \in config.secure
BothSecure == config.secure = Side
Own(x) == IF Secure(x) THEN "enc" ELSE "plain"

Goto(x, l)  == main' = [main EXCEPT ![x] = l]
RGoto(x, l) == r' = [r EXCEPT ![x] = l]
WGoto(x, l) == w' = [w EXCEPT ![x] = l]
SGoto(x, l) == s' = [s EXCEPT ![x] = l]

Both(v) == [x \in Side |-> v]

Init ==
  /\ config \in Configs
  /\ main = [x \in Side |-> IF ~Secure(x) THEN "done" ELSE IF x = "s" THEN "send" ELSE "wait"]
  /\ r = [x \in Side |-> IF Secure(x) THEN "poll" ELSE "done"]
  /\ w = [x \in Side |-> IF Secure(x) THEN "select" ELSE "done"]
  /\ s = [x \in Side |-> IF Secure(x) THEN "off" ELSE "poll"]
  /\ k = Both("none") /\ got = "none" /\ carried = Both("none") /\ queued = Both(FALSE)
  /\ ended = Both("no") /\ rsd = Both(FALSE) /\ wsd = Both(FALSE)
  /\ net = Both(<<>>) /\ connOpen = Both(TRUE) /\ deadline = Both("future")
  /\ sent = Both(0)

-----------------------------------------------------------------------------
(* The connection, as a reader sees it. *)

Readable(x) == connOpen[x] /\ deadline[x] = "future" /\ net[x] # <<>>
AtEOF(x)    == connOpen[x] /\ deadline[x] = "future" /\ net[x] = <<>> /\ ~connOpen[Other(x)]
Broken(x)   == ~connOpen[x] \/ deadline[x] = "past" \/ ~connOpen[Other(x)]

\* The reader's bufio.Reader may take frames that follow the first one, which are
\* then lost with it.
TakeFrame(x) == \E n \in 2..Len(net[x]) + 1 : net' = [net EXCEPT ![x] = SubSeq(@, n, Len(@))]

PutFrame(x, f) == net' = IF connOpen[Other(x)] THEN [net EXCEPT ![Other(x)] = Append(@, f)]
                                               ELSE net

-----------------------------------------------------------------------------
(* R, W, I and K of the temporary session. *)

\* Close of the temporary session: nothing if it is closed already.
TempClose(x) ==
  IF ended[x] # "no" THEN UNCHANGED <<ended, k, connOpen>>
  ELSE /\ ended' = [ended EXCEPT ![x] = "hard"] /\ k' = [k EXCEPT ![x] = "deadline"]
       /\ connOpen' = [connOpen EXCEPT ![x] = FALSE]

REnds(x) == /\ RGoto(x, "done") /\ TempClose(x)
            /\ UNCHANGED <<config, mainVars, w, queued, wsd, s, sent>>

RShutdown(x) == /\ r[x] = "poll" /\ rsd[x] /\ REnds(x) /\ rsd' = [rsd EXCEPT ![x] = FALSE]
                /\ UNCHANGED <<carried, net, deadline>>

RPoll(x) == /\ r[x] = "poll" /\ ~rsd[x] /\ connOpen[x] /\ RGoto(x, "read")
            /\ deadline' = [deadline EXCEPT ![x] = "future"]
            /\ UNCHANGED <<config, mainVars, w, k, carried, queued, ended, rsd, wsd, s, net,
                           connOpen, sent>>

RPollFails(x) == /\ r[x] = "poll" /\ ~rsd[x] /\ ~connOpen[x] /\ REnds(x)
                 /\ UNCHANGED <<carried, rsd, net, deadline>>

\* A frame of the handshake is for main; one of an insecure application is for main, for
\* a route, or of an unknown type; an encrypted one cannot be read without keys.
RRead(x) ==
  /\ r[x] = "read" /\ Readable(x) /\ TakeFrame(x)
  /\ LET f == Head(net[x]) IN
     \/ /\ f # "enc" /\ RGoto(x, "deliver") /\ carried' = [carried EXCEPT ![x] = f]
     \/ /\ f = "plain" /\ RGoto(x, "poll") /\ UNCHANGED carried
  /\ UNCHANGED <<config, mainVars, w, k, queued, ended, rsd, wsd, s, connOpen, deadline, sent>>

RRefuses(x) ==
  /\ r[x] = "read" /\ Readable(x) /\ TakeFrame(x) /\ Head(net[x]) \in {"plain", "enc"}
  /\ REnds(x) /\ UNCHANGED <<carried, rsd, deadline>>

REOF(x) == /\ r[x] = "read" /\ AtEOF(x) /\ RGoto(x, "poll")
           /\ UNCHANGED <<config, mainVars, w, k, carried, queued, ended, rsd, wsd, s, connVars,
                          sent>>

RFails(x) == /\ r[x] = "read" /\ Broken(x) /\ REnds(x)
             /\ UNCHANGED <<carried, rsd, net, deadline>>

\* The select of the sender takes any case that is ready.
WEnds(x) == /\ WGoto(x, "done") /\ TempClose(x)
            /\ UNCHANGED <<config, mainVars, r, carried, queued, rsd, s, net, deadline, sent>>

WShutdown(x) == /\ w[x] = "select" /\ wsd[x] /\ WEnds(x) /\ wsd' = [wsd EXCEPT ![x] = FALSE]

WTake(x) == /\ w[x] = "select" /\ queued[x] /\ queued' = [queued EXCEPT ![x] = FALSE]
            /\ WGoto(x, "write")
            /\ UNCHANGED <<config, mainVars, r, k, carried, ended, rsd, wsd, s, connVars, sent>>

WWrite(x) == /\ w[x] = "write" /\ connOpen[x] /\ PutFrame(x, Hello(x)) /\ WGoto(x, "select")
             /\ UNCHANGED <<config, mainVars, r, k, carried, queued, ended, rsd, wsd, s, connOpen,
                            deadline, sent>>

WFails(x) == /\ w[x] = "write" /\ (~connOpen[x] \/ ~connOpen[Other(x)]) /\ WEnds(x)
             /\ UNCHANGED wsd

\* The idle check of the temporary session, which goes on after softClose without effect.
\* Mutant: it gives up once the other side has closed.
IFireDeaf(x) == /\ ~config.calm /\ Secure(x) /\ ended[x] = "no" /\ connOpen[Other(x)] /\ TempClose(x)
                /\ UNCHANGED <<config, mainVars, r, w, carried, queued, rsd, wsd, s, net, deadline,
                               sent>>

IFire(x) == /\ ~config.calm /\ Secure(x) /\ ended[x] = "no" /\ TempClose(x)
            /\ UNCHANGED <<config, mainVars, r, w, carried, queued, rsd, wsd, s, net, deadline,
                           sent>>

KDeadline(x) == /\ k[x] = "deadline" /\ k' = [k EXCEPT ![x] = "signal"]
                /\ deadline' = IF connOpen[x] THEN [deadline EXCEPT ![x] = "past"] ELSE deadline
                /\ UNCHANGED <<config, mainVars, r, w, carried, queued, ended, rsd, wsd, s, net,
                               connOpen, sent>>

\* Both channels have room, so both signals are sent.  Mutant: the sender gets none.
KSignalsOne(x) == /\ k[x] = "signal" /\ k' = [k EXCEPT ![x] = "done"]
                  /\ rsd' = [rsd EXCEPT ![x] = TRUE] /\ UNCHANGED wsd
                  /\ UNCHANGED <<config, mainVars, r, w, carried, queued, ended, s, connVars, sent>>

KSignals(x) == /\ k[x] = "signal" /\ k' = [k EXCEPT ![x] = "done"]
               /\ rsd' = [rsd EXCEPT ![x] = TRUE] /\ wsd' = [wsd EXCEPT ![x] = TRUE]
               /\ UNCHANGED <<config, mainVars, r, w, carried, queued, ended, s, connVars, sent>>

-----------------------------------------------------------------------------
(* main: what the builder of either side does on the temporary session.    *)

\* GetSender() <- ...: into the buffer, or to W when there is none.
MainSends(x, next) ==
  /\ main[x] = "send" /\ Goto(x, next)
  /\ IF config.buffer > 0 THEN queued' = [queued EXCEPT ![x] = TRUE] /\ UNCHANGED w
     ELSE w[x] = "select" /\ WGoto(x, "write") /\ UNCHANGED queued
  /\ UNCHANGED <<config, got, r, k, carried, ended, rsd, wsd, s, connVars, sent>>

\* <-GetReceiver(): main takes what R hands over.  Mutant: R keeps it.
MainTakesCopy(x) == /\ main[x] = "wait" /\ r[x] = "deliver" /\ RGoto(x, "poll")
                    /\ UNCHANGED carried

MainTakes(x) == /\ main[x] = "wait" /\ r[x] = "deliver" /\ RGoto(x, "poll")
                /\ carried' = [carried EXCEPT ![x] = "none"]

\* softClose expires the read deadline and runs closeLogic.
SoftClose(x) ==
  IF ended[x] # "no" THEN UNCHANGED <<ended, k, deadline>>
  ELSE /\ ended' = [ended EXCEPT ![x] = "soft"] /\ k' = [k EXCEPT ![x] = "deadline"]
       /\ deadline' = [deadline EXCEPT ![x] = "past"]

\* Mutant: the client wraps the secure session without sending its secret.
ClientTakesKeyOnly ==
  /\ MainTakes("c") /\ carried["c"] = "key" /\ Goto("c", "soft")
  /\ UNCHANGED <<config, got, w, k, queued, ended, rsd, wsd, s, connVars, sent>>

\* serverKey.(*goprocrypt.PublicKey) holds: the secret is encrypted for it.
ClientTakesKey ==
  /\ MainTakes("c") /\ carried["c"] = "key" /\ Goto("c", "send")
  /\ UNCHANGED <<config, got, w, k, queued, ended, rsd, wsd, s, connVars, sent>>

\* It does not: the panic is recovered, the connection closed and the error returned.
ClientRefuses ==
  /\ MainTakes("c") /\ carried["c"] # "key" /\ Goto("c", "failed")
  /\ connOpen' = [connOpen EXCEPT !["c"] = FALSE]
  /\ UNCHANGED <<config, got, w, k, queued, ended, rsd, wsd, s, net, deadline, sent>>

ClientSends == MainSends("c", "soft")

ClientSoftCloses ==
  /\ main["c"] = "soft" /\ Goto("c", "wrap") /\ SoftClose("c")
  /\ UNCHANGED <<config, got, r, w, carried, queued, rsd, wsd, s, net, connOpen, sent>>

\* Mutant: the server does not wait for the client's half.
ServerSendsOnly == MainSends("s", "wrap")

ServerSends == MainSends("s", "wait")

\* The accept loop receives a message and leaves the temporary session at once.
ServerTakes ==
  /\ MainTakes("s") /\ got' = carried["s"] /\ Goto("s", "soft")
  /\ UNCHANGED <<config, w, k, queued, ended, rsd, wsd, s, connVars, sent>>

ServerSoftCloses ==
  /\ main["s"] = "soft" /\ Goto("s", "check") /\ SoftClose("s")
  /\ UNCHANGED <<config, got, r, w, carried, queued, rsd, wsd, s, net, connOpen, sent>>

\* Mutant: any message is taken for the client's keys.
ServerChecksNot ==
  /\ main["s"] = "check" /\ Goto("s", "wrap")
  /\ UNCHANGED <<config, got, tempVars, s, connVars, sent>>

\* A message of another type ends the handshake.  The Close that follows softClose finds
\* the session closed and leaves the connection open.
ServerChecks ==
  /\ main["s"] = "check" /\ Goto("s", IF got = "secret" THEN "wrap" ELSE "failed")
  /\ UNCHANGED <<config, got, tempVars, s, connVars, sent>>

\* The second wrapConnectionTcp on the connection.
Wrap(x) == /\ main[x] = "wrap" /\ Goto(x, "done") /\ SGoto(x, "poll")
           /\ UNCHANGED <<config, got, tempVars, connVars, sent>>

-----------------------------------------------------------------------------
(* S and the application, with the session that stays. *)

SPoll(x) == /\ s[x] = "poll"
            /\ IF connOpen[x] THEN SGoto(x, "read") /\ deadline' = [deadline EXCEPT ![x] = "future"]
                              ELSE SGoto(x, "done") /\ UNCHANGED deadline
            /\ UNCHANGED <<config, mainVars, tempVars, net, connOpen, sent>>

SEnds(x) == SGoto(x, "done") /\ connOpen' = [connOpen EXCEPT ![x] = FALSE]

\* A frame of the session's own kind is handed to the application or a route; any other
\* cannot be read, and S closes the session.
SRead(x) == /\ s[x] = "read" /\ Readable(x) /\ TakeFrame(x)
            /\ IF Head(net[x]) = Own(x) THEN SGoto(x, "poll") /\ UNCHANGED connOpen ELSE SEnds(x)
            /\ UNCHANGED <<config, mainVars, tempVars, deadline, sent>>

SEOF(x) == /\ s[x] = "read" /\ AtEOF(x) /\ SGoto(x, "poll")
           /\ UNCHANGED <<config, mainVars, tempVars, connVars, sent>>

SFails(x) == /\ s[x] = "read" /\ Broken(x) /\ SEnds(x)
             /\ UNCHANGED <<config, mainVars, tempVars, net, deadline, sent>>

AppSends(x) == /\ main[x] = "done" /\ connOpen[x] /\ sent[x] < config.frames
               /\ PutFrame(x, Own(x)) /\ sent' = [sent EXCEPT ![x] = @ + 1]
               /\ UNCHANGED <<config, mainVars, tempVars, s, connOpen, deadline>>

\* Close by the application, the sender or the idle check of the session that stays.
AppCloses(x) == /\ ~config.calm /\ main[x] = "done" /\ connOpen[x]
                /\ connOpen' = [connOpen EXCEPT ![x] = FALSE]
                /\ UNCHANGED <<config, mainVars, tempVars, s, net, deadline, sent>>

\* TCPTimeout passes while a receiver reads.
DeadlineExpires(x) == /\ ~config.calm /\ (r[x] = "read" \/ s[x] = "read") /\ deadline[x] = "future"
                      /\ deadline' = [deadline EXCEPT ![x] = "past"]
                      /\ UNCHANGED <<config, mainVars, tempVars, s, net, connOpen, sent>>

-----------------------------------------------------------------------------
RNext(x) == \/ RShutdown(x) \/ RPoll(x) \/ RPollFails(x)
            \/ RRead(x) \/ RRefuses(x) \/ REOF(x) \/ RFails(x)
WNext(x) == WShutdown(x) \/ WTake(x) \/ WWrite(x) \/ WFails(x)
KNext(x) == KDeadline(x) \/ KSignals(x)
SNext(x) == SPoll(x) \/ SRead(x) \/ SEOF(x) \/ SFails(x)
ClientMain == ClientTakesKey \/ ClientRefuses \/ ClientSends \/ ClientSoftCloses \/ Wrap("c")
ServerMain == ServerSends \/ ServerTakes \/ ServerSoftCloses \/ ServerChecks \/ Wrap("s")

Next == \/ ClientMain \/ ServerMain
        \/ \E x \in Side : \/ RNext(x) \/ WNext(x) \/ IFire(x) \/ KNext(x) \/ SNext(x)
                           \/ AppSends(x) \/ AppCloses(x) \/ DeadlineExpires(x)

Spec == Init /\ [][Next]_vars

\* Goroutines are scheduled and, unless all is calm, time passes.  Applications owe nothing.
LiveSpec == /\ Spec /\ WF_vars(ClientMain) /\ WF_vars(ServerMain)
            /\ \A x \in Side : /\ WF_vars(RNext(x)) /\ WF_vars(WNext(x)) /\ WF_vars(KNext(x))
                               /\ WF_vars(SNext(x)) /\ WF_vars(IFire(x))
                               /\ WF_vars(DeadlineExpires(x))

-----------------------------------------------------------------------------
(* Properties. *)

\* Every goroutine is at a place of its own code and R carries a frame when it hands one over.
TypeOK ==
  /\ config \in Configs
  /\ main \in [Side -> {"send", "wait", "soft", "check", "wrap", "done", "failed"}]
  /\ got \in Frame \cup {"none"} /\ carried \in [Side -> Frame \cup {"none"}]
  /\ r \in [Side -> {"poll", "read", "deliver", "done"}]
  /\ w \in [Side -> {"select", "write", "done"}]
  /\ k \in [Side -> {"none", "deadline", "signal", "done"}]
  /\ queued \in [Side -> BOOLEAN] /\ rsd \in [Side -> BOOLEAN] /\ wsd \in [Side -> BOOLEAN]
  /\ ended \in [Side -> {"no", "soft", "hard"}] /\ s \in [Side -> {"off", "poll", "read", "done"}]
  /\ net \in [Side -> Seq(Frame)] /\ connOpen \in [Side -> BOOLEAN]
  /\ deadline \in [Side -> {"future", "past"}] /\ sent \in [Side -> 0..config.frames]
  /\ \A x \in Side : r[x] = "deliver" <=> carried[x] # "none"

\* security_test.go:94, "InsecureClientCannotConnect": the server adds a session only for
\* a client that runs the handshake and has let its keys go, and a client that returns a
\* session has been given the server's key, so both sides hold the same keys.
SameKeys ==
  /\ main["s"] = "done" /\ Secure("s") =>
       Secure("c") /\ main["c"] \in {"soft", "wrap", "done"}
  /\ main["c"] \in {"soft", "wrap", "done"} /\ Secure("c") =>
       Secure("s") /\ main["s"] \notin {"send"}

\* No frame of the handshake and none without encryption ever waits for the receiver of a
\* secure session, which would close on it, although it shares the bytes of the connection
\* with the temporary session of its own side and with the two senders of the other side.
SecureReadsEncrypted ==
  \A x \in Side : Secure(x) /\ s[x] \in {"poll", "read"} =>
    \A i \in 1..Len(net[x]) : net[x][i] = "enc"

\* The temporary session goes: after softClose its sender and its signalling goroutine end,
\* and its receiver ends or is held by a further message nobody will take.
TemporaryEnds ==
  \A x \in Side : ended[x] = "soft" /\ ~config.calm ~>
    w[x] = "done" /\ k[x] = "done" /\ r[x] \in {"done", "deliver"}

\* No side holds a connection for a handshake that does not come about: whatever the other
\* side is or does, the builder goes on, or the connection is closed.
HandshakeSettles ==
  \A x \in Side : ~config.calm ~> main[x] \in {"done", "failed"} \/ ~connOpen[x]

\* Two secure sides with unbuffered sender channels that are left alone do not wait for each
\* other for ever: the server gets its session, unless a secure session has already died
\* of the read deadline that the temporary session before it expired late.
HandshakeCompletes ==
  config.calm /\ config.buffer = 0 /\ BothSecure ~>
    main["s"] = "done" \/ \E x \in Side : deadline[x] = "past" /\ s[x] = "done"
=============================================================================
