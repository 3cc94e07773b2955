---------------------------- MODULE WsSessionProofs ----------------------------
(***************************************************************************)
(* Theorems about WsSession for any users, messages, buffer sizes and      *)
(* bound on failed reads: type correctness, the order of release and mark, *)
(* the single close, and that a websocket session implements Conduit.      *)
(***************************************************************************)
EXTENDS WsSession, SessionProofs

\* The steps wsnan0.go takes where nan0.go takes others.
Own == \/ WsReadText \/ WsReadFails \/ WsWrite \/ WsSignalW \/ WsDeadline
       \/ \E p \in Caller : WsSpawn(p) \/ WsRelease(p) \/ WsMark(p)

\* Every other step of a websocket session is one of Session.
LEMMA SharedOrOwn == WsNext => Next \/ Own
BY DEF WsNext, WsReceive, WsSend, WsSignal, WsClose, WsUser, WsRead, Own, Next, RNext, SNext, KNext,
       CloseStep, UserNext

-----------------------------------------------------------------------------
(* Types. *)

\* A step of its own keeps the types of Session.
LEMMA OwnType == TypeOK /\ Own => TypeOK'
<1> SUFFICES ASSUME TypeOK, Own PROVE TypeOK'
  OBVIOUS
<1>1. CASE WsReadText
  <2>1. bb' \in Builders /\ LifeOK' /\ ConnOK'
    BY <1>1 DEF WsReadText, TypeOK, LifeOK, ConnOK, lifeVars, sigVars, connVars
  <2>2. PcOK'
    BY <1>1, SessionAssumption DEF WsReadText, Goto, TypeOK, PcOK, Caller, Goroutine, ClosePc, RPc, SPc,
       IPc, UserPc
  <2>3. ChanOK'
    BY <1>1 DEF WsReadText, TypeOK, ChanOK, outVars
  <2>4. HandOK'
    BY <1>1 DEF WsReadText, Goto, TypeOK, PcOK, HandOK, Carrying, outVars, Caller, Goroutine
  <2> QED BY <2>1, <2>2, <2>3, <2>4 DEF TypeOK
<1>2. CASE WsReadFails
  <2>1. bb' \in Builders /\ LifeOK' /\ ConnOK' /\ ChanOK'
    BY <1>2 DEF WsReadFails, TypeOK, LifeOK, ConnOK, ChanOK, lifeVars, sigVars, connVars, inVars, outVars
  <2>2. PcOK'
    BY <1>2, SessionAssumption DEF WsReadFails, Goto, TypeOK, PcOK, Caller, Goroutine, ClosePc, RPc, SPc,
       IPc, UserPc
  <2>3. HandOK'
    BY <1>2 DEF WsReadFails, Goto, TypeOK, PcOK, HandOK, Carrying, inVars, outVars, Caller, Goroutine
  <2> QED BY <2>1, <2>2, <2>3 DEF TypeOK
<1>3. CASE WsWrite
  <2>1. bb' \in Builders /\ LifeOK' /\ ConnOK'
    BY <1>3 DEF WsWrite, TypeOK, LifeOK, ConnOK, lifeVars, sigVars, connVars
  <2>2. PcOK'
    BY <1>3, SessionAssumption DEF WsWrite, Goto, TypeOK, PcOK, Caller, Goroutine, ClosePc, RPc, SPc,
       IPc, UserPc
  <2>3. ChanOK'
    BY <1>3 DEF WsWrite, TypeOK, ChanOK, inVars, Caller, Goroutine
  <2>4. HandOK'
    BY <1>3, SessionAssumption DEF WsWrite, Goto, TypeOK, PcOK, ChanOK, HandOK, Carrying, inVars, outVars,
       Caller, Goroutine
  <2> QED BY <2>1, <2>2, <2>3, <2>4 DEF TypeOK
<1>4. CASE WsSignalW \/ WsDeadline
  <2>1. bb' \in Builders /\ PcOK' /\ ChanOK' /\ HandOK'
    BY <1>4 DEF WsSignalW, WsDeadline, TypeOK, PcOK, ChanOK, HandOK, inVars, outVars
  <2>2. LifeOK' /\ ConnOK'
    BY <1>4 DEF WsSignalW, WsDeadline, TypeOK, LifeOK, ConnOK, lifeVars, sigVars, connVars
  <2> QED BY <2>1, <2>2 DEF TypeOK
<1>5. ASSUME NEW p \in Caller, WsSpawn(p) \/ WsRelease(p) \/ WsMark(p) PROVE TypeOK'
  <2>1. bb' \in Builders /\ ChanOK'
    BY <1>5 DEF WsSpawn, WsRelease, WsMark, TypeOK, ChanOK, inVars, outVars
  <2>2. ConnOK'
    BY <1>5 DEF WsSpawn, WsRelease, WsMark, TypeOK, ConnOK, connVars
  <2>3. LifeOK'
    <3>1. CASE WsSpawn(p) \/ WsRelease(p)
      BY <3>1 DEF WsSpawn, WsRelease, TypeOK, LifeOK, lifeVars, sigVars
    <3>2. CASE WsMark(p)
      BY <3>2 DEF WsMark, Return, TypeOK, LifeOK, sigVars
    <3> QED BY <1>5, <3>1, <3>2
  <2>4. PcOK'
    <3>1. CASE WsSpawn(p) \/ WsRelease(p)
      BY <3>1, SessionAssumption DEF WsSpawn, WsRelease, Goto, TypeOK, PcOK, Caller, Goroutine, ClosePc,
         RPc, SPc, IPc, UserPc
    <3>2. CASE WsMark(p)
      BY <3>2, SessionAssumption DEF WsMark, Return, Goto, AfterClose, TypeOK, PcOK, Caller, Goroutine,
         ClosePc, RPc, SPc, IPc, UserPc
    <3> QED BY <1>5, <3>1, <3>2
  <2>5. HandOK'
    BY <1>5, SessionAssumption DEF WsSpawn, WsRelease, WsMark, Return, Goto, AfterClose, TypeOK, PcOK,
       HandOK, Carrying, Caller, Goroutine, inVars, outVars
  <2> QED BY <2>1, <2>2, <2>3, <2>4, <2>5 DEF TypeOK
<1> QED BY <1>1, <1>2, <1>3, <1>4, <1>5 DEF Own

\* What R carries it read before any read failed.
FailInv == pc["R"] \in {"start", "dispatch", "deliver", "send"} => failures = 0

\* Only R reads, and only the failure that is not the last lets it go on.
LEMMA FailStep ==
  ASSUME WsTypeOK, FailInv, WsNext
  PROVE  /\ failures' \in 0..MaxFailures
         /\ pc'["R"] \in {"poll", "read"} => failures' < MaxFailures
         /\ FailInv'
<1>1. /\ pc \in [Caller -> ClosePc \cup RPc \cup SPc \cup UserPc]
      /\ "R" \in Caller /\ "S" \in Caller /\ "I" \in Caller /\ Users \subseteq Caller
      /\ \A u \in Users : u \notin {"R", "S", "I"}
      /\ failures \in 0..MaxFailures /\ MaxFailures \in Nat \ {0}
      /\ pc["R"] \in {"poll", "read"} => failures < MaxFailures
  BY SessionAssumption, WsAssumption DEF WsTypeOK, TypeOK, PcOK, Caller, Goroutine
<1>2. CASE WsReadFails
  BY <1>1, <1>2 DEF WsReadFails, Goto, FailInv
<1>3. CASE WsRead /\ UNCHANGED failures
  BY <1>1, <1>3 DEF WsRead, RRead, Goto, FailInv
<1> DEFINE Keeps == /\ failures' \in 0..MaxFailures
                    /\ pc'["R"] \in {"poll", "read"} => failures' < MaxFailures
                    /\ FailInv'
<1>4. ASSUME UNCHANGED failures,
             \/ pc'["R"] = pc["R"]
             \/ pc["R"] \in {"start", "dispatch", "deliver", "send", "poll", "read"} /\ pc'["R"] \in {"poll", "read"}
             \/ pc["R"] = "dispatch" /\ pc'["R"] \in {"deliver", "send"}
             \/ pc'["R"] \notin {"start", "poll", "read", "dispatch", "deliver", "send"}
      PROVE  Keeps
  BY <1>1, <1>4 DEF FailInv
<1> HIDE DEF Keeps
<1>5. ASSUME RStart \/ RShutdown \/ RPoll \/ WsReadText \/ RDispatch \/ RDeliver \/ AppReceiveFromR,
             UNCHANGED failures
      PROVE  Keeps
  BY <1>1, <1>4, <1>5 DEF RStart, RShutdown, RPoll, WsReadText, RDispatch, RDeliver, AppReceiveFromR, Goto
<1>6. ASSUME \/ WsSend \/ WsSignal \/ PutNext \/ Expire \/ DeadlineExpire \/ IFire
             \/ AppReceive \/ PeerNext \/ WsUser,
             UNCHANGED failures
      PROVE  Keeps
  <2>1. CASE SStart \/ SShutdown \/ STake \/ WsWrite \/ SWriteError
    BY <1>1, <1>4, <1>6, <2>1 DEF SStart, SShutdown, STake, WsWrite, SWriteError, Goto
  <2>2. ASSUME NEW p \in Users \cup {"R"}, STakeFrom(p) \/ PutSender(p) PROVE Keeps
    BY <1>1, <1>4, <1>6, <2>2 DEF STakeFrom, PutSender, AfterSend, Goto
  <2>3. CASE WsSignal \/ Expire \/ DeadlineExpire \/ IFire \/ AppReceive \/ PeerNext
    BY <1>1, <1>4, <1>6, <2>3 DEF WsSignal, KSignalR, WsSignalW, WsDeadline, Expire, DeadlineExpire, IFire,
       AppReceive, PeerNext, PeerMove, PeerSend, Goto
  <2>4. CASE WsUser
    BY <1>1, <1>4, <1>6, <2>4 DEF WsUser, CallClose, Offer, Goto
  <2> QED BY <1>6, <2>1, <2>2, <2>3, <2>4 DEF WsSend, PutNext
<1>7. ASSUME NEW p \in Caller, WsClose(p), UNCHANGED failures PROVE Keeps
  <2>1. AfterClose(p) \notin {"start", "poll", "read", "dispatch", "deliver", "send"}
    BY DEF AfterClose
  <2> QED BY <1>1, <1>4, <1>7, <2>1 DEF WsClose, Lock, CheckClosed, CheckOpen, WsSpawn, WsRelease, WsMark,
          Return, Goto
<1> QED BY <1>2, <1>3, <1>5, <1>6, <1>7 DEF WsNext, WsReceive, Keeps

\* The types and FailInv hold of every state a websocket session reaches.
LEMMA WsTypeInvariant == WsSpec => [](WsTypeOK /\ FailInv)
<1>1. WsInit => WsTypeOK /\ FailInv
  <2> SUFFICES ASSUME WsInit PROVE WsTypeOK /\ FailInv
    OBVIOUS
  <2>1. TypeOK /\ failures = 0
    BY InitType DEF WsInit
  <2>2. pc["R"] = "start"
    BY SessionAssumption DEF WsInit, Init, Caller, Goroutine
  <2> QED BY <2>1, <2>2, WsAssumption DEF WsTypeOK, FailInv
<1>2. WsTypeOK /\ FailInv /\ [WsNext]_wsVars => (WsTypeOK /\ FailInv)'
  <2> SUFFICES ASSUME WsTypeOK, FailInv, [WsNext]_wsVars PROVE (WsTypeOK /\ FailInv)'
    OBVIOUS
  <2>1. CASE WsNext
    <3>1. TypeOK'
      BY <2>1, SharedOrOwn, OwnType, TypeStep DEF WsTypeOK
    <3> QED BY <2>1, <3>1, FailStep DEF WsTypeOK
  <2>2. CASE UNCHANGED wsVars
    <3>1. TypeOK' /\ pc' = pc /\ failures' = failures
      BY <2>2, TypeStep DEF WsTypeOK, wsVars, vars
    <3> QED BY <3>1 DEF WsTypeOK, FailInv
  <2> QED BY <2>1, <2>2
<1> QED BY <1>1, <1>2, PTL DEF WsSpec

\* Type correctness of a websocket session, and with it that no read is tried after the one at
\* which the websocket library panics: the panic ends R, whoever else is closing.
THEOREM WsTypeCorrect == WsSpec => []WsTypeOK
BY WsTypeInvariant, PTL

-----------------------------------------------------------------------------
(* Close. *)

\* closeMux protects check..release; the connection is released before the session is marked, K
\* exists by then, and the caller that does all this found the session open.
WsCloseInv ==
  /\ \A p \in Caller : pc[p] \in Critical => closeMux = p
  /\ closeMux # NoProc => pc[closeMux] \in Critical
  /\ \A p \in Caller : pc[p] \in {"spawn", "mark", "release"} => ~IsClosed
  /\ \A p \in Caller : pc[p] = "mark" => kpc # "none"
  /\ \A p \in Caller : pc[p] = "release" => ~connOpen
  /\ ClosedOnce
  /\ ReleasedFirst

\* A step that has no part in closing.
Aside == /\ UNCHANGED <<closeMux, closings, connOpen>>
         /\ kpc' = "none" <=> kpc = "none"
         /\ \A p \in Caller : pc'[p] = pc[p] \/ {pc[p], pc'[p]} \cap Critical = {}

\* All others are the statements of Close.
LEMMA AsideStep ==
  ASSUME TypeOK, WsNext
  PROVE  Aside \/ \E p \in Caller : Lock(p) \/ CheckClosed(p) \/ CheckOpen(p) \/ WsSpawn(p) \/ WsRelease(p) \/ WsMark(p)
<1>1. /\ pc \in [Caller -> ClosePc \cup RPc \cup SPc \cup UserPc]
      /\ "R" \in Caller /\ "S" \in Caller /\ "I" \in Caller /\ Users \subseteq Caller
  BY DEF TypeOK, PcOK, Caller, Goroutine
<1>2. ASSUME RStart \/ RShutdown \/ RPoll \/ WsRead \/ WsReadText \/ WsReadFails \/ RDispatch \/ RDeliver \/ AppReceiveFromR
      PROVE  Aside
  BY <1>1, <1>2 DEF RStart, RShutdown, RPoll, WsRead, RRead, WsReadText, WsReadFails, RDispatch, RDeliver,
     AppReceiveFromR, Goto, Aside, Critical, lifeVars, sigVars, connVars
<1>3. ASSUME SStart \/ SShutdown \/ STake \/ WsWrite \/ SWriteError PROVE Aside
  BY <1>1, <1>3 DEF SStart, SShutdown, STake, WsWrite, SWriteError, Goto, Aside, Critical, lifeVars,
     sigVars, connVars
<1>4. ASSUME NEW p \in Users \cup {"R"}, STakeFrom(p) \/ PutSender(p) PROVE Aside
  BY <1>1, <1>4 DEF STakeFrom, PutSender, AfterSend, Goto, Aside, Critical, lifeVars, sigVars, connVars
<1>5. ASSUME WsSignal \/ Expire \/ DeadlineExpire \/ IFire \/ AppReceive \/ PeerNext PROVE Aside
  BY <1>1, <1>5 DEF WsSignal, KSignalR, WsSignalW, WsDeadline, Expire, DeadlineExpire, IFire, AppReceive,
     PeerNext, PeerMove, PeerSend, Goto, Aside, Critical, lifeVars, sigVars, connVars
<1>6. ASSUME WsUser PROVE Aside
  BY <1>1, <1>6 DEF WsUser, CallClose, Offer, Goto, Aside, Critical, lifeVars, sigVars, connVars
<1> QED BY <1>2, <1>3, <1>4, <1>5, <1>6 DEF WsNext, WsReceive, WsSend, PutNext, WsClose

\* Every step keeps the protocol.
LEMMA WsCloseStep == TypeOK /\ WsCloseInv /\ WsNext => WsCloseInv'
<1> SUFFICES ASSUME TypeOK, WsCloseInv, WsNext PROVE WsCloseInv'
  OBVIOUS
<1>1. /\ pc \in [Caller -> ClosePc \cup RPc \cup SPc \cup UserPc] /\ closings \in Nat
      /\ closeMux \in Caller \cup {NoProc} /\ NoProc \notin Caller /\ connOpen \in BOOLEAN
  BY SessionAssumption DEF TypeOK, PcOK, LifeOK, ConnOK
<1>2. CASE Aside
  BY <1>1, <1>2 DEF Aside, WsCloseInv, ClosedOnce, ReleasedFirst, IsClosed, Critical
<1>3. ASSUME NEW p \in Caller, Lock(p) PROVE WsCloseInv'
  BY <1>1, <1>3 DEF Lock, Goto, WsCloseInv, ClosedOnce, ReleasedFirst, IsClosed, Critical, sigVars, connVars
<1>4. ASSUME NEW p \in Caller, CheckClosed(p) PROVE WsCloseInv'
  BY <1>1, <1>4 DEF CheckClosed, Return, AfterClose, Goto, WsCloseInv, ClosedOnce, ReleasedFirst, IsClosed,
     Critical, sigVars, connVars
<1>5. ASSUME NEW p \in Caller, CheckOpen(p) PROVE WsCloseInv'
  BY <1>1, <1>5 DEF CheckOpen, Goto, WsCloseInv, ClosedOnce, ReleasedFirst, IsClosed, Critical, lifeVars,
     sigVars
<1>6. ASSUME NEW p \in Caller, WsSpawn(p) PROVE WsCloseInv'
  BY <1>1, <1>6 DEF WsSpawn, Goto, WsCloseInv, ClosedOnce, ReleasedFirst, IsClosed, Critical, lifeVars,
     connVars
<1>7. ASSUME NEW p \in Caller, WsRelease(p) PROVE WsCloseInv'
  BY <1>1, <1>7 DEF WsRelease, Goto, WsCloseInv, ClosedOnce, ReleasedFirst, IsClosed, Critical, lifeVars,
     sigVars
<1>8. ASSUME NEW p \in Caller, WsMark(p) PROVE WsCloseInv'
  BY <1>1, <1>8 DEF WsMark, Return, AfterClose, Goto, WsCloseInv, ClosedOnce, ReleasedFirst, IsClosed,
     Critical, sigVars, connVars
<1> QED BY <1>2, <1>3, <1>4, <1>5, <1>6, <1>7, <1>8, AsideStep

\* WsCloseInv holds of every state a websocket session reaches.
LEMMA WsCloseInvariant == WsSpec => []WsCloseInv
<1>1. WsInit => WsCloseInv
  <2> SUFFICES ASSUME WsInit PROVE WsCloseInv
    OBVIOUS
  <2>1. /\ \A p \in Caller : pc[p] \in {"idle", "start"}
        /\ closeMux = NoProc /\ closings = 0
    BY DEF WsInit, Init
  <2> QED BY <2>1 DEF WsCloseInv, ClosedOnce, ReleasedFirst, IsClosed, Critical
<1>2. WsCloseInv /\ UNCHANGED wsVars => WsCloseInv'
  BY DEF wsVars, vars, lifeVars, sigVars, connVars, WsCloseInv, ClosedOnce, ReleasedFirst, IsClosed
<1>3. WsTypeOK /\ WsCloseInv /\ [WsNext]_wsVars => WsCloseInv'
  BY <1>2, WsCloseStep DEF WsTypeOK
<1> QED BY <1>1, <1>3, WsTypeCorrect, PTL DEF WsSpec

\* Whoever finds a websocket session closed finds its connection released, however its goroutines
\* and its users race to close it: the order of the two statements in Close is never undone.
THEOREM WsReleasedFirst == WsSpec => []ReleasedFirst
<1>1. WsCloseInv => ReleasedFirst
  BY DEF WsCloseInv
<1> QED BY <1>1, WsCloseInvariant, PTL

\* The closed channel of a websocket session is closed once, for any number of callers.
THEOREM WsClosesOnce == WsSpec => []ClosedOnce
<1>1. WsCloseInv => ClosedOnce
  BY DEF WsCloseInv
<1> QED BY <1>1, WsCloseInvariant, PTL
-----------------------------------------------------------------------------
(* WsSession implements Conduit.                                           *)

\* Nothing is lost, repeated or overtaken between the sender channel and the connection.
LEMMA WsOutbound == WsSpec => []OutboundOrder
<1>1. WsInit => OutboundOrder
  <2>1. <<>> \o <<>> \o <<>> = <<>>
    BY EmptySeq, ConcatEmptySeq
  <2> QED BY <2>1 DEF WsInit, Init, OutboundOrder, Caller, Goroutine
<1>2. ASSUME TypeOK, OutboundOrder, WsNext PROVE OutboundOrder'
  <2>1. CASE WsWrite
    <3>1. wire \in Seq(Message) /\ hand["S"] \in Seq(Message)
      BY <1>2 DEF TypeOK, ChanOK, Caller, Goroutine
    <3>2. (wire \o hand["S"]) \o <<>> = wire \o hand["S"]
      BY <3>1, ConcatProperties, ConcatEmptySeq
    <3>3. hand'["S"] = <<>>
      BY <1>2, <2>1 DEF WsWrite, TypeOK, ChanOK, Caller, Goroutine
    <3> QED BY <1>2, <2>1, <3>2, <3>3 DEF WsWrite, OutboundOrder
  <2>2. CASE WsReadText \/ WsReadFails \/ WsSignalW \/ WsDeadline
             \/ \E p \in Caller : WsSpawn(p) \/ WsRelease(p) \/ WsMark(p)
    BY <1>2, <2>2 DEF WsReadText, WsReadFails, WsSignalW, WsDeadline, WsSpawn, WsRelease, WsMark,
       OutboundOrder, outVars
  <2> QED BY <1>2, <2>1, <2>2, SharedOrOwn, OutboundStep DEF Own
<1>3. OutboundOrder /\ UNCHANGED wsVars => OutboundOrder'
  BY DEF wsVars, vars, outVars, OutboundOrder
<1>4. WsTypeOK /\ OutboundOrder /\ [WsNext]_wsVars => OutboundOrder'
  BY <1>2, <1>3 DEF WsTypeOK
<1> QED BY <1>1, <1>4, WsTypeCorrect, PTL DEF WsSpec

\* The messages a websocket session does not drop as it reads them.
Binary(s) == Keep(s, Message \ Texts)

WsInboundInv == Inbound(Binary(arrived), Binary(inbox))

\* All but six steps take nothing from R's hand or the receive channel.
LEMMA WsQuietStep ==
  ASSUME TypeOK, WsNext
  PROVE  \/ Quiet /\ UNCHANGED <<arrived, inbox>>
         \/ WsRead \/ WsReadText \/ RDispatch \/ RDeliver \/ AppReceive \/ AppReceiveFromR
         \/ \E m \in InMsg : PeerSend(m)
<1>1. /\ pc \in [Caller -> ClosePc \cup RPc \cup SPc \cup UserPc] /\ "R" \in Caller
      /\ "S" \in Caller /\ "I" \in Caller /\ hand \in [Caller -> Seq(Message)] /\ Users \subseteq Caller
      /\ \A u \in Users : u \notin {"R", "S", "I"}
  BY SessionAssumption DEF TypeOK, PcOK, ChanOK, Caller, Goroutine
<1>2. ASSUME RStart \/ RShutdown \/ RPoll \/ WsReadFails PROVE Quiet /\ UNCHANGED <<arrived, inbox>>
  BY <1>1, <1>2 DEF RStart, RShutdown, RPoll, WsReadFails, Quiet, Reading, Goto, inVars
<1>3. ASSUME SStart \/ SShutdown \/ STake \/ WsWrite \/ SWriteError PROVE Quiet /\ UNCHANGED <<arrived, inbox>>
  BY <1>1, <1>3 DEF SStart, SShutdown, STake, WsWrite, SWriteError, Quiet, Goto, inVars
<1>4. ASSUME NEW p \in Users \cup {"R"}, STakeFrom(p) \/ PutSender(p) PROVE Quiet /\ UNCHANGED <<arrived, inbox>>
  BY <1>1, <1>4 DEF STakeFrom, PutSender, AfterSend, Goto, Quiet, Reading, inVars
<1>5. ASSUME WsSignal \/ Expire \/ DeadlineExpire \/ IFire \/ PeerMove
      PROVE  Quiet /\ UNCHANGED <<arrived, inbox>>
  BY <1>1, <1>5 DEF WsSignal, KSignalR, WsSignalW, WsDeadline, Expire, DeadlineExpire, IFire, PeerMove,
     Goto, Quiet, inVars
<1>6. ASSUME NEW p \in Caller, WsClose(p) PROVE Quiet /\ UNCHANGED <<arrived, inbox>>
  <2>1. AfterClose(p) \notin {"start", "poll", "read", "dispatch", "deliver", "send"}
    BY DEF AfterClose
  <2> QED BY <1>1, <1>6, <2>1 DEF WsClose, Lock, CheckClosed, CheckOpen, WsSpawn, WsRelease, WsMark,
             Return, Goto, Quiet, Reading, inVars
<1>7. ASSUME WsUser PROVE Quiet /\ UNCHANGED <<arrived, inbox>>
  BY <1>1, <1>7 DEF WsUser, CallClose, Offer, Goto, Quiet, inVars
<1> QED BY <1>2, <1>3, <1>4, <1>5, <1>6, <1>7 DEF WsNext, WsReceive, WsSend, PutNext, PeerNext

\* The first and the rest of a list built from them.
LEMMA HeadFollows ==
  ASSUME NEW T, NEW x \in T, NEW b \in Seq(T)
  PROVE  <<x>> \o b # <<>> /\ Head(<<x>> \o b) = x /\ Tail(<<x>> \o b) = b
<1>1. <<x>> \in Seq(T) /\ Len(<<x>>) = 1 /\ <<x>>[1] = x /\ Len(b) \in Nat
  OBVIOUS
<1>2. <<x>> \o b \in Seq(T) /\ Len(<<x>> \o b) = Len(b) + 1 /\ (<<x>> \o b)[1] = x
      /\ \A i \in 1..Len(b) : (<<x>> \o b)[i + 1] = b[i]
  BY <1>1, ConcatProperties
<1>3. <<x>> \o b # <<>> /\ Head(<<x>> \o b) = x
  BY <1>1, <1>2
<1>4. Tail(<<x>> \o b) \in Seq(T) /\ Len(Tail(<<x>> \o b)) = Len(b)
      /\ \A i \in 1..Len(b) : Tail(<<x>> \o b)[i] = (<<x>> \o b)[i + 1]
  BY <1>1, <1>2, <1>3, HeadTailProperties
<1> QED BY <1>2, <1>3, <1>4, SeqEqual

\* A text that R drops was not among the binary messages; a binary one was the first of them.
LEMMA BinaryHead ==
  ASSUME NEW q \in Seq(Message), q # <<>>
  PROVE  IF Head(q) \in Texts
           THEN Binary(Tail(q)) = Binary(q)
           ELSE Binary(q) # <<>> /\ Head(Binary(q)) = Head(q) /\ Tail(Binary(q)) = Binary(Tail(q))
<1>1. Head(q) \in Message /\ Tail(q) \in Seq(Message)
  BY HeadTailProperties
<1>2. Binary(Tail(q)) \in Seq(Message)
  BY <1>1, KeepMembers DEF Binary
<1>3. Binary(q) = (IF Head(q) \in Message \ Texts THEN <<Head(q)>> ELSE <<>>) \o Binary(Tail(q))
  BY KeepTail DEF Binary
<1>4. CASE Head(q) \in Texts
  BY <1>2, <1>3, <1>4, ConcatEmptySeq
<1>5. CASE Head(q) \notin Texts
  <2>1. Binary(q) = <<Head(q)>> \o Binary(Tail(q))
    BY <1>1, <1>3, <1>5
  <2> DEFINE b == Binary(Tail(q))
  <2>2. <<Head(q)>> \o b # <<>> /\ Head(<<Head(q)>> \o b) = Head(q) /\ Tail(<<Head(q)>> \o b) = b
    <3>1. <<Head(q)>> \in Seq(Message) /\ b \in Seq(Message)
      BY <1>1, <1>2
    <3> HIDE DEF b
    <3> QED BY <1>1, <3>1, HeadFollows
  <2> QED BY <1>5, <2>1, <2>2
<1> QED BY <1>4, <1>5

\* A message that arrives is the last of the binary ones, or is none.
LEMMA BinaryAppend ==
  ASSUME NEW s \in Seq(Message), NEW m \in Message
  PROVE  Binary(Append(s, m)) = IF m \in Texts THEN Binary(s) ELSE Append(Binary(s), m)
<1>1. Keep(Append(s, m), Message \ Texts)
        = IF m \in Message \ Texts THEN Append(Keep(s, Message \ Texts), m) ELSE Keep(s, Message \ Texts)
  BY KeepAppend
<1>2. m \in Message \ Texts <=> m \notin Texts
  OBVIOUS
<1> QED BY <1>1, <1>2 DEF Binary

\* Of the binary messages none is lost, repeated or overtaken between the connection and the
\* application as long as R reads.
LEMMA WsInboundStep == TypeOK /\ WsInboundInv /\ WsNext => WsInboundInv'
<1> SUFFICES ASSUME TypeOK, WsInboundInv, WsNext PROVE InboundAfter(Binary(arrived'), Binary(inbox'))
  BY DEF WsInboundInv, Inbound, InboundAfter, Binary
<1>1. /\ arrived \in Seq(Message) /\ inbox \in Seq(Message)
      /\ Binary(arrived) \in Seq(Message) /\ Binary(inbox) \in Seq(Message)
      /\ Inbound(Binary(arrived), Binary(inbox))
  BY KeepMembers DEF TypeOK, ChanOK, WsInboundInv, Binary
<1>2. CASE (Quiet /\ UNCHANGED <<arrived, inbox>>) \/ RDispatch \/ RDeliver \/ AppReceive \/ AppReceiveFromR
  <2>1. arrived' = arrived /\ inbox' = inbox
    BY <1>2 DEF RDispatch, RDeliver, AppReceive, AppReceiveFromR
  <2>2. InboundAfter(Binary(arrived), Binary(inbox))
    BY <1>1, <1>2, PassStep
  <2> QED BY <2>1, <2>2
<1>3. CASE WsRead
  <2>1. /\ inbox # <<>> /\ arrived' = arrived /\ inbox' = Tail(inbox) /\ Head(inbox) \notin Texts
        /\ RRead
    BY <1>3 DEF WsRead, RRead
  <2>2. /\ Binary(inbox) # <<>> /\ Head(Binary(inbox)) = Head(inbox)
        /\ Tail(Binary(inbox)) = Binary(Tail(inbox))
    BY <1>1, <2>1, BinaryHead
  <2>3. InboundAfter(Binary(arrived), Tail(Binary(inbox)))
    BY <1>1, <2>1, <2>2, ReadStep
  <2> QED BY <2>1, <2>2, <2>3
<1>4. CASE WsReadText
  <2>1. /\ inbox # <<>> /\ arrived' = arrived /\ inbox' = Tail(inbox) /\ Head(inbox) \in Texts
        /\ UNCHANGED <<hand, received, recvq, executed>> /\ pc["R"] = "read" /\ pc'["R"] = "poll"
    BY <1>4 DEF WsReadText, Goto, TypeOK, PcOK, Caller, Goroutine
  <2>2. Quiet
    BY <2>1 DEF Quiet, Reading
  <2>3. InboundAfter(Binary(arrived), Binary(inbox))
    BY <1>1, <2>2, PassStep
  <2>4. Binary(Tail(inbox)) = Binary(inbox)
    BY <1>1, <2>1, BinaryHead
  <2> QED BY <2>1, <2>3, <2>4
<1>5. ASSUME NEW m \in InMsg, PeerSend(m) PROVE InboundAfter(Binary(arrived'), Binary(inbox'))
  <2>1. /\ arrived' = Append(arrived, m) /\ inbox' = Append(inbox, m) /\ m \in Message
        /\ UNCHANGED <<pc, hand, received, recvq, executed>>
    BY <1>5 DEF PeerSend, Message
  <2>2. /\ Binary(arrived') = IF m \in Texts THEN Binary(arrived) ELSE Append(Binary(arrived), m)
        /\ Binary(inbox') = IF m \in Texts THEN Binary(inbox) ELSE Append(Binary(inbox), m)
    <3>1. /\ Binary(Append(arrived, m)) = IF m \in Texts THEN Binary(arrived) ELSE Append(Binary(arrived), m)
          /\ Binary(Append(inbox, m)) = IF m \in Texts THEN Binary(inbox) ELSE Append(Binary(inbox), m)
      BY <1>1, <2>1, BinaryAppend
    <3> QED BY <2>1, <3>1
  <2>3. CASE m \in Texts
    <3>1. InboundAfter(Binary(arrived), Binary(inbox))
      BY <1>1, <2>1, PassStep DEF Quiet
    <3> QED BY <2>2, <2>3, <3>1
  <2>4. CASE m \notin Texts
    <3>1. InboundAfter(Append(Binary(arrived), m), Append(Binary(inbox), m))
      BY <1>1, <2>1, ArriveStep
    <3> QED BY <2>2, <2>4, <3>1
  <2> QED BY <2>3, <2>4
<1> QED BY <1>2, <1>3, <1>4, <1>5, WsQuietStep

\* What was read of either class was read in the order the binary messages arrived.
LEMMA WsInboundInvariant == WsSpec => []WsInboundInv
<1>1. WsInit => WsInboundInv
  <2> SUFFICES ASSUME WsInit PROVE WsInboundInv
    OBVIOUS
  <2>1. /\ arrived = <<>> /\ inbox = <<>> /\ received = <<>> /\ recvq = <<>> /\ executed = <<>>
        /\ pc["R"] \notin {"dispatch", "deliver"}
    BY SessionAssumption DEF WsInit, Init, Caller, Goroutine
  <2>2. Pending = <<>> /\ Due = <<>> /\ <<>> \in Seq(Message) /\ <<>> \o <<>> = <<>>
    BY <2>1, EmptySeq, ConcatEmptySeq DEF Pending, Due
  <2>3. \A T, live : Follows(<<>>, <<>>, <<>>, T, live)
    BY <2>2, KeepEmpty DEF Follows
  <2>4. Binary(arrived) = <<>> /\ Binary(inbox) = <<>>
    BY <2>1, KeepEmpty DEF Binary
  <2> QED BY <2>1, <2>2, <2>3, <2>4 DEF WsInboundInv, Inbound
<1>2. WsInboundInv /\ UNCHANGED wsVars => WsInboundInv'
  BY DEF wsVars, vars, inVars, WsInboundInv, Inbound, Binary, Pending, Due, Reading
<1>3. WsTypeOK /\ WsInboundInv /\ [WsNext]_wsVars => WsInboundInv'
  BY <1>2, WsInboundStep DEF WsTypeOK
<1> QED BY <1>1, <1>3, WsTypeCorrect, PTL DEF WsSpec

\* A step that neither ends a phase of the session nor moves a message in or out is not seen.
LEMMA UnseenStep ==
  ASSUME UNCHANGED <<accepted, wire, arrived, received, executed, connOpen>>,
         kpc' = "none" <=> kpc = "none"
  PROVE  UNCHANGED WsAbstract!vars
BY DEF WsAbstract!vars

\* Every step of a websocket session is a step of the conduit, or one it does not see.
LEMMA WsNextImplements ==
  ASSUME TypeOK, WsCloseInv, OutboundOrder, WsInboundInv, WsNext
  PROVE  WsAbstract!Next \/ UNCHANGED WsAbstract!vars
<1>1. /\ arrived \in Seq(Message) /\ Binary(arrived) \in Seq(Message) /\ Binary(inbox) \in Seq(Message)
      /\ Inbound(Binary(arrived), Binary(inbox))
  BY KeepMembers DEF TypeOK, ChanOK, WsInboundInv, Binary
<1>2. ASSUME NEW p \in Users \cup {"R"}, PutSender(p) \/ STakeFrom(p) PROVE WsAbstract!Offer
  <2>1. UNCHANGED kpc
    BY <1>2 DEF PutSender, STakeFrom, sigVars
  <2> QED BY <1>2, <2>1, Offers DEF WsAbstract!Offer, Message
<1>3. ASSUME WsWrite PROVE WsAbstract!Emit
  <2>1. /\ connOpen /\ UNCHANGED <<accepted, arrived, received, executed, kpc, connOpen>>
        /\ pc["S"] = "write" /\ wire' = wire \o hand["S"]
    BY <1>3 DEF WsWrite, inVars, sigVars, connVars
  <2> QED BY <2>1, WritesNext DEF WsAbstract!Emit
<1>4. ASSUME NEW m \in InMsg, PeerSend(m) PROVE WsAbstract!Arrive \/ UNCHANGED WsAbstract!vars
  <2>1. /\ arrived' = Append(arrived, m) /\ m \in Message
        /\ UNCHANGED <<accepted, wire, received, executed, kpc, connOpen>>
    BY <1>4 DEF PeerSend, Message, outVars, sigVars, connVars
  <2>2. Binary(Append(arrived, m)) = IF m \in Texts THEN Binary(arrived) ELSE Append(Binary(arrived), m)
    BY <1>1, <2>1, BinaryAppend
  <2>3. Keep(arrived', Message \ Texts) = IF m \in Texts THEN Keep(arrived, Message \ Texts)
                                          ELSE Append(Keep(arrived, Message \ Texts), m)
    BY <2>1, <2>2 DEF Binary
  <2> QED BY <2>1, <2>3 DEF WsAbstract!Arrive, WsAbstract!vars
<1>5. ASSUME AppReceive \/ AppReceiveFromR PROVE WsAbstract!Receive
  <2>1. UNCHANGED kpc
    BY <1>5 DEF AppReceive, AppReceiveFromR, sigVars
  <2>2. /\ Len(received) < Len(Keep(Binary(arrived), Message \ Routed))
        /\ received' = Append(received, Keep(Binary(arrived), Message \ Routed)[Len(received) + 1])
        /\ UNCHANGED <<accepted, wire, connOpen, arrived, executed>>
    BY <1>1, <1>5, ReceivesNext
  <2> QED BY <2>1, <2>2 DEF WsAbstract!Receive, WsAbstract!Keep, WsAbstract!Kept, Binary, Keep, Kept
<1>6. ASSUME RDispatch PROVE WsAbstract!Execute \/ UNCHANGED WsAbstract!vars
  <2>1. UNCHANGED <<kpc, accepted, wire, connOpen, arrived, received>>
    BY <1>6 DEF RDispatch, sigVars, outVars, connVars
  <2>2. CASE hand["R"][1] \in Routed
    <3>1. /\ Len(executed) < Len(Keep(Binary(arrived), Routed))
          /\ executed' = Append(executed, Keep(Binary(arrived), Routed)[Len(executed) + 1])
      BY <1>1, <1>6, <2>2, ExecutesNext
    <3> QED BY <2>1, <3>1 DEF WsAbstract!Execute, WsAbstract!Keep, WsAbstract!Kept, Binary, Keep, Kept
  <2>3. CASE hand["R"][1] \notin Routed
    <3>1. UNCHANGED executed
      BY <1>6, <2>3 DEF RDispatch
    <3> QED BY <2>1, <3>1, UnseenStep
  <2> QED BY <2>2, <2>3
<1>7. ASSUME NEW p \in Caller, WsClose(p)
      PROVE  WsAbstract!Close \/ WsAbstract!Release \/ UNCHANGED WsAbstract!vars
  <2>1. UNCHANGED <<accepted, wire, arrived, received, executed>>
    BY <1>7 DEF WsClose, Lock, CheckClosed, CheckOpen, WsSpawn, WsRelease, WsMark, inVars, outVars
  <2>2. CASE WsSpawn(p)
    <3>1. kpc' = "signalR" /\ connOpen' = connOpen
      BY <2>2 DEF WsSpawn, connVars
    <3>2. CASE connOpen /\ kpc = "none"
      BY <2>1, <3>1, <3>2 DEF WsAbstract!Close
    <3>3. CASE ~(connOpen /\ kpc = "none")
      BY <2>1, <3>1, <3>3 DEF WsAbstract!vars
    <3> QED BY <3>2, <3>3
  <2>3. CASE WsRelease(p)
    <3>1. connOpen' = FALSE /\ kpc' = kpc /\ kpc # "none"
      BY <2>3 DEF WsRelease, sigVars, WsCloseInv
    <3>2. CASE connOpen
      BY <2>1, <3>1, <3>2 DEF WsAbstract!Release
    <3>3. CASE ~connOpen
      BY <2>1, <3>1, <3>3 DEF WsAbstract!vars
    <3> QED BY <3>2, <3>3
  <2>4. CASE Lock(p) \/ CheckClosed(p) \/ CheckOpen(p) \/ WsMark(p)
    <3>1. UNCHANGED <<connOpen, kpc>>
      BY <2>4 DEF Lock, CheckClosed, CheckOpen, WsMark, sigVars, connVars
    <3> QED BY <2>1, <3>1, UnseenStep
  <2> QED BY <1>7, <2>2, <2>3, <2>4 DEF WsClose
<1>8. ASSUME RStart \/ RShutdown \/ RPoll \/ WsRead \/ WsReadText \/ WsReadFails \/ RDeliver
      PROVE  UNCHANGED WsAbstract!vars
  <2>1. UNCHANGED <<accepted, wire, arrived, received, executed, connOpen, kpc>>
    BY <1>8 DEF RStart, RShutdown, RPoll, WsRead, RRead, WsReadText, WsReadFails, RDeliver, sigVars, connVars,
       inVars, outVars
  <2> QED BY <2>1, UnseenStep
<1>9. ASSUME SStart \/ SShutdown \/ STake \/ SWriteError \/ Expire \/ DeadlineExpire \/ IFire \/ PeerMove \/ WsUser
      PROVE  UNCHANGED WsAbstract!vars
  <2>1. UNCHANGED <<accepted, wire, arrived, received, executed, connOpen, kpc>>
    BY <1>9 DEF SStart, SShutdown, STake, SWriteError, Expire, DeadlineExpire, IFire, PeerMove, WsUser,
       CallClose, Offer, sigVars, connVars, inVars, outVars
  <2> QED BY <2>1, UnseenStep
<1>10. ASSUME WsSignal PROVE UNCHANGED WsAbstract!vars
  <2>1. UNCHANGED <<accepted, wire, arrived, received, executed, connOpen>> /\ kpc # "none" /\ kpc' # "none"
    BY <1>10 DEF WsSignal, KSignalR, WsSignalW, WsDeadline, connVars, inVars, outVars
  <2> QED BY <2>1, UnseenStep
<1> QED BY <1>2, <1>3, <1>4, <1>5, <1>6, <1>7, <1>8, <1>9, <1>10
        DEF WsNext, WsReceive, WsSend, PutNext, PeerNext, WsAbstract!Next

\* A websocket session keeps the promise of Conduit for any users, messages, routes and buffers,
\* although its Close has another order and its receiver drops the messages that are not binary:
\* those it passes on leave in the order they came, and nothing leaves after the release.
THEOREM WsSessionIsConduit == WsSpec => WsImplementsConduit
<1>1. WsInit => WsAbstract!Init
  <2> SUFFICES ASSUME WsInit PROVE WsAbstract!Init
    OBVIOUS
  <2>1. Keep(<<>>, Message \ Texts) = <<>>
    BY KeepEmpty
  <2> QED BY <2>1 DEF WsInit, Init, WsAbstract!Init
<1>2. WsTypeOK /\ WsCloseInv /\ OutboundOrder /\ WsInboundInv /\ [WsNext]_wsVars
        => [WsAbstract!Next]_(WsAbstract!vars)
  <2>1. UNCHANGED wsVars => UNCHANGED WsAbstract!vars
    BY DEF wsVars, vars, sigVars, connVars, inVars, outVars, WsAbstract!vars
  <2> QED BY <2>1, WsNextImplements DEF WsTypeOK
<1> QED BY <1>1, <1>2, WsTypeCorrect, WsCloseInvariant, WsOutbound, WsInboundInvariant, PTL
        DEF WsSpec, WsImplementsConduit, WsAbstract!Spec
=============================================================================
