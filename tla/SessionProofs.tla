---------------------------- MODULE SessionProofs ----------------------------
(***************************************************************************)
(* Theorems about Session for any users, messages, buffer sizes and        *)
(* builder settings: type correctness, the protocol of Close, the order in *)
(* which messages leave and arrive, and that Session implements Conduit.   *)
(***************************************************************************)
EXTENDS Session, FilteringProofs, SequenceTheorems, TLAPS

\* Putting one message in a buffer makes it one longer.
LEMMA OneMore ==
  ASSUME NEW T, NEW s \in Seq(T), NEW h \in Seq(T), Len(h) = 1
  PROVE  Len(s \o h) = Len(s) + 1 /\ Len(s) \in Nat
  <1>1. Len(s) \in Nat
    BY LenProperties
  <1>2. Len(s \o h) = Len(s) + Len(h)
    BY ConcatProperties
  <1>3. QED
    BY <1>1, <1>2

\* Every step leaves each goroutine at a place of its own code.
LEMMA PcStep == PcOK /\ Next => PcOK'
  <1> SUFFICES ASSUME PcOK, Next PROVE PcOK'
    OBVIOUS
  <1>1. ASSUME RStart PROVE PcOK'
    BY <1>1, SessionAssumption DEF RStart, PcOK, Goto, Caller, Goroutine,
       ClosePc, RPc, SPc, IPc, UserPc
  <1>2. ASSUME RShutdown PROVE PcOK'
    BY <1>2, SessionAssumption DEF RShutdown, PcOK, Goto, Caller, Goroutine,
       ClosePc, RPc, SPc, IPc, UserPc
  <1>3. ASSUME RPoll PROVE PcOK'
    BY <1>3, SessionAssumption DEF RPoll, PcOK, Goto, Caller, Goroutine,
       ClosePc, RPc, SPc, IPc, UserPc
  <1>4. ASSUME RRead PROVE PcOK'
    BY <1>4, SessionAssumption DEF RRead, PcOK, Goto, Caller, Goroutine,
       ClosePc, RPc, SPc, IPc, UserPc
  <1>5. ASSUME RReadEOF PROVE PcOK'
    BY <1>5, SessionAssumption DEF RReadEOF, PcOK, Goto, Caller, Goroutine,
       ClosePc, RPc, SPc, IPc, UserPc
  <1>6. ASSUME RReadError PROVE PcOK'
    BY <1>6, SessionAssumption DEF RReadError, PcOK, Goto, Caller, Goroutine,
       ClosePc, RPc, SPc, IPc, UserPc
  <1>7. ASSUME RDispatch PROVE PcOK'
    BY <1>7, SessionAssumption DEF RDispatch, PcOK, Goto, Caller, Goroutine,
       ClosePc, RPc, SPc, IPc, UserPc
  <1>8. ASSUME RDeliver PROVE PcOK'
    BY <1>8, SessionAssumption DEF RDeliver, PcOK, Goto, Caller, Goroutine,
       ClosePc, RPc, SPc, IPc, UserPc
  <1>9. ASSUME SStart PROVE PcOK'
    BY <1>9, SessionAssumption DEF SStart, PcOK, Goto, Caller, Goroutine,
       ClosePc, RPc, SPc, IPc, UserPc
  <1>10. ASSUME SShutdown PROVE PcOK'
    BY <1>10, SessionAssumption DEF SShutdown, PcOK, Goto, Caller, Goroutine,
       ClosePc, RPc, SPc, IPc, UserPc
  <1>11. ASSUME STake PROVE PcOK'
    BY <1>11, SessionAssumption DEF STake, PcOK, Goto, Caller, Goroutine,
       ClosePc, RPc, SPc, IPc, UserPc
  <1>12. ASSUME SWrite PROVE PcOK'
    BY <1>12, SessionAssumption DEF SWrite, PcOK, Goto, Caller, Goroutine,
       ClosePc, RPc, SPc, IPc, UserPc
  <1>13. ASSUME SWriteError PROVE PcOK'
    BY <1>13, SessionAssumption DEF SWriteError, PcOK, Goto, Caller,
       Goroutine, ClosePc, RPc, SPc, IPc, UserPc
  <1>14. ASSUME IFire PROVE PcOK'
    BY <1>14, SessionAssumption DEF IFire, PcOK, Goto, Caller, Goroutine,
       ClosePc, RPc, SPc, IPc, UserPc
  <1>15. ASSUME AppReceiveFromR PROVE PcOK'
    BY <1>15, SessionAssumption DEF AppReceiveFromR, PcOK, Goto, Caller,
       Goroutine, ClosePc, RPc, SPc, IPc, UserPc
  <1>16. ASSUME NEW p \in Users \cup {"R"}, PutSender(p) PROVE PcOK'
    BY <1>16, SessionAssumption DEF PutSender, AfterSend, PcOK, Goto, Caller,
       Goroutine, ClosePc, RPc, SPc, IPc, UserPc
  <1>17. ASSUME NEW p \in Users \cup {"R"}, STakeFrom(p) PROVE PcOK'
    BY <1>17, SessionAssumption DEF STakeFrom, AfterSend, PcOK, Goto, Caller,
       Goroutine, ClosePc, RPc, SPc, IPc, UserPc
  <1>18. ASSUME NEW p \in Caller, Lock(p) PROVE PcOK'
    BY <1>18, SessionAssumption DEF Lock, PcOK, Goto, Caller, Goroutine,
       ClosePc, RPc, SPc, IPc, UserPc
  <1>19. ASSUME NEW p \in Caller, CheckClosed(p) PROVE PcOK'
    BY <1>19, SessionAssumption DEF CheckClosed, Return, AfterClose, PcOK,
       Goto, Caller, Goroutine, ClosePc, RPc, SPc, IPc, UserPc
  <1>20. ASSUME NEW p \in Caller, CheckOpen(p) PROVE PcOK'
    BY <1>20, SessionAssumption DEF CheckOpen, PcOK, Goto, Caller, Goroutine,
       ClosePc, RPc, SPc, IPc, UserPc
  <1>21. ASSUME NEW p \in Caller, Spawn(p) PROVE PcOK'
    BY <1>21, SessionAssumption DEF Spawn, PcOK, Goto, Caller, Goroutine,
       ClosePc, RPc, SPc, IPc, UserPc
  <1>22. ASSUME NEW p \in Caller, Mark(p) PROVE PcOK'
    BY <1>22, SessionAssumption DEF Mark, PcOK, Goto, Caller, Goroutine,
       ClosePc, RPc, SPc, IPc, UserPc
  <1>23. ASSUME NEW p \in Caller, Release(p) PROVE PcOK'
    BY <1>23, SessionAssumption DEF Release, Return, AfterClose, PcOK, Goto,
       Caller, Goroutine, ClosePc, RPc, SPc, IPc, UserPc
  <1>24. ASSUME NEW u \in Users, CallClose(u) PROVE PcOK'
    BY <1>24, SessionAssumption DEF CallClose, PcOK, Goto, Caller, Goroutine,
       ClosePc, RPc, SPc, IPc, UserPc
  <1>25. ASSUME NEW u \in Users, CallSoftClose(u) PROVE PcOK'
    BY <1>25, SessionAssumption DEF CallSoftClose, PcOK, Goto, Caller,
       Goroutine, ClosePc, RPc, SPc, IPc, UserPc
  <1>26. ASSUME NEW u \in Users, NEW m \in OutMsg, Offer(u, m) PROVE PcOK'
    BY <1>26, SessionAssumption DEF Offer, PcOK, Goto, Caller, Goroutine,
       ClosePc, RPc, SPc, IPc, UserPc
  <1>27. ASSUME UNCHANGED pc PROVE PcOK'
    BY <1>27 DEF PcOK
  <1>28. ASSUME KDeadline \/ KSignalR \/ KSignalW \/ Expire \/ DeadlineExpire \/
              AppReceive \/ PeerMove \/ (\E m \in InMsg : PeerSend(m))
        PROVE  PcOK'
    BY <1>27, <1>28 DEF KDeadline, KSignalR, KSignalW, Expire, DeadlineExpire,
       AppReceive, PeerMove, PeerSend, vars, lifeVars, sigVars, connVars,
       inVars, outVars
  <1>29. QED
    BY <1>1, <1>2, <1>3, <1>4, <1>5, <1>6, <1>7, <1>8, <1>9, <1>10, <1>11,
       <1>12, <1>13, <1>14, <1>15, <1>16, <1>17, <1>18, <1>19, <1>20, <1>21,
       <1>22, <1>23, <1>24, <1>25, <1>26, <1>28 DEF Next, RNext, SNext, KNext,
       PutNext, UserNext, PeerNext, CloseStep

\* Every step keeps the state of Close and of its signals well typed.
LEMMA LifeStep == LifeOK /\ Next => LifeOK'
  <1> SUFFICES ASSUME LifeOK, Next PROVE LifeOK'
    OBVIOUS
  <1>1. ASSUME RShutdown PROVE LifeOK'
    BY <1>1, SessionAssumption DEF RShutdown, LifeOK, lifeVars, sigVars,
       Caller
  <1>2. ASSUME SShutdown PROVE LifeOK'
    BY <1>2, SessionAssumption DEF SShutdown, LifeOK, lifeVars, sigVars,
       Caller
  <1>3. ASSUME KDeadline PROVE LifeOK'
    BY <1>3, SessionAssumption DEF KDeadline, LifeOK, lifeVars, sigVars,
       Caller
  <1>4. ASSUME KSignalR PROVE LifeOK'
    BY <1>4, SessionAssumption DEF KSignalR, LifeOK, lifeVars, sigVars, Caller
  <1>5. ASSUME KSignalW PROVE LifeOK'
    BY <1>5, SessionAssumption DEF KSignalW, LifeOK, lifeVars, sigVars, Caller
  <1>6. ASSUME NEW p \in Caller, Lock(p) PROVE LifeOK'
    BY <1>6, SessionAssumption DEF Lock, LifeOK, lifeVars, sigVars, Caller
  <1>7. ASSUME NEW p \in Caller, CheckClosed(p) PROVE LifeOK'
    BY <1>7, SessionAssumption DEF CheckClosed, Return, LifeOK, lifeVars,
       sigVars, Caller
  <1>8. ASSUME NEW p \in Caller, CheckOpen(p) PROVE LifeOK'
    BY <1>8, SessionAssumption DEF CheckOpen, LifeOK, lifeVars, sigVars,
       Caller
  <1>9. ASSUME NEW p \in Caller, Spawn(p) PROVE LifeOK'
    BY <1>9, SessionAssumption DEF Spawn, LifeOK, lifeVars, sigVars, Caller
  <1>10. ASSUME NEW p \in Caller, Mark(p) PROVE LifeOK'
    BY <1>10, SessionAssumption DEF Mark, LifeOK, lifeVars, sigVars, Caller
  <1>11. ASSUME NEW p \in Caller, Release(p) PROVE LifeOK'
    BY <1>11, SessionAssumption DEF Release, Return, LifeOK, lifeVars,
       sigVars, Caller
  <1>12. ASSUME NEW u \in Users, CallSoftClose(u) PROVE LifeOK'
    BY <1>12, SessionAssumption DEF CallSoftClose, LifeOK, lifeVars, sigVars,
       Caller
  <1>13. ASSUME UNCHANGED <<lifeVars, sigVars>> PROVE LifeOK'
    BY <1>13 DEF LifeOK, lifeVars, sigVars
  <1>14. ASSUME RStart \/ RPoll \/ RRead \/ RReadEOF \/ RReadError \/ RDispatch \/
              RDeliver \/ SStart \/ STake \/ SWrite \/ SWriteError \/ Expire \/
              DeadlineExpire \/ IFire \/ AppReceive \/ AppReceiveFromR \/
              PeerMove \/ (\E p \in Users \cup {"R"} : PutSender(p)) \/ (\E p
              \in Users \cup {"R"} : STakeFrom(p)) \/ (\E u \in Users :
              CallClose(u)) \/ (\E u \in Users : \E m \in OutMsg : Offer(u, m))
              \/ (\E m \in InMsg : PeerSend(m))
        PROVE  LifeOK'
    BY <1>13, <1>14 DEF RStart, RPoll, RRead, RReadEOF, RReadError, RDispatch,
       RDeliver, SStart, STake, SWrite, SWriteError, Expire, DeadlineExpire,
       IFire, AppReceive, AppReceiveFromR, PeerMove, PutSender, STakeFrom,
       CallClose, Offer, PeerSend, vars, lifeVars, sigVars, connVars, inVars,
       outVars
  <1>15. QED
    BY <1>1, <1>2, <1>3, <1>4, <1>5, <1>6, <1>7, <1>8, <1>9, <1>10, <1>11,
       <1>12, <1>14 DEF Next, RNext, SNext, KNext, PutNext, UserNext,
       PeerNext, CloseStep

\* Every step keeps the connection and the clock well typed.
LEMMA ConnStep == ConnOK /\ Next => ConnOK'
  <1> SUFFICES ASSUME ConnOK, Next PROVE ConnOK'
    OBVIOUS
  <1>1. ASSUME RPoll PROVE ConnOK'
    BY <1>1, SessionAssumption DEF RPoll, ConnOK, connVars
  <1>2. ASSUME SWrite PROVE ConnOK'
    BY <1>2, SessionAssumption DEF SWrite, ConnOK, connVars
  <1>3. ASSUME KDeadline PROVE ConnOK'
    BY <1>3, SessionAssumption DEF KDeadline, ConnOK, connVars
  <1>4. ASSUME Expire PROVE ConnOK'
    BY <1>4, SessionAssumption DEF Expire, ConnOK, connVars
  <1>5. ASSUME DeadlineExpire PROVE ConnOK'
    BY <1>5, SessionAssumption DEF DeadlineExpire, ConnOK, connVars
  <1>6. ASSUME PeerMove PROVE ConnOK'
    BY <1>6, SessionAssumption DEF PeerMove, ConnOK, connVars
  <1>7. ASSUME NEW p \in Caller, CheckOpen(p) PROVE ConnOK'
    BY <1>7, SessionAssumption DEF CheckOpen, ConnOK, connVars
  <1>8. ASSUME NEW p \in Caller, Release(p) PROVE ConnOK'
    BY <1>8, SessionAssumption DEF Release, ConnOK, connVars
  <1>9. ASSUME UNCHANGED <<connVars, fresh>> PROVE ConnOK'
    BY <1>9 DEF ConnOK, connVars
  <1>10. ASSUME RStart \/ RShutdown \/ RRead \/ RReadEOF \/ RReadError \/
              RDispatch \/ RDeliver \/ SStart \/ SShutdown \/ STake \/
              SWriteError \/ KSignalR \/ KSignalW \/ IFire \/ AppReceive \/
              AppReceiveFromR \/ (\E p \in Users \cup {"R"} : PutSender(p)) \/
              (\E p \in Users \cup {"R"} : STakeFrom(p)) \/ (\E p \in Caller :
              Lock(p)) \/ (\E p \in Caller : CheckClosed(p)) \/ (\E p \in Caller
              : Spawn(p)) \/ (\E p \in Caller : Mark(p)) \/ (\E u \in Users :
              CallClose(u)) \/ (\E u \in Users : CallSoftClose(u)) \/ (\E u \in
              Users : \E m \in OutMsg : Offer(u, m)) \/ (\E m \in InMsg :
              PeerSend(m))
        PROVE  ConnOK'
    BY <1>9, <1>10 DEF RStart, RShutdown, RRead, RReadEOF, RReadError,
       RDispatch, RDeliver, SStart, SShutdown, STake, SWriteError, KSignalR,
       KSignalW, IFire, AppReceive, AppReceiveFromR, PutSender, STakeFrom,
       Lock, CheckClosed, Spawn, Mark, CallClose, CallSoftClose, Offer,
       PeerSend, vars, lifeVars, sigVars, connVars, inVars, outVars
  <1>11. QED
    BY <1>1, <1>2, <1>3, <1>4, <1>5, <1>6, <1>7, <1>8, <1>10 DEF Next, RNext,
       SNext, KNext, PutNext, UserNext, PeerNext, CloseStep

\* Every step keeps channels and histories sequences of messages.
LEMMA ChanStep == ChanOK /\ Next => ChanOK'
  <1> SUFFICES ASSUME ChanOK, Next PROVE ChanOK'
    OBVIOUS
  <1>1. ASSUME RRead PROVE ChanOK'
    <2>1. Head(inbox) \in Message /\ Tail(inbox) \in Seq(Message)
      BY <1>1 DEF RRead, ChanOK
    <2>2. <<Head(inbox)>> \in Seq(Message)
      BY <2>1
    <2>3. hand' \in [Caller -> Seq(Message)]
      BY <1>1, <2>2 DEF RRead, ChanOK
    <2>4. QED
      BY <1>1, <2>1, <2>3 DEF RRead, ChanOK, outVars
  <1>2. ASSUME RDispatch PROVE ChanOK'
    <2>1. executed \o hand["R"] \in Seq(Message) /\ <<>> \in Seq(Message)
      BY DEF ChanOK, Caller, Goroutine
    <2>2. executed' \in Seq(Message)
      BY <1>2, <2>1 DEF RDispatch, ChanOK
    <2>3. hand' \in [Caller -> Seq(Message)]
      BY <1>2, <2>1 DEF RDispatch, ChanOK
    <2>4. QED
      BY <1>2, <2>2, <2>3 DEF RDispatch, ChanOK, outVars
  <1>3. ASSUME RDeliver PROVE ChanOK'
    BY <1>3 DEF RDeliver, ChanOK, inVars, outVars, Message, Caller, Goroutine
  <1>4. ASSUME STake PROVE ChanOK'
    BY <1>4 DEF STake, ChanOK, inVars, outVars, Message, Caller, Goroutine
  <1>5. ASSUME SWrite PROVE ChanOK'
    BY <1>5 DEF SWrite, ChanOK, inVars, outVars, Message, Caller, Goroutine
  <1>6. ASSUME AppReceive PROVE ChanOK'
    BY <1>6 DEF AppReceive, ChanOK, inVars, outVars, Message, Caller,
       Goroutine
  <1>7. ASSUME AppReceiveFromR PROVE ChanOK'
    BY <1>7 DEF AppReceiveFromR, ChanOK, inVars, outVars, Message, Caller,
       Goroutine
  <1>8. ASSUME NEW p \in Users \cup {"R"}, PutSender(p) PROVE ChanOK'
    BY <1>8 DEF PutSender, ChanOK, inVars, outVars, Message, Caller, Goroutine
  <1>9. ASSUME NEW p \in Users \cup {"R"}, STakeFrom(p) PROVE ChanOK'
    <2>1. hand[p] \in Seq(Message) /\ <<>> \in Seq(Message)
      BY DEF ChanOK, Caller, Goroutine
    <2>2. accepted' \in Seq(Message)
      BY <1>9, <2>1 DEF STakeFrom, ChanOK
    <2>3. hand' \in [Caller -> Seq(Message)]
      BY <1>9, <2>1 DEF STakeFrom, ChanOK
    <2>4. QED
      BY <1>9, <2>2, <2>3 DEF STakeFrom, ChanOK, inVars
  <1>10. ASSUME NEW u \in Users, NEW m \in OutMsg, Offer(u, m) PROVE ChanOK'
    BY <1>10 DEF Offer, ChanOK, inVars, outVars, Message, Caller, Goroutine
  <1>11. ASSUME NEW m \in InMsg, PeerSend(m) PROVE ChanOK'
    BY <1>11 DEF PeerSend, ChanOK, inVars, outVars, Message, Caller, Goroutine
  <1>12. ASSUME UNCHANGED <<inbox, arrived, recvq, received, executed, senderq, accepted, wire, hand>> PROVE ChanOK'
    BY <1>12 DEF ChanOK
  <1>13. ASSUME RStart \/ RShutdown \/ RPoll \/ RReadEOF \/ RReadError \/ SStart
              \/ SShutdown \/ SWriteError \/ KDeadline \/ KSignalR \/ KSignalW
              \/ Expire \/ DeadlineExpire \/ IFire \/ PeerMove \/ (\E p \in
              Caller : Lock(p)) \/ (\E p \in Caller : CheckClosed(p)) \/ (\E p
              \in Caller : CheckOpen(p)) \/ (\E p \in Caller : Spawn(p)) \/ (\E
              p \in Caller : Mark(p)) \/ (\E p \in Caller : Release(p)) \/ (\E u
              \in Users : CallClose(u)) \/ (\E u \in Users : CallSoftClose(u))
        PROVE  ChanOK'
    BY <1>12, <1>13 DEF RStart, RShutdown, RPoll, RReadEOF, RReadError,
       SStart, SShutdown, SWriteError, KDeadline, KSignalR, KSignalW, Expire,
       DeadlineExpire, IFire, PeerMove, Lock, CheckClosed, CheckOpen, Spawn,
       Mark, Release, CallClose, CallSoftClose, vars, lifeVars, sigVars,
       connVars, inVars, outVars
  <1>14. QED
    BY <1>1, <1>2, <1>3, <1>4, <1>5, <1>6, <1>7, <1>8, <1>9, <1>10, <1>11,
       <1>13 DEF Next, RNext, SNext, KNext, PutNext, UserNext, PeerNext,
       CloseStep

\* A goroutine about to hand over a message has exactly one, S in its select
\* has none, and no buffer outgrows its size.
LEMMA HandStep == TypeOK /\ Next => HandOK'
  <1> SUFFICES ASSUME TypeOK, Next PROVE HandOK'
    OBVIOUS
  <1>1. ASSUME RStart PROVE HandOK'
    BY <1>1, SessionAssumption DEF RStart, Goto, TypeOK, PcOK, ChanOK, HandOK,
       Carrying, Caller, Goroutine, ClosePc, UserPc, SPc, IPc, RPc, inVars,
       outVars
  <1>2. ASSUME RShutdown PROVE HandOK'
    BY <1>2, SessionAssumption DEF RShutdown, Goto, TypeOK, PcOK, ChanOK,
       HandOK, Carrying, Caller, Goroutine, ClosePc, UserPc, SPc, IPc, RPc,
       inVars, outVars
  <1>3. ASSUME RPoll PROVE HandOK'
    BY <1>3, SessionAssumption DEF RPoll, Goto, TypeOK, PcOK, ChanOK, HandOK,
       Carrying, Caller, Goroutine, ClosePc, UserPc, SPc, IPc, RPc, inVars,
       outVars
  <1>4. ASSUME RRead PROVE HandOK'
    BY <1>4, SessionAssumption DEF RRead, Goto, TypeOK, PcOK, ChanOK, HandOK,
       Carrying, Caller, Goroutine, ClosePc, UserPc, SPc, IPc, RPc, inVars,
       outVars
  <1>5. ASSUME RReadEOF PROVE HandOK'
    BY <1>5, SessionAssumption DEF RReadEOF, Goto, TypeOK, PcOK, ChanOK,
       HandOK, Carrying, Caller, Goroutine, ClosePc, UserPc, SPc, IPc, RPc,
       inVars, outVars
  <1>6. ASSUME RReadError PROVE HandOK'
    BY <1>6, SessionAssumption DEF RReadError, Goto, TypeOK, PcOK, ChanOK,
       HandOK, Carrying, Caller, Goroutine, ClosePc, UserPc, SPc, IPc, RPc,
       inVars, outVars
  <1>7. ASSUME RDispatch PROVE HandOK'
    <2>1. pc \in [Caller -> ClosePc \cup RPc \cup SPc \cup UserPc]
          /\ hand \in [Caller -> Seq(Message)]
      BY DEF TypeOK, PcOK, ChanOK
    <2>2. \A c \in Caller : c # "R" => pc'[c] = pc[c] /\ hand'[c] = hand[c]
      BY <1>7, <2>1 DEF RDispatch, Goto, Caller, Goroutine
    <2>3. pc'["R"] \in Carrying => hand'["R"] = hand["R"]
      BY <1>7, <2>1 DEF RDispatch, Goto, Carrying, Caller, Goroutine
    <2>4. pc["R"] = "dispatch" /\ UNCHANGED <<bb, recvq, senderq>>
      BY <1>7 DEF RDispatch, outVars
    <2> QED BY <2>2, <2>3, <2>4 DEF TypeOK, HandOK, Carrying, Caller, Goroutine
  <1>8. ASSUME RDeliver PROVE HandOK'
    <2>1. Len(hand["R"]) = 1 /\ hand["R"] \in Seq(Message) /\ recvq \in Seq(Message)
      BY <1>8 DEF RDeliver, TypeOK, HandOK, ChanOK, Carrying, Caller, Goroutine
    <2>2. Len(recvq \o hand["R"]) = Len(recvq) + 1 /\ Len(recvq) \in Nat
      BY <2>1, OneMore
    <2>3. bb.receiveBuffer \in Nat
      BY SessionAssumption DEF TypeOK
    <2>4. Len(recvq') <= bb'.receiveBuffer
      BY <1>8, <2>2, <2>3 DEF RDeliver
    <2>5. \A c \in Caller : pc'[c] \in Carrying => Len(hand'[c]) = 1
      BY <1>8, SessionAssumption DEF RDeliver, Goto, TypeOK, PcOK, ChanOK, HandOK, Carrying, Caller,
         Goroutine
    <2>6. QED
      BY <1>8, <2>4, <2>5, SessionAssumption DEF RDeliver, Goto, TypeOK, PcOK, ChanOK, HandOK, inVars,
         outVars, Caller, Goroutine
  <1>9. ASSUME SStart PROVE HandOK'
    BY <1>9, SessionAssumption DEF SStart, Goto, TypeOK, PcOK, ChanOK, HandOK,
       Carrying, Caller, Goroutine, ClosePc, UserPc, SPc, IPc, RPc, inVars,
       outVars
  <1>10. ASSUME SShutdown PROVE HandOK'
    BY <1>10, SessionAssumption DEF SShutdown, Goto, TypeOK, PcOK, ChanOK,
       HandOK, Carrying, Caller, Goroutine, ClosePc, UserPc, SPc, IPc, RPc,
       inVars, outVars
  <1>11. ASSUME STake PROVE HandOK'
    BY <1>11, SessionAssumption DEF STake, Goto, TypeOK, PcOK, ChanOK, HandOK,
       Carrying, Caller, Goroutine, ClosePc, UserPc, SPc, IPc, RPc, inVars,
       outVars
  <1>12. ASSUME SWrite PROVE HandOK'
    BY <1>12, SessionAssumption DEF SWrite, Goto, TypeOK, PcOK, ChanOK,
       HandOK, Carrying, Caller, Goroutine, ClosePc, UserPc, SPc, IPc, RPc,
       inVars, outVars
  <1>13. ASSUME SWriteError PROVE HandOK'
    BY <1>13, SessionAssumption DEF SWriteError, Goto, TypeOK, PcOK, ChanOK,
       HandOK, Carrying, Caller, Goroutine, ClosePc, UserPc, SPc, IPc, RPc,
       inVars, outVars
  <1>14. ASSUME IFire PROVE HandOK'
    BY <1>14, SessionAssumption DEF IFire, Goto, TypeOK, PcOK, ChanOK, HandOK,
       Carrying, Caller, Goroutine, ClosePc, UserPc, SPc, IPc, RPc, inVars,
       outVars
  <1>15. ASSUME AppReceive PROVE HandOK'
    BY <1>15, SessionAssumption DEF AppReceive, Goto, TypeOK, PcOK, ChanOK,
       HandOK, Carrying, Caller, Goroutine, ClosePc, UserPc, SPc, IPc, RPc,
       inVars, outVars
  <1>16. ASSUME AppReceiveFromR PROVE HandOK'
    BY <1>16, SessionAssumption DEF AppReceiveFromR, Goto, TypeOK, PcOK,
       ChanOK, HandOK, Carrying, Caller, Goroutine, ClosePc, UserPc, SPc, IPc,
       RPc, inVars, outVars
  <1>17. ASSUME NEW p \in Users \cup {"R"}, PutSender(p) PROVE HandOK'
    <2>1. Len(hand[p]) = 1 /\ hand[p] \in Seq(Message) /\ senderq \in Seq(Message)
      BY <1>17 DEF PutSender, TypeOK, HandOK, ChanOK, Carrying, Caller, Goroutine
    <2>2. Len(senderq \o hand[p]) = Len(senderq) + 1 /\ Len(senderq) \in Nat
      BY <2>1, OneMore
    <2>3. bb.sendBuffer \in Nat
      BY SessionAssumption DEF TypeOK
    <2>4. Len(senderq') <= bb'.sendBuffer
      BY <1>17, <2>2, <2>3 DEF PutSender
    <2>5. \A c \in Caller : pc'[c] \in Carrying => Len(hand'[c]) = 1
      BY <1>17, SessionAssumption DEF PutSender, Goto, AfterSend, TypeOK, PcOK, ChanOK, HandOK, Carrying, Caller,
         Goroutine
    <2>6. QED
      BY <1>17, <2>4, <2>5, SessionAssumption DEF PutSender, Goto, AfterSend, TypeOK, PcOK, ChanOK, HandOK, inVars,
         outVars, Caller, Goroutine
  <1>18. ASSUME NEW p \in Users \cup {"R"}, STakeFrom(p) PROVE HandOK'
    BY <1>18, SessionAssumption DEF STakeFrom, Goto, AfterSend, TypeOK, PcOK,
       ChanOK, HandOK, Carrying, Caller, Goroutine, ClosePc, UserPc, SPc, IPc,
       RPc, inVars, outVars
  <1>19. ASSUME NEW p \in Caller, Lock(p) PROVE HandOK'
    BY <1>19, SessionAssumption DEF Lock, Goto, TypeOK, PcOK, ChanOK, HandOK,
       Carrying, Caller, Goroutine, ClosePc, UserPc, SPc, IPc, RPc, inVars,
       outVars
  <1>20. ASSUME NEW p \in Caller, CheckClosed(p) PROVE HandOK'
    BY <1>20, SessionAssumption DEF CheckClosed, Goto, Return, AfterClose,
       TypeOK, PcOK, ChanOK, HandOK, Carrying, Caller, Goroutine, ClosePc,
       UserPc, SPc, IPc, RPc, inVars, outVars
  <1>21. ASSUME NEW p \in Caller, CheckOpen(p) PROVE HandOK'
    BY <1>21, SessionAssumption DEF CheckOpen, Goto, TypeOK, PcOK, ChanOK,
       HandOK, Carrying, Caller, Goroutine, ClosePc, UserPc, SPc, IPc, RPc,
       inVars, outVars
  <1>22. ASSUME NEW p \in Caller, Spawn(p) PROVE HandOK'
    BY <1>22, SessionAssumption DEF Spawn, Goto, TypeOK, PcOK, ChanOK, HandOK,
       Carrying, Caller, Goroutine, ClosePc, UserPc, SPc, IPc, RPc, inVars,
       outVars
  <1>23. ASSUME NEW p \in Caller, Mark(p) PROVE HandOK'
    BY <1>23, SessionAssumption DEF Mark, Goto, TypeOK, PcOK, ChanOK, HandOK,
       Carrying, Caller, Goroutine, ClosePc, UserPc, SPc, IPc, RPc, inVars,
       outVars
  <1>24. ASSUME NEW p \in Caller, Release(p) PROVE HandOK'
    BY <1>24, SessionAssumption DEF Release, Goto, Return, AfterClose, TypeOK,
       PcOK, ChanOK, HandOK, Carrying, Caller, Goroutine, ClosePc, UserPc,
       SPc, IPc, RPc, inVars, outVars
  <1>25. ASSUME NEW u \in Users, CallClose(u) PROVE HandOK'
    BY <1>25, SessionAssumption DEF CallClose, Goto, TypeOK, PcOK, ChanOK,
       HandOK, Carrying, Caller, Goroutine, ClosePc, UserPc, SPc, IPc, RPc,
       inVars, outVars
  <1>26. ASSUME NEW u \in Users, CallSoftClose(u) PROVE HandOK'
    BY <1>26, SessionAssumption DEF CallSoftClose, Goto, TypeOK, PcOK, ChanOK,
       HandOK, Carrying, Caller, Goroutine, ClosePc, UserPc, SPc, IPc, RPc,
       inVars, outVars
  <1>27. ASSUME NEW u \in Users, NEW m \in OutMsg, Offer(u, m) PROVE HandOK'
    BY <1>27, SessionAssumption DEF Offer, Goto, TypeOK, PcOK, ChanOK, HandOK,
       Carrying, Caller, Goroutine, ClosePc, UserPc, SPc, IPc, RPc, inVars,
       outVars
  <1>28. ASSUME UNCHANGED <<bb, pc, hand, recvq, senderq>> PROVE HandOK'
    BY <1>28 DEF TypeOK, HandOK
  <1>29. ASSUME KDeadline \/ KSignalR \/ KSignalW \/ Expire \/ DeadlineExpire \/
              PeerMove \/ (\E m \in InMsg : PeerSend(m))
        PROVE  HandOK'
    BY <1>28, <1>29 DEF KDeadline, KSignalR, KSignalW, Expire, DeadlineExpire,
       PeerMove, PeerSend, vars, lifeVars, sigVars, connVars, inVars, outVars
  <1>30. QED
    BY <1>1, <1>2, <1>3, <1>4, <1>5, <1>6, <1>7, <1>8, <1>9, <1>10, <1>11,
       <1>12, <1>13, <1>14, <1>15, <1>16, <1>17, <1>18, <1>19, <1>20, <1>21,
       <1>22, <1>23, <1>24, <1>25, <1>26, <1>27, <1>29 DEF Next, RNext, SNext,
       KNext, PutNext, UserNext, PeerNext, CloseStep

\* A session that wrapConnectionTcp has just built is well typed.
LEMMA InitType == Init => TypeOK
  <1> SUFFICES ASSUME Init PROVE TypeOK
    OBVIOUS
  <1>1. <<>> \in Seq(Message) /\ Len(<<>>) = 0
    BY EmptySeq
  <1>2. bb \in Builders /\ bb.sendBuffer \in Nat /\ bb.receiveBuffer \in Nat
    BY SessionAssumption DEF Init
  <1>3. PcOK
    BY SessionAssumption DEF Init, PcOK, Caller, Goroutine, RPc, SPc, IPc, UserPc
  <1>4. LifeOK /\ ConnOK
    <2>1. soft \in SUBSET Handshakers /\ closeMux \in Caller \cup {NoProc}
      BY DEF Init
    <2>2. closings \in Nat /\ rsd \in 0..1 /\ wsd \in 0..1
      BY DEF Init
    <2>3. QED
      BY <2>1, <2>2 DEF Init, LifeOK, ConnOK
  <1>5. ChanOK
    BY <1>1 DEF Init, ChanOK
  <1>6. HandOK
    <2>1. Len(recvq) <= bb.receiveBuffer /\ Len(senderq) <= bb.sendBuffer
      BY <1>1, <1>2 DEF Init
    <2>2. \A p \in Caller : pc[p] \notin Carrying
      BY DEF Init, Carrying
    <2>3. hand["S"] = <<>>
      BY DEF Init, Caller, Goroutine
    <2>4. QED
      BY <2>1, <2>2, <2>3 DEF HandOK
  <1>7. QED
    BY <1>2, <1>3, <1>4, <1>5, <1>6 DEF TypeOK

\* Every step, or none, keeps the types.
LEMMA TypeStep == TypeOK /\ [Next]_vars => TypeOK'
  <1> SUFFICES ASSUME TypeOK, [Next]_vars PROVE TypeOK'
    OBVIOUS
  <1>1. CASE Next
    <2>1. bb' = bb
      BY <1>1 DEF Next, RNext, SNext, KNext, PutNext, UserNext, PeerNext,
      CloseStep, RStart, RShutdown, RPoll, RRead, RReadEOF, RReadError,
      RDispatch, RDeliver, SStart, SShutdown, STake, SWrite, SWriteError,
      KDeadline, KSignalR, KSignalW, Expire, DeadlineExpire, IFire,
      AppReceive, AppReceiveFromR, PeerMove, PutSender, STakeFrom, Lock,
      CheckClosed, CheckOpen, Spawn, Mark, Release, CallClose,
      CallSoftClose, Offer, PeerSend
    <2>2. QED
      BY <1>1, <2>1, PcStep, LifeStep, ConnStep, ChanStep, HandStep DEF TypeOK
  <1>2. CASE UNCHANGED vars
    BY <1>2 DEF vars, lifeVars, sigVars, connVars, inVars, outVars, TypeOK, PcOK,
       LifeOK, ConnOK, ChanOK, HandOK
  <1>3. QED
    BY <1>1, <1>2

\* Type correctness, with the bounds on every channel: for any number of users and
\* any buffer sizes, no goroutine of nan0.go leaves its own code, no signal channel
\* holds two signals and no buffer overflows.
THEOREM TypeCorrect == Spec => []TypeOK
  <1>1. QED
    BY InitType, TypeStep, PTL DEF Spec

\* The protocol of closeMux, closed and the connection is kept by every step.
LEMMA CloseStepInv == TypeOK /\ CloseInv /\ Next => CloseInv'
  <1> SUFFICES ASSUME TypeOK, CloseInv, Next PROVE CloseInv'
    OBVIOUS
  <1>1. ASSUME RStart PROVE CloseInv'
    BY <1>1, SessionAssumption DEF RStart, Goto, lifeVars, sigVars, connVars,
       TypeOK, PcOK, LifeOK, ConnOK, CloseInv, ClosedOnce, CloseIsComplete,
       IsClosed, Critical, Caller, Goroutine
  <1>2. ASSUME RShutdown PROVE CloseInv'
    BY <1>2, SessionAssumption DEF RShutdown, Goto, lifeVars, sigVars,
       connVars, TypeOK, PcOK, LifeOK, ConnOK, CloseInv, ClosedOnce,
       CloseIsComplete, IsClosed, Critical, Caller, Goroutine
  <1>3. ASSUME RPoll PROVE CloseInv'
    BY <1>3, SessionAssumption DEF RPoll, Goto, lifeVars, sigVars, connVars,
       TypeOK, PcOK, LifeOK, ConnOK, CloseInv, ClosedOnce, CloseIsComplete,
       IsClosed, Critical, Caller, Goroutine
  <1>4. ASSUME RRead PROVE CloseInv'
    BY <1>4, SessionAssumption DEF RRead, Goto, lifeVars, sigVars, connVars,
       TypeOK, PcOK, LifeOK, ConnOK, CloseInv, ClosedOnce, CloseIsComplete,
       IsClosed, Critical, Caller, Goroutine
  <1>5. ASSUME RReadEOF PROVE CloseInv'
    BY <1>5, SessionAssumption DEF RReadEOF, Goto, lifeVars, sigVars,
       connVars, TypeOK, PcOK, LifeOK, ConnOK, CloseInv, ClosedOnce,
       CloseIsComplete, IsClosed, Critical, Caller, Goroutine
  <1>6. ASSUME RReadError PROVE CloseInv'
    BY <1>6, SessionAssumption DEF RReadError, Goto, lifeVars, sigVars,
       connVars, TypeOK, PcOK, LifeOK, ConnOK, CloseInv, ClosedOnce,
       CloseIsComplete, IsClosed, Critical, Caller, Goroutine
  <1>7. ASSUME RDispatch PROVE CloseInv'
    BY <1>7, SessionAssumption DEF RDispatch, Goto, lifeVars, sigVars,
       connVars, TypeOK, PcOK, LifeOK, ConnOK, CloseInv, ClosedOnce,
       CloseIsComplete, IsClosed, Critical, Caller, Goroutine
  <1>8. ASSUME RDeliver PROVE CloseInv'
    BY <1>8, SessionAssumption DEF RDeliver, Goto, lifeVars, sigVars,
       connVars, TypeOK, PcOK, LifeOK, ConnOK, CloseInv, ClosedOnce,
       CloseIsComplete, IsClosed, Critical, Caller, Goroutine
  <1>9. ASSUME SStart PROVE CloseInv'
    BY <1>9, SessionAssumption DEF SStart, Goto, lifeVars, sigVars, connVars,
       TypeOK, PcOK, LifeOK, ConnOK, CloseInv, ClosedOnce, CloseIsComplete,
       IsClosed, Critical, Caller, Goroutine
  <1>10. ASSUME SShutdown PROVE CloseInv'
    BY <1>10, SessionAssumption DEF SShutdown, Goto, lifeVars, sigVars,
       connVars, TypeOK, PcOK, LifeOK, ConnOK, CloseInv, ClosedOnce,
       CloseIsComplete, IsClosed, Critical, Caller, Goroutine
  <1>11. ASSUME STake PROVE CloseInv'
    BY <1>11, SessionAssumption DEF STake, Goto, lifeVars, sigVars, connVars,
       TypeOK, PcOK, LifeOK, ConnOK, CloseInv, ClosedOnce, CloseIsComplete,
       IsClosed, Critical, Caller, Goroutine
  <1>12. ASSUME SWrite PROVE CloseInv'
    BY <1>12, SessionAssumption DEF SWrite, Goto, lifeVars, sigVars, connVars,
       TypeOK, PcOK, LifeOK, ConnOK, CloseInv, ClosedOnce, CloseIsComplete,
       IsClosed, Critical, Caller, Goroutine
  <1>13. ASSUME SWriteError PROVE CloseInv'
    BY <1>13, SessionAssumption DEF SWriteError, Goto, lifeVars, sigVars,
       connVars, TypeOK, PcOK, LifeOK, ConnOK, CloseInv, ClosedOnce,
       CloseIsComplete, IsClosed, Critical, Caller, Goroutine
  <1>14. ASSUME KDeadline PROVE CloseInv'
    BY <1>14, SessionAssumption DEF KDeadline, lifeVars, connVars, TypeOK,
       PcOK, LifeOK, ConnOK, CloseInv, ClosedOnce, CloseIsComplete, IsClosed,
       Critical, Caller, Goroutine
  <1>15. ASSUME KSignalR PROVE CloseInv'
    BY <1>15, SessionAssumption DEF KSignalR, lifeVars, connVars, TypeOK,
       PcOK, LifeOK, ConnOK, CloseInv, ClosedOnce, CloseIsComplete, IsClosed,
       Critical, Caller, Goroutine
  <1>16. ASSUME KSignalW PROVE CloseInv'
    BY <1>16, SessionAssumption DEF KSignalW, lifeVars, connVars, TypeOK,
       PcOK, LifeOK, ConnOK, CloseInv, ClosedOnce, CloseIsComplete, IsClosed,
       Critical, Caller, Goroutine
  <1>17. ASSUME IFire PROVE CloseInv'
    BY <1>17, SessionAssumption DEF IFire, Goto, lifeVars, sigVars, connVars,
       TypeOK, PcOK, LifeOK, ConnOK, CloseInv, ClosedOnce, CloseIsComplete,
       IsClosed, Critical, Caller, Goroutine
  <1>18. ASSUME AppReceiveFromR PROVE CloseInv'
    BY <1>18, SessionAssumption DEF AppReceiveFromR, Goto, lifeVars, sigVars,
       connVars, TypeOK, PcOK, LifeOK, ConnOK, CloseInv, ClosedOnce,
       CloseIsComplete, IsClosed, Critical, Caller, Goroutine
  <1>19. ASSUME NEW p \in Users \cup {"R"}, PutSender(p) PROVE CloseInv'
    BY <1>19, SessionAssumption DEF PutSender, Goto, lifeVars, sigVars,
       connVars, AfterSend, TypeOK, PcOK, LifeOK, ConnOK, CloseInv,
       ClosedOnce, CloseIsComplete, IsClosed, Critical, Caller, Goroutine
  <1>20. ASSUME NEW p \in Users \cup {"R"}, STakeFrom(p) PROVE CloseInv'
    BY <1>20, SessionAssumption DEF STakeFrom, Goto, lifeVars, sigVars,
       connVars, AfterSend, TypeOK, PcOK, LifeOK, ConnOK, CloseInv,
       ClosedOnce, CloseIsComplete, IsClosed, Critical, Caller, Goroutine
  <1>21. ASSUME NEW p \in Caller, Lock(p) PROVE CloseInv'
    BY <1>21, SessionAssumption DEF Lock, Goto, lifeVars, sigVars, connVars,
       TypeOK, PcOK, LifeOK, ConnOK, CloseInv, ClosedOnce, CloseIsComplete,
       IsClosed, Critical, Caller, Goroutine
  <1>22. ASSUME NEW p \in Caller, CheckClosed(p) PROVE CloseInv'
    BY <1>22, SessionAssumption DEF CheckClosed, Goto, lifeVars, sigVars,
       connVars, Return, AfterClose, TypeOK, PcOK, LifeOK, ConnOK, CloseInv,
       ClosedOnce, CloseIsComplete, IsClosed, Critical, Caller, Goroutine
  <1>23. ASSUME NEW p \in Caller, CheckOpen(p) PROVE CloseInv'
    BY <1>23, SessionAssumption DEF CheckOpen, Goto, lifeVars, sigVars,
       connVars, TypeOK, PcOK, LifeOK, ConnOK, CloseInv, ClosedOnce,
       CloseIsComplete, IsClosed, Critical, Caller, Goroutine
  <1>24. ASSUME NEW p \in Caller, Spawn(p) PROVE CloseInv'
    BY <1>24, SessionAssumption DEF Spawn, Goto, lifeVars, sigVars, connVars,
       TypeOK, PcOK, LifeOK, ConnOK, CloseInv, ClosedOnce, CloseIsComplete,
       IsClosed, Critical, Caller, Goroutine
  <1>25. ASSUME NEW p \in Caller, Mark(p) PROVE CloseInv'
    BY <1>25, SessionAssumption DEF Mark, Goto, lifeVars, sigVars, connVars,
       TypeOK, PcOK, LifeOK, ConnOK, CloseInv, ClosedOnce, CloseIsComplete,
       IsClosed, Critical, Caller, Goroutine
  <1>26. ASSUME NEW p \in Caller, Release(p) PROVE CloseInv'
    BY <1>26, SessionAssumption DEF Release, Goto, lifeVars, sigVars,
       connVars, Return, AfterClose, TypeOK, PcOK, LifeOK, ConnOK, CloseInv,
       ClosedOnce, CloseIsComplete, IsClosed, Critical, Caller, Goroutine
  <1>27. ASSUME NEW u \in Users, CallClose(u) PROVE CloseInv'
    BY <1>27, SessionAssumption DEF CallClose, Goto, lifeVars, sigVars,
       connVars, TypeOK, PcOK, LifeOK, ConnOK, CloseInv, ClosedOnce,
       CloseIsComplete, IsClosed, Critical, Caller, Goroutine
  <1>28. ASSUME NEW u \in Users, CallSoftClose(u) PROVE CloseInv'
    BY <1>28, SessionAssumption DEF CallSoftClose, Goto, lifeVars, sigVars,
       connVars, TypeOK, PcOK, LifeOK, ConnOK, CloseInv, ClosedOnce,
       CloseIsComplete, IsClosed, Critical, Caller, Goroutine
  <1>29. ASSUME NEW u \in Users, NEW m \in OutMsg, Offer(u, m) PROVE CloseInv'
    BY <1>29, SessionAssumption DEF Offer, Goto, lifeVars, sigVars, connVars,
       TypeOK, PcOK, LifeOK, ConnOK, CloseInv, ClosedOnce, CloseIsComplete,
       IsClosed, Critical, Caller, Goroutine
  <1>30. ASSUME UNCHANGED <<pc, lifeVars, sigVars, connOpen>> PROVE CloseInv'
    BY <1>30 DEF CloseInv, ClosedOnce, CloseIsComplete, IsClosed, lifeVars, sigVars
  <1>31. ASSUME Expire \/ DeadlineExpire \/ AppReceive \/ PeerMove \/ (\E m \in
              InMsg : PeerSend(m))
        PROVE  CloseInv'
    BY <1>30, <1>31 DEF Expire, DeadlineExpire, AppReceive, PeerMove,
       PeerSend, vars, lifeVars, sigVars, connVars, inVars, outVars
  <1>32. QED
    BY <1>1, <1>2, <1>3, <1>4, <1>5, <1>6, <1>7, <1>8, <1>9, <1>10, <1>11,
       <1>12, <1>13, <1>14, <1>15, <1>16, <1>17, <1>18, <1>19, <1>20, <1>21,
       <1>22, <1>23, <1>24, <1>25, <1>26, <1>27, <1>28, <1>29, <1>31 DEF Next,
       RNext, SNext, KNext, PutNext, UserNext, PeerNext, CloseStep

\* A session that has just been built is open and nobody is closing it.
LEMMA InitClose == Init => CloseInv
  <1> SUFFICES ASSUME Init PROVE CloseInv
    OBVIOUS
  <1>1. \A p \in Caller : pc[p] \in {"idle", "start"}
    BY DEF Init
  <1>2. closeMux = NoProc /\ closings = 0 /\ connOpen = TRUE /\ returned = FALSE
        /\ kpc = "none" /\ rsd = 0 /\ wsd = 0 /\ ~softened
    BY DEF Init
  <1>3. QED
    BY <1>1, <1>2 DEF CloseInv, ClosedOnce, CloseIsComplete, IsClosed, Critical

\* CloseInv holds of every state the session reaches.
LEMMA CloseInvariant == Spec => []CloseInv
  <1>1. CloseInv /\ UNCHANGED vars => CloseInv'
    BY DEF vars, lifeVars, sigVars, connVars, CloseInv, ClosedOnce, CloseIsComplete,
       IsClosed
  <1>2. TypeOK /\ CloseInv /\ [Next]_vars => CloseInv'
    BY <1>1, CloseStepInv
  <1>3. QED
    BY <1>2, InitClose, TypeCorrect, PTL DEF Spec

\* However many callers race, n.closed is closed at most once: the second close,
\* whose panic Close does not recover, cannot happen.
THEOREM ClosesOnce == Spec => []ClosedOnce
  <1>1. CloseInv => ClosedOnce
    BY DEF CloseInv
  <1>2. QED
    BY <1>1, CloseInvariant, PTL

\* A call of Close or softClose that returned found or left the session closed and,
\* unless softClose won, the connection released, whoever closed it.
THEOREM CloseCompletes == Spec => []CloseIsComplete
  <1>1. CloseInv => CloseIsComplete
    BY DEF CloseInv
  <1>2. QED
    BY <1>1, CloseInvariant, PTL

\* Taking the head of a channel's buffer and putting it back gives the buffer.
LEMMA HeadFirst ==
  ASSUME NEW T, NEW s \in Seq(T), s # <<>>
  PROVE  <<Head(s)>> \o Tail(s) = s
  <1>1. Head(s) \in T /\ Tail(s) \in Seq(T) /\ Len(Tail(s)) = Len(s) - 1
    BY HeadTailProperties
  <1>2. <<Head(s)>> \in Seq(T) /\ Len(<<Head(s)>>) = 1
    BY <1>1
  <1>3. <<Head(s)>> \o Tail(s) \in Seq(T)
    BY <1>1, <1>2, ConcatProperties
  <1>4. Len(<<Head(s)>> \o Tail(s)) = 1 + Len(Tail(s))
    BY <1>1, <1>2, ConcatProperties
  <1>5. Len(<<Head(s)>> \o Tail(s)) = Len(s)
    BY <1>1, <1>4, LenProperties
  <1>6. ASSUME NEW i \in 1..Len(s) PROVE (<<Head(s)>> \o Tail(s))[i] = s[i]
    BY <1>1, <1>2
  <1>7. QED
    BY <1>3, <1>5, <1>6, SeqEqual

\* No step loses, repeats or overtakes a message between the sender channel and
\* the connection.
LEMMA OutboundStep == TypeOK /\ OutboundOrder /\ Next => OutboundOrder'
  <1> SUFFICES ASSUME TypeOK, OutboundOrder, Next PROVE OutboundOrder'
    OBVIOUS
  <1>1. ASSUME RRead PROVE OutboundOrder'
    BY <1>1, SessionAssumption DEF RRead, OutboundOrder, outVars, TypeOK,
       ChanOK, Caller, Goroutine
  <1>2. ASSUME RDispatch PROVE OutboundOrder'
    BY <1>2, SessionAssumption DEF RDispatch, OutboundOrder, outVars, TypeOK,
       ChanOK, Caller, Goroutine
  <1>3. ASSUME RDeliver PROVE OutboundOrder'
    BY <1>3, SessionAssumption DEF RDeliver, OutboundOrder, outVars, TypeOK,
       ChanOK, Caller, Goroutine
  <1>4. ASSUME STake PROVE OutboundOrder'
    <2>1. wire \in Seq(Message) /\ senderq \in Seq(Message) /\ hand["S"] = <<>>
      BY <1>4 DEF STake, TypeOK, ChanOK, HandOK
    <2>2. <<Head(senderq)>> \in Seq(Message) /\ Tail(senderq) \in Seq(Message)
          /\ <<Head(senderq)>> \o Tail(senderq) = senderq
      BY <1>4, <2>1, HeadTailProperties, HeadFirst DEF STake
    <2>3. (wire \o <<Head(senderq)>>) \o Tail(senderq) = wire \o senderq
      BY <2>1, <2>2, ConcatAssociative
    <2>4. wire \o hand["S"] = wire
      BY <2>1, ConcatEmptySeq
    <2>5. hand'["S"] = <<Head(senderq)>>
      BY <1>4 DEF STake, TypeOK, ChanOK, Caller, Goroutine
    <2>6. QED
      BY <1>4, <2>3, <2>4, <2>5 DEF STake, OutboundOrder
  <1>5. ASSUME SWrite PROVE OutboundOrder'
    <2>1. wire \in Seq(Message) /\ hand["S"] \in Seq(Message)
      BY DEF TypeOK, ChanOK, Caller, Goroutine
    <2>2. (wire \o hand["S"]) \o <<>> = wire \o hand["S"]
      BY <2>1, ConcatProperties, ConcatEmptySeq
    <2>3. hand'["S"] = <<>>
      BY <1>5 DEF SWrite, TypeOK, ChanOK, Caller, Goroutine
    <2>4. QED
      BY <1>5, <2>2, <2>3 DEF SWrite, OutboundOrder
  <1>6. ASSUME AppReceiveFromR PROVE OutboundOrder'
    BY <1>6, SessionAssumption DEF AppReceiveFromR, OutboundOrder, outVars,
       TypeOK, ChanOK, Caller, Goroutine
  <1>7. ASSUME NEW p \in Users \cup {"R"}, PutSender(p) PROVE OutboundOrder'
    <2>1. wire \in Seq(Message) /\ hand["S"] \in Seq(Message)
          /\ senderq \in Seq(Message) /\ hand[p] \in Seq(Message)
      BY DEF TypeOK, ChanOK, Caller, Goroutine
    <2>2. wire \o hand["S"] \in Seq(Message)
      BY <2>1, ConcatProperties
    <2>3. ((wire \o hand["S"]) \o senderq) \o hand[p] = (wire \o hand["S"]) \o (senderq \o hand[p])
      <3>1. \A a, b, c \in Seq(Message) : (a \o b) \o c = a \o (b \o c)
        BY ConcatAssociative
      <3>2. QED
        BY <2>1, <2>2, <3>1, ZenonT(20)
    <2>4. hand'["S"] = hand["S"]
      BY <1>7, SessionAssumption DEF PutSender, TypeOK, ChanOK, Caller, Goroutine
    <2>5. QED
      BY <1>7, <2>3, <2>4 DEF PutSender, OutboundOrder
  <1>8. ASSUME NEW p \in Users \cup {"R"}, STakeFrom(p) PROVE OutboundOrder'
    <2>1. wire \in Seq(Message) /\ hand[p] \in Seq(Message) /\ hand["S"] = <<>>
      BY <1>8 DEF STakeFrom, TypeOK, ChanOK, HandOK, Caller, Goroutine
    <2>2. senderq = <<>>
      <3>1. senderq \in Seq(Message) /\ Len(senderq) <= 0
        BY <1>8 DEF STakeFrom, TypeOK, ChanOK, HandOK
      <3>2. QED
        BY <3>1, LenProperties, EmptySeq
    <2>3. accepted = wire
      BY <2>1, <2>2, ConcatEmptySeq DEF OutboundOrder
    <2>4. hand'["S"] = hand[p]
      BY <1>8, SessionAssumption DEF STakeFrom, TypeOK, ChanOK, Caller, Goroutine
    <2>5. wire \o hand[p] \o <<>> = wire \o hand[p]
      BY <2>1, ConcatProperties, ConcatEmptySeq
    <2>6. QED
      BY <1>8, <2>2, <2>3, <2>4, <2>5 DEF STakeFrom, OutboundOrder
  <1>9. ASSUME NEW u \in Users, NEW m \in OutMsg, Offer(u, m) PROVE OutboundOrder'
    BY <1>9, SessionAssumption DEF Offer, OutboundOrder, outVars, TypeOK,
       ChanOK, Caller, Goroutine
  <1>10. ASSUME UNCHANGED <<hand, senderq, accepted, wire>> PROVE OutboundOrder'
    BY <1>10 DEF OutboundOrder
  <1>11. ASSUME RStart \/ RShutdown \/ RPoll \/ RReadEOF \/ RReadError \/ SStart
              \/ SShutdown \/ SWriteError \/ KDeadline \/ KSignalR \/ KSignalW
              \/ Expire \/ DeadlineExpire \/ IFire \/ AppReceive \/ PeerMove \/
              (\E p \in Caller : Lock(p)) \/ (\E p \in Caller : CheckClosed(p))
              \/ (\E p \in Caller : CheckOpen(p)) \/ (\E p \in Caller :
              Spawn(p)) \/ (\E p \in Caller : Mark(p)) \/ (\E p \in Caller :
              Release(p)) \/ (\E u \in Users : CallClose(u)) \/ (\E u \in Users
              : CallSoftClose(u)) \/ (\E m \in InMsg : PeerSend(m))
        PROVE  OutboundOrder'
    BY <1>10, <1>11 DEF RStart, RShutdown, RPoll, RReadEOF, RReadError,
       SStart, SShutdown, SWriteError, KDeadline, KSignalR, KSignalW, Expire,
       DeadlineExpire, IFire, AppReceive, PeerMove, Lock, CheckClosed,
       CheckOpen, Spawn, Mark, Release, CallClose, CallSoftClose, PeerSend,
       vars, lifeVars, sigVars, connVars, inVars, outVars
  <1>12. QED
    BY <1>1, <1>2, <1>3, <1>4, <1>5, <1>6, <1>7, <1>8, <1>9, <1>11 DEF Next,
       RNext, SNext, KNext, PutNext, UserNext, PeerNext, CloseStep

\* What S has written is a prefix of what the sender channel accepted, in order, and
\* the rest is still in S's hand or in the channel: also after the session closed.
THEOREM OutboundInOrder == Spec => []OutboundOrder
  <1>1. Init => OutboundOrder
    <2>1. <<>> \o <<>> \o <<>> = <<>>
      BY EmptySeq, ConcatEmptySeq
    <2>2. QED
      BY <2>1 DEF Init, OutboundOrder, Caller, Goroutine
  <1>2. OutboundOrder /\ UNCHANGED vars => OutboundOrder'
    BY DEF vars, outVars, OutboundOrder
  <1>3. TypeOK /\ OutboundOrder /\ [Next]_vars => OutboundOrder'
    BY <1>2, OutboundStep
  <1>4. QED
    BY <1>1, <1>3, TypeCorrect, PTL DEF Spec
-----------------------------------------------------------------------------
(* Session implements Conduit.                                             *)

\* Of what arrived, base of the members in T has left the connection, in order, and as long as
\* R goes on reading (live) the rest is what is still to be read.
Follows(s, q, base, T, live) ==
  \E rest \in Seq(Message) : Keep(s, T) = base \o rest /\ (live => rest = Keep(q, T))

\* A message that arrives is at the end of both.
LEMMA FollowsArrival ==
  ASSUME NEW s \in Seq(Message), NEW q \in Seq(Message), NEW base \in Seq(Message), NEW T,
         NEW live, NEW m \in Message, Follows(s, q, base, T, live)
  PROVE  Follows(Append(s, m), Append(q, m), base, T, live)
<1>1. PICK rest \in Seq(Message) : Keep(s, T) = base \o rest /\ (live => rest = Keep(q, T))
  BY DEF Follows
<1>2. Keep(Append(s, m), T) = IF m \in T THEN Append(Keep(s, T), m) ELSE Keep(s, T)
  BY KeepAppend
<1>3. Keep(Append(q, m), T) = IF m \in T THEN Append(Keep(q, T), m) ELSE Keep(q, T)
  BY KeepAppend
<1>4. Append(base \o rest, m) = base \o Append(rest, m) /\ base \o Append(rest, m) \in Seq(Message)
  BY AppendConcat, Zenon
<1>5. Append(rest, m) \in Seq(Message)
  BY Appends
<1>6. CASE m \in T
  <2>1. /\ Keep(Append(s, m), T) = base \o Append(rest, m)
        /\ live => Append(rest, m) = Keep(Append(q, m), T)
    BY <1>1, <1>2, <1>3, <1>4, <1>6, Zenon
  <2> QED BY <1>5, <2>1, Zenon DEF Follows
<1>7. CASE m \notin T
  BY <1>1, <1>2, <1>3, <1>7, Zenon DEF Follows
<1> QED BY <1>6, <1>7

\* What R reads, and passes on if it is in T, goes from the rest to the base; if R then ends, the
\* rest stays where it is.
LEMMA FollowsRead ==
  ASSUME NEW s \in Seq(Message), NEW q \in Seq(Message), q # <<>>, NEW base \in Seq(Message),
         NEW T, NEW live, Follows(s, q, base, T, TRUE)
  PROVE  Follows(s, Tail(q), base \o (IF Head(q) \in T THEN <<Head(q)>> ELSE <<>>), T, live)
<1> DEFINE h == IF Head(q) \in T THEN <<Head(q)>> ELSE <<>>
<1>1. Head(q) \in Message /\ Tail(q) \in Seq(Message)
  BY HeadTailProperties
<1>2. h \in Seq(Message)
  <2>1. <<>> \in Seq(Message) /\ <<Head(q)>> \in Seq(Message)
    BY <1>1
  <2> QED BY <2>1
<1>3. Keep(q, T) = h \o Keep(Tail(q), T)
  BY KeepTail
<1>4. Keep(Tail(q), T) \in Seq(Message)
  BY <1>1, KeepMembers
<1> HIDE DEF h
<1>5. Keep(s, T) = base \o (h \o Keep(Tail(q), T))
  BY <1>3 DEF Follows
<1>6. (base \o h) \o Keep(Tail(q), T) = base \o (h \o Keep(Tail(q), T))
  BY <1>2, <1>4, ConcatAssociative
<1>7. Follows(s, Tail(q), base \o h, T, live)
  BY <1>4, <1>5, <1>6, Zenon DEF Follows
<1> QED BY <1>7 DEF h

\* R may cease to read.
LEMMA FollowsStop ==
  ASSUME NEW s, NEW q, NEW base, NEW T, NEW live, NEW later, later => live,
         Follows(s, q, base, T, live)
  PROVE  Follows(s, q, base, T, later)
BY Zenon DEF Follows

\* A list of one member.
LEMMA OfOne ==
  ASSUME NEW T, NEW h \in Seq(T), Len(h) = 1
  PROVE  h = <<h[1]>> /\ h[1] \in T /\ h # <<>>
OBVIOUS

\* The member after the first part of a list is the first of the second part.
LEMMA ComesNext ==
  ASSUME NEW T, NEW a \in Seq(T), NEW h \in Seq(T), h # <<>>, NEW b \in Seq(T)
  PROVE  Len(a) < Len((a \o h) \o b) /\ ((a \o h) \o b)[Len(a) + 1] = h[1]
<1>1. Len(a) \in Nat /\ Len(h) \in Nat /\ Len(b) \in Nat /\ Len(h) > 0
  BY EmptySeq
<1>2. a \o h \in Seq(T) /\ Len(a \o h) = Len(a) + Len(h) /\ (a \o h)[Len(a) + 1] = h[1]
  BY <1>1
<1>3. Len((a \o h) \o b) = Len(a \o h) + Len(b)
  BY <1>2, ConcatProperties
<1>4. Len(a) + 1 \in 1..Len(a \o h)
  BY <1>1, <1>2
<1>5. ((a \o h) \o b)[Len(a) + 1] = (a \o h)[Len(a) + 1]
  BY <1>2, <1>4, ConcatProperties
<1> QED BY <1>1, <1>2, <1>3, <1>5

\* What comes after a part of the base in it is what comes next among the kept.
LEMMA FollowsNext ==
  ASSUME NEW s \in Seq(Message), NEW q \in Seq(Message), NEW done \in Seq(Message),
         NEW next \in Seq(Message), next # <<>>, NEW T, NEW live,
         Follows(s, q, done \o next, T, live)
  PROVE  Len(done) < Len(Keep(s, T)) /\ Keep(s, T)[Len(done) + 1] = next[1]
<1>1. PICK rest \in Seq(Message) : Keep(s, T) = (done \o next) \o rest
  BY DEF Follows
<1>2. /\ Len(done) < Len((done \o next) \o rest)
      /\ ((done \o next) \o rest)[Len(done) + 1] = next[1]
  BY ComesNext, Zenon
<1> QED BY <1>1, <1>2

\* R will read again, unless what it read last ended it.
Reading == pc["R"] \in {"start", "poll", "read", "dispatch", "deliver", "send"}

\* The message R carries that the receive channel, or a route, has still to get.
Pending == IF pc["R"] \in {"dispatch", "deliver"} /\ hand["R"][1] \notin Routed
             THEN hand["R"] ELSE <<>>
Due == IF pc["R"] = "dispatch" /\ hand["R"][1] \in Routed THEN hand["R"] ELSE <<>>

\* Of either class, what was passed on, what waits in the receive channel, what R carries and
\* what is still on the connection (q) is what arrived (s), in that order.
Inbound(s, q) ==
  /\ Follows(s, q, (received \o recvq) \o Pending, Message \ Routed, Reading)
  /\ Follows(s, q, executed \o Due, Routed, Reading)
  /\ pc["R"] = "deliver" => hand["R"][1] \notin Routed

InboundInv == Inbound(arrived, inbox)

\* The same of the state after a step.
InboundAfter(s, q) ==
  /\ Follows(s, q, (received' \o recvq') \o Pending', Message \ Routed, Reading')
  /\ Follows(s, q, executed' \o Due', Routed, Reading')
  /\ pc'["R"] = "deliver" => hand'["R"][1] \notin Routed

\* What is carried is a message, and nothing comes after an empty list.
LEMMA Carries ==
  ASSUME TypeOK
  PROVE  /\ Pending \in Seq(Message) /\ Due \in Seq(Message)
         /\ received \o recvq \in Seq(Message) /\ (received \o recvq) \o Pending \in Seq(Message)
         /\ executed \o Due \in Seq(Message)
         /\ received \o recvq \o <<>> = received \o recvq /\ executed \o <<>> = executed
<1>1. <<>> \in Seq(Message) /\ hand["R"] \in Seq(Message) /\ received \in Seq(Message)
      /\ recvq \in Seq(Message) /\ executed \in Seq(Message)
  BY DEF TypeOK, ChanOK, Caller, Goroutine
<1>2. Pending \in Seq(Message) /\ Due \in Seq(Message)
  BY <1>1 DEF Pending, Due
<1>3. received \o recvq \in Seq(Message)
  BY <1>1, ConcatProperties
<1>4. (received \o recvq) \o Pending \in Seq(Message) /\ executed \o Due \in Seq(Message)
  BY <1>1, <1>2, <1>3, ConcatProperties
<1> QED BY <1>1, <1>2, <1>3, <1>4, ConcatEmptySeq

\* A step that takes nothing from the receive channel or R's hand.
Quiet == /\ UNCHANGED <<received, recvq, executed>>
         /\ \/ pc'["R"] = pc["R"] /\ hand'["R"] = hand["R"]
            \/ /\ pc["R"] \notin {"dispatch", "deliver"} /\ pc'["R"] \notin {"dispatch", "deliver"}
               /\ Reading' => Reading

\* All but six actions are such steps: R leaves its loop for good, and nobody else takes what it
\* carries for the application.
LEMMA QuietStep ==
  ASSUME TypeOK, Next
  PROVE  \/ Quiet /\ UNCHANGED <<arrived, inbox>>
         \/ RRead \/ RDispatch \/ RDeliver \/ AppReceive \/ AppReceiveFromR
         \/ \E m \in InMsg : PeerSend(m)
<1>1. /\ pc \in [Caller -> ClosePc \cup RPc \cup SPc \cup UserPc] /\ "R" \in Caller
      /\ "S" \in Caller /\ "I" \in Caller /\ hand \in [Caller -> Seq(Message)] /\ Users \subseteq Caller
      /\ \A u \in Users : u \notin {"R", "S", "I"}
  BY SessionAssumption DEF TypeOK, PcOK, ChanOK, Caller, Goroutine
<1>2. ASSUME RStart \/ RShutdown \/ RPoll \/ RReadEOF \/ RReadError PROVE Quiet /\ UNCHANGED <<arrived, inbox>>
  BY <1>1, <1>2 DEF RStart, RShutdown, RPoll, RReadEOF, RReadError, Quiet, Reading, Goto, inVars
<1>3. ASSUME SStart \/ SShutdown \/ STake \/ SWrite \/ SWriteError PROVE Quiet /\ UNCHANGED <<arrived, inbox>>
  BY <1>1, <1>3 DEF SStart, SShutdown, STake, SWrite, SWriteError, Quiet, Goto, inVars
<1>4. ASSUME NEW p \in Users \cup {"R"}, STakeFrom(p) PROVE Quiet /\ UNCHANGED <<arrived, inbox>>
  BY <1>1, <1>4 DEF STakeFrom, AfterSend, Quiet, Reading, inVars
<1>5. ASSUME NEW p \in Users \cup {"R"}, PutSender(p) PROVE Quiet /\ UNCHANGED <<arrived, inbox>>
  BY <1>1, <1>5 DEF PutSender, AfterSend, Goto, Quiet, Reading, inVars
<1>6. ASSUME KNext \/ Expire \/ DeadlineExpire \/ IFire \/ PeerMove PROVE Quiet /\ UNCHANGED <<arrived, inbox>>
  BY <1>1, <1>6 DEF KNext, KDeadline, KSignalR, KSignalW, Expire, DeadlineExpire, IFire, PeerMove,
                    Goto, Quiet, inVars
<1>7. ASSUME NEW p \in Caller, CloseStep(p) PROVE Quiet /\ UNCHANGED <<arrived, inbox>>
  <2>1. AfterClose(p) \notin {"start", "poll", "read", "dispatch", "deliver", "send"}
    BY DEF AfterClose
  <2> QED BY <1>1, <1>7, <2>1 DEF CloseStep, Lock, CheckClosed, CheckOpen, Spawn, Mark, Release,
                                  Return, Goto, Quiet, Reading, inVars
<1>8. ASSUME NEW u \in Users, CallClose(u) \/ CallSoftClose(u) \/ \E m \in OutMsg : Offer(u, m)
      PROVE  Quiet /\ UNCHANGED <<arrived, inbox>>
  BY <1>1, <1>8 DEF CallClose, CallSoftClose, Offer, Goto, Quiet, inVars
<1> QED BY <1>2, <1>3, <1>4, <1>5, <1>6, <1>7, <1>8
        DEF Next, RNext, SNext, PutNext, UserNext, PeerNext

\* What moves between R, the receive channel, the application and a route stays in order.
LEMMA PassStep ==
  ASSUME TypeOK, NEW s, NEW q, Inbound(s, q),
         Quiet \/ RDispatch \/ RDeliver \/ AppReceive \/ AppReceiveFromR
  PROVE  InboundAfter(s, q)
<1>1. /\ received \in Seq(Message)
      /\ recvq \in Seq(Message) /\ executed \in Seq(Message) /\ hand["R"] \in Seq(Message)
      /\ hand \in [Caller -> Seq(Message)] /\ pc \in [Caller -> ClosePc \cup RPc \cup SPc \cup UserPc]
      /\ "R" \in Caller
  BY DEF TypeOK, ChanOK, PcOK, Caller, Goroutine
<1>2. /\ Pending \in Seq(Message) /\ Due \in Seq(Message)
      /\ received \o recvq \in Seq(Message) /\ (received \o recvq) \o Pending \in Seq(Message)
      /\ executed \o Due \in Seq(Message)
  BY Carries
<1>3. received \o recvq \o <<>> = received \o recvq /\ executed \o <<>> = executed
  BY Carries
<1>4. /\ Follows(s, q, (received \o recvq) \o Pending, Message \ Routed, Reading)
      /\ Follows(s, q, executed \o Due, Routed, Reading)
      /\ pc["R"] = "deliver" => hand["R"][1] \notin Routed
  BY DEF Inbound
<1>5. pc["R"] \in {"dispatch", "deliver"} => Len(hand["R"]) = 1 /\ hand["R"] = <<hand["R"][1]>>
  <2> SUFFICES ASSUME pc["R"] \in {"dispatch", "deliver"}
               PROVE  Len(hand["R"]) = 1 /\ hand["R"] = <<hand["R"][1]>>
    OBVIOUS
  <2>1. Len(hand["R"]) = 1
    BY <1>1 DEF TypeOK, HandOK, Carrying
  <2> QED BY <1>1, <2>1
<1>6. CASE Quiet
  <2>1. Pending' = Pending /\ Due' = Due /\ (Reading' => Reading)
        /\ (pc'["R"] = "deliver" => pc["R"] = "deliver" /\ hand'["R"] = hand["R"])
    BY <1>6 DEF Quiet, Pending, Due, Reading
  <2>2. Follows(s, q, (received \o recvq) \o Pending, Message \ Routed, Reading')
    BY <1>4, <2>1, FollowsStop, Zenon
  <2>3. Follows(s, q, executed \o Due, Routed, Reading')
    BY <1>4, <2>1, FollowsStop, Zenon
  <2> QED BY <1>4, <1>6, <2>1, <2>2, <2>3 DEF Quiet, InboundAfter
<1>7. CASE RDispatch
  <2>1. /\ pc["R"] = "dispatch" /\ UNCHANGED <<received, recvq>> /\ Reading
    BY <1>7 DEF RDispatch, Reading
  <2>2. CASE hand["R"][1] \in Routed
    <3>1. executed' = executed \o hand["R"] /\ pc'["R"] \in {"send", "poll"}
      BY <1>1, <1>7, <2>2 DEF RDispatch, Goto
    <3>2. Pending = <<>> /\ Pending' = <<>> /\ Due = hand["R"] /\ Due' = <<>> /\ Reading'
      BY <2>1, <2>2, <3>1 DEF Pending, Due, Reading
    <3>3. (executed \o hand["R"]) \o <<>> = executed \o hand["R"]
      BY <1>1, ConcatProperties, ConcatEmptySeq
    <3>4. Follows(s, q, (received \o recvq) \o Pending', Message \ Routed, Reading')
      BY <1>4, <2>1, <3>2 DEF Follows
    <3>5. Follows(s, q, executed' \o Due', Routed, Reading')
      BY <1>4, <2>1, <3>1, <3>2, <3>3 DEF Follows
    <3> QED BY <2>1, <3>1, <3>4, <3>5 DEF InboundAfter
  <2>3. CASE hand["R"][1] \notin Routed
    <3>1. executed' = executed /\ pc'["R"] = "deliver" /\ hand' = hand
      BY <1>1, <1>7, <2>3 DEF RDispatch, Goto
    <3>2. Pending' = Pending /\ Due' = <<>> /\ Due = <<>> /\ Reading'
      BY <2>1, <2>3, <3>1 DEF Pending, Due, Reading
    <3>3. Follows(s, q, (received \o recvq) \o Pending', Message \ Routed, Reading')
      BY <1>4, <2>1, <3>2 DEF Follows
    <3>4. Follows(s, q, executed \o Due', Routed, Reading')
      BY <1>4, <2>1, <3>2 DEF Follows
    <3> QED BY <2>1, <2>3, <3>1, <3>3, <3>4 DEF InboundAfter
  <2> QED BY <2>2, <2>3
<1>8. ASSUME RDeliver \/ AppReceiveFromR PROVE InboundAfter(s, q)
  <2>1. /\ pc["R"] = "deliver" /\ UNCHANGED executed
        /\ pc'["R"] = "poll" /\ hand'["R"] = <<>>
    BY <1>1, <1>8 DEF RDeliver, AppReceiveFromR, Goto
  <2>2. received' \o recvq' = (received \o recvq) \o hand["R"]
    <3>1. CASE RDeliver
      <4>1. received' = received /\ recvq' = recvq \o hand["R"]
        BY <3>1 DEF RDeliver
      <4>2. received \o (recvq \o hand["R"]) = (received \o recvq) \o hand["R"]
        <5>1. \A a, b, c \in Seq(Message) : (a \o b) \o c = a \o (b \o c)
          BY ConcatAssociative
        <5> QED BY <1>1, <5>1, ZenonT(20)
      <4> QED BY <4>1, <4>2
    <3>2. CASE AppReceiveFromR
      <4>1. received' = received \o hand["R"] /\ recvq' = recvq /\ Len(recvq) <= 0
        BY <3>2 DEF AppReceiveFromR, TypeOK, HandOK
      <4>2. recvq = <<>>
        BY <1>1, <4>1, LenProperties, EmptySeq
      <4>3. received \o hand["R"] \in Seq(Message)
        BY <1>1, ConcatProperties
      <4>4. (received \o hand["R"]) \o <<>> = received \o hand["R"] /\ received \o <<>> = received
        BY <1>1, <4>3, ConcatEmptySeq
      <4> QED BY <4>1, <4>2, <4>4
    <3> QED BY <1>8, <3>1, <3>2
  <2>3. Pending = hand["R"] /\ Pending' = <<>> /\ Due = <<>> /\ Due' = <<>> /\ Reading /\ Reading'
    BY <1>4, <2>1 DEF Pending, Due, Reading
  <2>4. ((received \o recvq) \o hand["R"]) \o <<>> = (received \o recvq) \o hand["R"]
    <3>1. (received \o recvq) \o hand["R"] \in Seq(Message)
      BY <1>2, <2>3
    <3> QED BY <3>1, ConcatEmptySeq
  <2>5. Follows(s, q, (received' \o recvq') \o Pending', Message \ Routed, Reading')
    BY <1>4, <2>2, <2>3, <2>4 DEF Follows
  <2>6. Follows(s, q, executed \o Due', Routed, Reading')
    BY <1>4, <2>3 DEF Follows
  <2> QED BY <2>1, <2>5, <2>6 DEF InboundAfter
<1>9. CASE AppReceive
  <2>1. /\ recvq # <<>> /\ received' = Append(received, Head(recvq)) /\ recvq' = Tail(recvq)
        /\ UNCHANGED <<executed, pc, hand>>
    BY <1>9 DEF AppReceive, outVars
  <2>2. /\ Head(recvq) \in Message /\ <<Head(recvq)>> \in Seq(Message) /\ Tail(recvq) \in Seq(Message)
        /\ <<Head(recvq)>> \o Tail(recvq) = recvq
    BY <1>1, <2>1, HeadTailProperties, HeadFirst
  <2>3. Append(received, Head(recvq)) = received \o <<Head(recvq)>>
    BY <1>1, <2>2, AppendIsConcat
  <2>4. (received \o <<Head(recvq)>>) \o Tail(recvq) = received \o recvq
    <3>1. \A a, b, c \in Seq(Message) : (a \o b) \o c = a \o (b \o c)
      BY ConcatAssociative
    <3>2. (received \o <<Head(recvq)>>) \o Tail(recvq) = received \o (<<Head(recvq)>> \o Tail(recvq))
      BY <1>1, <2>2, <3>1, ZenonT(20)
    <3> QED BY <2>2, <3>2
  <2>5. received' \o recvq' = received \o recvq
    BY <2>1, <2>3, <2>4
  <2>6. Pending' = Pending /\ Due' = Due /\ Reading' = Reading
    BY <2>1 DEF Pending, Due, Reading
  <2> QED BY <1>4, <2>1, <2>5, <2>6 DEF InboundAfter
<1> QED BY <1>6, <1>7, <1>8, <1>9

\* What R reads from the connection it carries, or ends.
LEMMA ReadStep ==
  ASSUME TypeOK, NEW s \in Seq(Message), NEW q \in Seq(Message), q # <<>>, Head(q) = Head(inbox),
         Inbound(s, q), RRead
  PROVE  InboundAfter(s, Tail(q))
<1>1. /\ hand \in [Caller -> Seq(Message)] /\ pc \in [Caller -> ClosePc \cup RPc \cup SPc \cup UserPc]
      /\ "R" \in Caller /\ executed \in Seq(Message)
  BY DEF TypeOK, ChanOK, PcOK, Caller, Goroutine
<1>2. received \o recvq \in Seq(Message)
  BY Carries
<1>3. received \o recvq \o <<>> = received \o recvq /\ executed \o <<>> = executed
  BY Carries
<1>4. /\ Follows(s, q, (received \o recvq) \o Pending, Message \ Routed, Reading)
      /\ Follows(s, q, executed \o Due, Routed, Reading)
  BY DEF Inbound
<1>5. /\ pc["R"] = "read" /\ inbox # <<>> /\ inbox' = Tail(inbox)
      /\ UNCHANGED <<received, recvq, executed>>
      /\ IF Head(inbox) \in Registered
           THEN hand'["R"] = <<Head(inbox)>> /\ pc'["R"] = "dispatch"
           ELSE hand'["R"] = hand["R"] /\ pc'["R"] = "lock"
  BY <1>1 DEF RRead, Goto
<1>6. Pending = <<>> /\ Due = <<>> /\ Reading
  BY <1>5 DEF Pending, Due, Reading
<1>7. Head(inbox) \in Message
  BY <1>5 DEF TypeOK, ChanOK
<1>8. /\ Follows(s, q, received \o recvq, Message \ Routed, TRUE)
      /\ Follows(s, q, executed, Routed, TRUE)
  <2>1. Reading = TRUE
    BY <1>6 DEF Reading
  <2> QED BY <1>3, <1>4, <1>6, <2>1
<1>9. CASE Head(inbox) \in Registered
  <2>1. /\ Pending' = IF Head(inbox) \in Message \ Routed THEN <<Head(inbox)>> ELSE <<>>
        /\ Due' = IF Head(inbox) \in Routed THEN <<Head(inbox)>> ELSE <<>>
        /\ pc'["R"] # "deliver"
    BY <1>5, <1>7, <1>9 DEF Pending, Due
  <2>2. Follows(s, Tail(q), (received \o recvq) \o Pending', Message \ Routed, Reading')
    BY <1>1, <1>2, <1>5, <1>8, <2>1, FollowsRead
  <2>3. Follows(s, Tail(q), executed \o Due', Routed, Reading')
    BY <1>1, <1>2, <1>5, <1>8, <2>1, FollowsRead
  <2> QED BY <1>5, <2>1, <2>2, <2>3 DEF InboundAfter
<1>10. CASE Head(inbox) \notin Registered
  <2>1. Pending' = <<>> /\ Due' = <<>> /\ ~Reading' /\ pc'["R"] # "deliver"
    BY <1>5, <1>10 DEF Pending, Due, Reading
  <2>2. /\ Follows(s, Tail(q), received \o recvq, Message \ Routed, Reading')
        /\ Follows(s, Tail(q), executed, Routed, Reading')
    BY <1>8, <2>1, Zenon DEF Follows
  <2> QED BY <1>3, <1>5, <2>1, <2>2 DEF InboundAfter
<1> QED BY <1>9, <1>10

\* What arrives is the last to be read.
LEMMA ArriveStep ==
  ASSUME TypeOK, NEW s \in Seq(Message), NEW q \in Seq(Message), NEW m \in Message,
         Inbound(s, q), UNCHANGED <<pc, hand, received, recvq, executed>>
  PROVE  InboundAfter(Append(s, m), Append(q, m))
<1>1. /\ (received \o recvq) \o Pending \in Seq(Message) /\ executed \o Due \in Seq(Message)
  BY Carries
<1>2. Pending' = Pending /\ Due' = Due /\ Reading' = Reading
  BY DEF Pending, Due, Reading
<1>3. /\ Follows(s, q, (received \o recvq) \o Pending, Message \ Routed, Reading)
      /\ Follows(s, q, executed \o Due, Routed, Reading)
      /\ pc["R"] = "deliver" => hand["R"][1] \notin Routed
  BY DEF Inbound
<1>4. Follows(Append(s, m), Append(q, m), (received \o recvq) \o Pending, Message \ Routed, Reading)
  BY <1>1, <1>3, FollowsArrival
<1>5. Follows(Append(s, m), Append(q, m), executed \o Due, Routed, Reading)
  BY <1>1, <1>3, FollowsArrival
<1> QED BY <1>2, <1>3, <1>4, <1>5 DEF InboundAfter

\* No step loses, repeats or overtakes a message of either class between the connection and the
\* application, as long as R reads.
LEMMA InboundStep == TypeOK /\ InboundInv /\ Next => InboundInv'
<1> SUFFICES ASSUME TypeOK, InboundInv, Next PROVE InboundAfter(arrived', inbox')
  BY DEF InboundInv, Inbound, InboundAfter
<1>1. arrived \in Seq(Message) /\ inbox \in Seq(Message) /\ Inbound(arrived, inbox)
  BY DEF TypeOK, ChanOK, InboundInv
<1>2. CASE (Quiet /\ UNCHANGED <<arrived, inbox>>) \/ RDispatch \/ RDeliver \/ AppReceive \/ AppReceiveFromR
  <2>1. UNCHANGED <<arrived, inbox>>
    BY <1>2 DEF RDispatch, RDeliver, AppReceive, AppReceiveFromR
  <2>2. InboundAfter(arrived, inbox)
    BY <1>1, <1>2, PassStep
  <2> QED BY <2>1, <2>2
<1>3. CASE RRead
  <2>1. inbox # <<>> /\ arrived' = arrived /\ inbox' = Tail(inbox)
    BY <1>3 DEF RRead
  <2>2. InboundAfter(arrived, Tail(inbox))
    BY <1>1, <1>3, <2>1, ReadStep
  <2> QED BY <2>1, <2>2
<1>4. ASSUME NEW m \in InMsg, PeerSend(m) PROVE InboundAfter(arrived', inbox')
  <2>1. /\ arrived' = Append(arrived, m) /\ inbox' = Append(inbox, m) /\ m \in Message
        /\ UNCHANGED <<pc, hand, received, recvq, executed>>
    BY <1>4 DEF PeerSend, Message
  <2>2. InboundAfter(Append(arrived, m), Append(inbox, m))
    BY <1>1, <2>1, ArriveStep
  <2> QED BY <2>1, <2>2
<1> QED BY <1>2, <1>3, <1>4, QuietStep

\* What was read from either class was read in the order it arrived, whatever closes the session.
LEMMA InboundInvariant == Spec => []InboundInv
<1>1. Init => InboundInv
  <2> SUFFICES ASSUME Init PROVE InboundInv
    OBVIOUS
  <2>1. /\ arrived = <<>> /\ inbox = <<>> /\ received = <<>> /\ recvq = <<>> /\ executed = <<>>
        /\ pc["R"] \notin {"dispatch", "deliver"}
    BY SessionAssumption DEF Init, Caller, Goroutine
  <2>2. Pending = <<>> /\ Due = <<>> /\ <<>> \in Seq(Message) /\ <<>> \o <<>> = <<>>
    BY <2>1, EmptySeq, ConcatEmptySeq DEF Pending, Due
  <2>3. \A T, live : Follows(<<>>, <<>>, <<>>, T, live)
    BY <2>2, KeepEmpty DEF Follows
  <2> QED BY <2>1, <2>2, <2>3 DEF InboundInv, Inbound
<1>2. InboundInv /\ UNCHANGED vars => InboundInv'
  BY DEF vars, inVars, InboundInv, Inbound, Pending, Due, Reading
<1>3. TypeOK /\ InboundInv /\ [Next]_vars => InboundInv'
  BY <1>2, InboundStep
<1> QED BY <1>1, <1>3, TypeCorrect, PTL DEF Spec

\* A built session maps to an open conduit through which nothing has gone.
LEMMA InitImplements == Init => Abstract!Init
BY DEF Init, Abstract!Init, IsClosed

\* What waits behind the messages written is what S carries, then what the channel holds.
LEMMA WritesNext ==
  ASSUME TypeOK, OutboundOrder, pc["S"] = "write", wire' = wire \o hand["S"]
  PROVE  Len(wire) < Len(accepted) /\ wire' = Append(wire, accepted[Len(wire) + 1])
<1>1. /\ wire \in Seq(Message) /\ hand["S"] \in Seq(Message) /\ senderq \in Seq(Message)
      /\ Len(hand["S"]) = 1
  BY DEF TypeOK, ChanOK, HandOK, Carrying, Caller, Goroutine
<1>2. accepted = (wire \o hand["S"]) \o senderq
  BY DEF OutboundOrder
<1>3. hand["S"] = <<hand["S"][1]>> /\ hand["S"][1] \in Message /\ hand["S"] # <<>>
  BY <1>1, OfOne
<1>4. Len(wire) < Len(accepted) /\ accepted[Len(wire) + 1] = hand["S"][1]
  BY <1>1, <1>2, <1>3, ComesNext
<1>5. Append(wire, hand["S"][1]) = wire \o <<hand["S"][1]>>
  BY <1>1, <1>3, AppendIsConcat
<1> QED BY <1>3, <1>4, <1>5

\* What the sender channel accepts, buffered or not, is one message.
LEMMA Offers ==
  ASSUME TypeOK, NEW p \in Users \cup {"R"}, PutSender(p) \/ STakeFrom(p)
  PROVE  /\ \E m \in Message : accepted' = Append(accepted, m)
         /\ UNCHANGED <<wire, connOpen, closings, arrived, received, executed>>
<1>1. hand[p] \in Seq(Message) /\ Len(hand[p]) = 1 /\ accepted \in Seq(Message)
  BY DEF PutSender, STakeFrom, TypeOK, ChanOK, HandOK, Carrying, Caller, Goroutine
<1>2. hand[p] = <<hand[p][1]>> /\ hand[p][1] \in Message
  BY <1>1
<1>3. Append(accepted, hand[p][1]) = accepted \o <<hand[p][1]>>
  BY <1>1, <1>2, AppendIsConcat
<1>4. accepted' = accepted \o hand[p] /\ UNCHANGED <<wire, connOpen, closings, arrived, received, executed>>
  BY DEF PutSender, STakeFrom, lifeVars, connVars, inVars
<1> QED BY <1>2, <1>3, <1>4

\* What the application takes, from the buffer or from R, is the next that arrived for it.
LEMMA ReceivesNext ==
  ASSUME TypeOK, NEW s \in Seq(Message), NEW q \in Seq(Message), Inbound(s, q),
         AppReceive \/ AppReceiveFromR
  PROVE  /\ Len(received) < Len(Keep(s, Message \ Routed))
         /\ received' = Append(received, Keep(s, Message \ Routed)[Len(received) + 1])
         /\ UNCHANGED <<accepted, wire, connOpen, closings, arrived, executed>>
<1>1. /\ received \in Seq(Message)
      /\ recvq \in Seq(Message) /\ hand["R"] \in Seq(Message) /\ Pending \in Seq(Message)
  BY Carries DEF TypeOK, ChanOK, Caller, Goroutine
<1>2. (received \o recvq) \o Pending = received \o (recvq \o Pending) /\ recvq \o Pending \in Seq(Message)
  <2>1. \A a, b, c \in Seq(Message) : (a \o b) \o c = a \o (b \o c)
    BY ConcatAssociative
  <2>2. (received \o recvq) \o Pending = received \o (recvq \o Pending)
    BY <1>1, <2>1, ZenonT(20)
  <2> QED BY <1>1, <2>2, ConcatProperties
<1>3. Follows(s, q, received \o (recvq \o Pending), Message \ Routed, Reading)
  BY <1>2 DEF Inbound
<1>4. UNCHANGED <<accepted, wire, connOpen, closings, arrived, executed>>
  BY DEF AppReceive, AppReceiveFromR, lifeVars, connVars, outVars
<1> DEFINE next == recvq \o Pending
<1>5. next \in Seq(Message) /\ Follows(s, q, received \o next, Message \ Routed, Reading)
  BY <1>2, <1>3
<1>6. ASSUME NEW m \in Message, received' = Append(received, m), next # <<>> /\ next[1] = m
      PROVE  /\ Len(received) < Len(Keep(s, Message \ Routed))
             /\ received' = Append(received, Keep(s, Message \ Routed)[Len(received) + 1])
  <2> HIDE DEF next
  <2>1. /\ Len(received) < Len(Keep(s, Message \ Routed))
        /\ Keep(s, Message \ Routed)[Len(received) + 1] = next[1]
    BY <1>1, <1>5, <1>6, FollowsNext
  <2> QED BY <1>6, <2>1
<1>7. CASE AppReceive
  <2>1. recvq # <<>> /\ received' = Append(received, Head(recvq))
    BY <1>7 DEF AppReceive
  <2>2. Head(recvq) \in Message /\ Head(recvq) = recvq[1] /\ Len(recvq) \in Nat /\ Len(recvq) > 0
    BY <1>1, <2>1
  <2>3. recvq \o Pending # <<>> /\ (recvq \o Pending)[1] = Head(recvq)
    BY <1>1, <2>2
  <2> QED BY <1>4, <1>6, <2>1, <2>2, <2>3
<1>8. CASE AppReceiveFromR
  <2>1. /\ Len(recvq) <= 0 /\ received' = received \o hand["R"] /\ Len(hand["R"]) = 1
        /\ Pending = hand["R"]
    BY <1>8 DEF AppReceiveFromR, TypeOK, HandOK, Carrying, Inbound, Pending, Caller, Goroutine
  <2>2. recvq = <<>>
    BY <1>1, <2>1, LenProperties, EmptySeq
  <2>3. recvq \o Pending = hand["R"]
    BY <1>1, <2>1, <2>2, ConcatEmptySeq
  <2>4. hand["R"] = <<hand["R"][1]>> /\ hand["R"][1] \in Message /\ hand["R"] # <<>>
    BY <1>1, <2>1, OfOne
  <2>5. received' = Append(received, hand["R"][1])
    BY <1>1, <2>1, <2>4, AppendIsConcat
  <2> QED BY <1>4, <1>6, <2>3, <2>4, <2>5
<1> QED BY <1>7, <1>8

\* What R hands to a route is the next that arrived for one.
LEMMA ExecutesNext ==
  ASSUME TypeOK, NEW s \in Seq(Message), NEW q \in Seq(Message), Inbound(s, q),
         RDispatch, hand["R"][1] \in Routed
  PROVE  /\ Len(executed) < Len(Keep(s, Routed))
         /\ executed' = Append(executed, Keep(s, Routed)[Len(executed) + 1])
         /\ UNCHANGED <<accepted, wire, connOpen, closings, arrived, received>>
<1>1. /\ executed \in Seq(Message)
      /\ hand["R"] \in Seq(Message) /\ Len(hand["R"]) = 1 /\ Due = hand["R"]
  BY DEF RDispatch, TypeOK, ChanOK, HandOK, Carrying, Due, Caller, Goroutine
<1>2. hand["R"] = <<hand["R"][1]>> /\ hand["R"][1] \in Message /\ hand["R"] # <<>>
  BY <1>1
<1>3. Follows(s, q, executed \o hand["R"], Routed, Reading)
  BY <1>1 DEF Inbound
<1>4. /\ Len(executed) < Len(Keep(s, Routed))
      /\ Keep(s, Routed)[Len(executed) + 1] = hand["R"][1]
  BY <1>1, <1>2, <1>3, FollowsNext
<1>5. Append(executed, hand["R"][1]) = executed \o <<hand["R"][1]>>
  BY <1>1, <1>2, AppendIsConcat
<1>6. executed' = executed \o hand["R"] /\ UNCHANGED <<accepted, wire, connOpen, closings, arrived, received>>
  BY DEF RDispatch, lifeVars, connVars, outVars
<1> QED BY <1>2, <1>4, <1>5, <1>6

\* Every step of the session is a step of the conduit, or one it does not see.
LEMMA NextImplements ==
  ASSUME TypeOK, CloseInv, OutboundOrder, InboundInv, Next
  PROVE  Abstract!Next \/ UNCHANGED Abstract!vars
<1>1. arrived \in Seq(Message) /\ inbox \in Seq(Message) /\ Inbound(arrived, inbox)
  BY DEF TypeOK, ChanOK, InboundInv
<1>2. ASSUME NEW p \in Users \cup {"R"}, PutSender(p) \/ STakeFrom(p) PROVE Abstract!Offer
  BY <1>2, Offers DEF Abstract!Offer, Message, IsClosed
<1>3. CASE SWrite
  <2>1. connOpen
    BY <1>3 DEF SWrite
  <2>2. /\ UNCHANGED <<accepted, arrived, received, executed, closings, connOpen>>
        /\ pc["S"] = "write" /\ wire' = wire \o hand["S"]
    BY <1>3 DEF SWrite, inVars, lifeVars, connVars
  <2>3. Abstract!Emit
    BY <1>3, <2>1, <2>2, WritesNext DEF Abstract!Emit, IsClosed
  <2> QED BY <2>3 DEF Abstract!Next
<1>4. ASSUME NEW m \in InMsg, PeerSend(m) PROVE Abstract!Arrive
  BY <1>4 DEF PeerSend, Abstract!Arrive, Message, IsClosed, lifeVars, connVars, outVars
<1>5. CASE AppReceive \/ AppReceiveFromR
  <2>1. /\ Len(received) < Len(Keep(arrived, Message \ Routed))
        /\ received' = Append(received, Keep(arrived, Message \ Routed)[Len(received) + 1])
        /\ UNCHANGED <<accepted, wire, connOpen, closings, arrived, executed>>
    BY <1>1, <1>5, ReceivesNext
  <2>2. Abstract!Receive
    BY <2>1 DEF Abstract!Receive, Abstract!Keep, Abstract!Kept, Keep, Kept, IsClosed
  <2> QED BY <2>2 DEF Abstract!Next
<1>6. CASE RDispatch
  <2>1. CASE hand["R"][1] \in Routed
    <3>1. Abstract!Execute
      BY <1>1, <1>6, <2>1, ExecutesNext DEF Abstract!Execute, Abstract!Keep, Abstract!Kept, Keep, Kept, IsClosed
    <3> QED BY <3>1 DEF Abstract!Next
  <2>2. CASE hand["R"][1] \notin Routed
    BY <1>6, <2>2 DEF RDispatch, Abstract!vars, IsClosed, lifeVars, connVars, outVars
  <2> QED BY <2>1, <2>2
<1>7. ASSUME NEW p \in Caller, CloseStep(p) PROVE Abstract!Close \/ Abstract!Release \/ UNCHANGED Abstract!vars
  <2>1. UNCHANGED <<accepted, wire, arrived, received, executed>>
    BY <1>7 DEF CloseStep, Lock, CheckClosed, CheckOpen, Spawn, Mark, Release, inVars, outVars
  <2>2. CASE Mark(p)
    <3>1. ~IsClosed /\ connOpen /\ closings \in Nat /\ connOpen' = connOpen /\ closings' = closings + 1
      BY <2>2 DEF Mark, CloseInv, connVars, TypeOK, LifeOK
    <3>2. IsClosed'
      BY <3>1 DEF IsClosed
    <3> QED BY <2>1, <3>1, <3>2 DEF Abstract!Close
  <2>3. CASE Release(p)
    <3>1. IsClosed /\ closings' = closings /\ connOpen' = (connOpen /\ p \in soft) /\ connOpen \in BOOLEAN
      BY <2>3 DEF Release, CloseInv, TypeOK, ConnOK
    <3>2. IsClosed'
      BY <3>1 DEF IsClosed
    <3>3. CASE connOpen' = connOpen
      BY <2>1, <3>1, <3>2, <3>3 DEF Abstract!vars
    <3>4. CASE connOpen /\ ~connOpen'
      BY <2>1, <3>1, <3>2, <3>4 DEF Abstract!Release
    <3> QED BY <3>1, <3>3, <3>4
  <2>4. CASE Lock(p) \/ CheckClosed(p) \/ CheckOpen(p) \/ Spawn(p)
    BY <2>1, <2>4 DEF Lock, CheckClosed, CheckOpen, Spawn, Abstract!vars, IsClosed, lifeVars, connVars
  <2> QED BY <1>7, <2>2, <2>3, <2>4 DEF CloseStep
<1>8. CASE RStart \/ RShutdown \/ RPoll \/ RRead \/ RReadEOF \/ RReadError \/ RDeliver
  BY <1>8 DEF RStart, RShutdown, RPoll, RRead, RReadEOF, RReadError, RDeliver, Abstract!vars, IsClosed,
              lifeVars, connVars, inVars, outVars
<1>9. CASE SStart \/ SShutdown \/ STake \/ SWriteError
  BY <1>9 DEF SStart, SShutdown, STake, SWriteError, Abstract!vars, IsClosed, lifeVars, connVars, inVars,
              outVars
<1>10. CASE KNext \/ Expire \/ DeadlineExpire \/ IFire \/ PeerMove
  BY <1>10 DEF KNext, KDeadline, KSignalR, KSignalW, Expire, DeadlineExpire, IFire, PeerMove, Abstract!vars,
              IsClosed, lifeVars, connVars, inVars, outVars
<1>11. CASE UserNext
  BY <1>11 DEF UserNext, CallClose, CallSoftClose, Offer, Abstract!vars, IsClosed, lifeVars, connVars,
               inVars, outVars
<1> QED BY <1>2, <1>3, <1>4, <1>5, <1>6, <1>7, <1>8, <1>9, <1>10, <1>11
        DEF Next, RNext, SNext, PutNext, PeerNext, Abstract!Next

\* A session of any users, messages, routes and builder settings keeps the promise of Conduit:
\* however its goroutines race, messages leave in the order accepted, arrive in order within their
\* class, and nothing leaves once the connection is released.
THEOREM SessionIsConduit == Spec => ImplementsConduit
<1>1. TypeOK /\ CloseInv /\ OutboundOrder /\ InboundInv /\ [Next]_vars => [Abstract!Next]_(Abstract!vars)
  <2>1. UNCHANGED vars => UNCHANGED Abstract!vars
    BY DEF vars, lifeVars, connVars, inVars, outVars, Abstract!vars, IsClosed
  <2> QED BY <2>1, NextImplements
<1> QED BY <1>1, InitImplements, TypeCorrect, CloseInvariant, OutboundInOrder, InboundInvariant, PTL
        DEF Spec, ImplementsConduit, Abstract!Spec
=============================================================================
