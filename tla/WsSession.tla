------------------------------ MODULE WsSession ------------------------------
(***************************************************************************)
(* One websocket session: the WsNan0 structure of wsnan0.go and the        *)
(* goroutines that wrapConnectionWs starts around a connection.  They are  *)
(* those of module Session, whose actions are taken over where the two     *)
(* files have the same statements.  What differs:                          *)
(*   - a failed read gives R neither message nor error, so R goes round;   *)
(*     the error sticks to the connection, and the websocket library       *)
(*     panics when it has been read too often                              *)
(*   - Close releases the connection before it marks the session closed    *)
(*   - the sender too has a copy of the structure, so LastComm never moves *)
(*   - there is no handshake, hence no softClose                           *)
(***************************************************************************)
EXTENDS Session, Filtering

CONSTANTS Texts,        \* messages from the peer that are not binary
          MaxFailures   \* failed reads after which the library panics

ASSUME WsAssumption ==
  /\ Handshakers = {} /\ Texts \subseteq InMsg \ Registered
  /\ MaxFailures \in Nat \ {0}

VARIABLE failures       \* failed reads of the connection so far

wsVars == <<vars, failures>>

WsInit == Init /\ failures = 0

-----------------------------------------------------------------------------
(* R: startServiceReceiver and getMessageFromConnectionWs. *)

WsRead == RRead /\ failures = 0 /\ Head(inbox) \notin Texts

WsReadText == /\ pc["R"] = "read" /\ failures = 0 /\ ~ReadFails
              /\ inbox # <<>> /\ Head(inbox) \in Texts
              /\ inbox' = Tail(inbox) /\ Goto("R", "poll")
              /\ UNCHANGED <<bb, lifeVars, sigVars, connVars, fresh, arrived, recvq,
                             received, executed, outVars, hand>>

\* Mutant: the library fails reads for ever.
WsReadFailsOn ==
  /\ pc["R"] = "read"
  /\ failures > 0 \/ ReadFails \/ (inbox = <<>> /\ peer = "closed")
  /\ failures' = failures + 1 /\ Goto("R", "poll")
  /\ UNCHANGED <<bb, lifeVars, sigVars, connVars, fresh, inVars, outVars, hand>>

\* The first failure is an error of the connection or its end; it is then repeated.
WsReadFails ==
  /\ pc["R"] = "read"
  /\ failures > 0 \/ ReadFails \/ (inbox = <<>> /\ peer = "closed")
  /\ failures' = failures + 1
  /\ Goto("R", IF failures' = MaxFailures THEN "lock" ELSE "poll")
  /\ UNCHANGED <<bb, lifeVars, sigVars, connVars, fresh, inVars, outVars, hand>>

WsReceive == RStart \/ RShutdown \/ RPoll \/ WsRead \/ WsReadText \/ RDispatch \/ RDeliver

-----------------------------------------------------------------------------
(* S: startServiceSender and putMessageInConnectionWs. *)

\* Mutant: a message is written again after the next one.
WsWriteKeeps ==
  /\ pc["S"] = "write" /\ hand["S"][1] \in Registered
  /\ connOpen /\ peer \in {"up", "closed"}
  /\ wire' = wire \o hand["S"] /\ Goto("S", IF wire = <<>> THEN "write" ELSE "select")
  /\ hand' = [hand EXCEPT !["S"] = IF wire = <<>> THEN @ ELSE <<>>]
  /\ UNCHANGED <<bb, lifeVars, sigVars, connVars, fresh, inVars, senderq, accepted>>

WsWrite == /\ pc["S"] = "write" /\ hand["S"][1] \in Registered
           /\ connOpen /\ peer \in {"up", "closed"}
           /\ wire' = wire \o hand["S"]
           /\ hand' = [hand EXCEPT !["S"] = <<>>]
           /\ Goto("S", "select")
           /\ UNCHANGED <<bb, lifeVars, sigVars, connVars, fresh, inVars, senderq, accepted>>

WsSend == \/ SStart \/ SShutdown \/ STake \/ WsWrite \/ SWriteError
          \/ \E p \in Users \cup {"R"} : STakeFrom(p)

-----------------------------------------------------------------------------
(* Close. *)

WsSpawn(p) == /\ pc[p] = "spawn"
              /\ kpc' = "signalR" /\ Goto(p, "mark")
              /\ UNCHANGED <<bb, lifeVars, rsd, wsd, connVars, fresh, inVars, outVars, hand>>

\* Mutant: the session is marked closed before the connection is released.
WsReleaseLate(p) ==
  /\ pc[p] = "mark" /\ Goto(p, "release")
  /\ closings' = closings + 1
  /\ UNCHANGED <<bb, soft, closeMux, softened, returned, sigVars, connVars, fresh, inVars,
                 outVars, hand>>

WsRelease(p) == /\ pc[p] = "mark" /\ Goto(p, "release")
                /\ connOpen' = FALSE
                /\ UNCHANGED <<bb, lifeVars, sigVars, deadline, peer, fresh, inVars, outVars,
                               hand>>

\* close(n.closed) and the deferred Unlock.
WsMark(p) == /\ pc[p] = "release"
             /\ closings' = closings + 1
             /\ Return(p)
             /\ UNCHANGED <<bb, softened, sigVars, connVars, fresh, inVars, outVars, hand>>

WsClose(p) == \/ Lock(p) \/ CheckClosed(p) \/ CheckOpen(p)
              \/ WsSpawn(p) \/ WsRelease(p) \/ WsMark(p)

\* K: the signals come first, then the deadline.
WsSignalW == /\ kpc = "signalW" /\ wsd = 0
             /\ wsd' = 1 /\ kpc' = "deadline"
             /\ UNCHANGED <<bb, pc, lifeVars, rsd, connVars, fresh, inVars, outVars, hand>>

WsDeadline == /\ kpc = "deadline" /\ kpc' = "done"
              /\ deadline' = IF connOpen THEN "past" ELSE deadline
              /\ UNCHANGED <<bb, pc, lifeVars, rsd, wsd, connOpen, peer, fresh, inVars,
                             outVars, hand>>

WsSignal == KSignalR \/ WsSignalW \/ WsDeadline

-----------------------------------------------------------------------------
WsUser == \E u \in Users : CallClose(u) \/ \E m \in OutMsg : Offer(u, m)

WsNext == \/ WsReadFails
          \/ /\ \/ WsReceive \/ WsSend \/ WsSignal \/ PutNext
                \/ Expire \/ DeadlineExpire \/ IFire
                \/ \E p \in Caller : WsClose(p)
                \/ WsUser \/ AppReceive \/ AppReceiveFromR \/ PeerNext
             /\ UNCHANGED failures

WsSpec == WsInit /\ [][WsNext]_wsVars

\* As in Session.
WsLiveSpec ==
  /\ WsSpec
  /\ WF_wsVars(WsReadFails \/ (WsReceive /\ UNCHANGED failures))
  /\ WF_wsVars(WsSend /\ UNCHANGED failures) /\ WF_wsVars(WsSignal /\ UNCHANGED failures)
  /\ WF_wsVars(Expire /\ UNCHANGED failures) /\ WF_wsVars(IFire /\ UNCHANGED failures)
  /\ WF_wsVars(DeadlineExpire /\ UNCHANGED failures)
  /\ \A p \in Caller : /\ WF_wsVars(WsClose(p) /\ UNCHANGED failures)
                       /\ SF_wsVars(Lock(p) /\ UNCHANGED failures)

-----------------------------------------------------------------------------
(* Properties. *)

\* The types of Session, and the library never sees a read after its panic.
WsTypeOK == TypeOK /\ failures \in 0..MaxFailures
            /\ (pc["R"] \in {"poll", "read"} => failures < MaxFailures)

\* Whoever sees the session closed, as the purge of a server does that drops it,
\* may rely on its connection being released: it is never closed but open.
ReleasedFirst == IsClosed => ~connOpen

\* However the callers of Close race with reading and writing, messages keep their
\* order, none is sent or delivered twice, nothing is written after the release, and
\* the session is released once.  Messages that are not binary have not arrived.
WsAbstract == INSTANCE Conduit WITH
                phase   <- IF ~connOpen THEN "released"
                           ELSE IF kpc # "none" THEN "closed" ELSE "open",
                offered <- accepted, emitted <- wire,
                arrived <- Keep(arrived, Message \ Texts)
WsImplementsConduit == WsAbstract!Spec
=============================================================================
