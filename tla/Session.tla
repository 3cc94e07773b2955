------------------------------- MODULE Session -------------------------------
(***************************************************************************)
(* One nan0 TCP session: the Nan0 structure of nan0.go and the goroutines  *)
(* that wrapConnectionTcp (nanoBuilder.go) starts around a connection.     *)
(*                                                                         *)
(*   R  startServiceReceiver, then Close                                   *)
(*   S  startServiceSender, then Close                                     *)
(*   I  CheckAndDoWithDuration on LastComm, then Close                     *)
(*   K  the goroutine that closeLogic spawns to signal R and S             *)
(*   Users  the goroutines of the application, and of the builder, which   *)
(*          put messages on the sender channel and call Close or softClose *)
(*                                                                         *)
(* A message is read or written here in one step: module Framing opens     *)
(* that step up.  Message values stand for identities, so each is offered  *)
(* or put on the connection at most once.                                  *)
(***************************************************************************)
EXTENDS Naturals, Sequences

CONSTANTS Users,        \* application and builder goroutines
          Handshakers,  \* the users that may call softClose (the builder)
          InMsg,        \* messages the peer may put on the connection
          OutMsg,       \* messages the users may offer
          Registered,   \* messages whose type is in the identity maps
          Routed,       \* registered messages for which RouteMap has a route
          Builders,     \* the builder settings to consider
          PeerMay,      \* bound: what the peer may become
          MaxIn,        \* bound: messages from the peer
          NoProc        \* "nobody holds closeMux"

Goroutine == {"R", "S", "I"}
Caller    == Goroutine \cup Users       \* everyone who may call Close
Message   == InMsg \cup OutMsg

ASSUME SessionAssumption ==
  /\ Users \cap Goroutine = {} /\ NoProc \notin Caller
  /\ Handshakers \subseteq Users
  /\ InMsg \cap OutMsg = {}
  /\ Registered \subseteq Message /\ Routed \subseteq Registered
  /\ Builders \subseteq [sendBuffer : Nat, receiveBuffer : Nat,
                         writeDeadlineActive : BOOLEAN]
  /\ PeerMay \subseteq {"up", "stalled", "closed", "reset"}
  /\ MaxIn \in Nat

VARIABLES
  bb,          \* the builder's settings, fixed for the session
  pc,          \* where each caller is
  soft,        \* the users whose current close call is softClose
  closeMux,    \* holder of n.closeMux
  closings,    \* how many times n.closed was closed; IsClosed() <=> > 0
  softened,    \* the one that closed it was softClose
  returned,    \* some Close or softClose call has returned
  kpc,         \* where the goroutine of closeLogic is
  rsd, wsd,    \* signals in readerShutdown and writerShutdown (buffers of 1)
  connOpen,    \* n.conn has not been closed
  deadline,    \* read deadline of n.conn: "none", "future" or "past"
  fresh,       \* LastComm() + txRxIdleDuration is after now
  peer,        \* "up", "stalled" (does not read), "closed" (FIN) or "reset"
  inbox,       \* messages on the connection that R has not read
  arrived,     \* history: everything the peer put on the connection
  recvq,       \* buffer of the receiver channel
  received,    \* history: what the application took from it
  executed,    \* history: what was handed to a route
  senderq,     \* buffer of the sender channel
  accepted,    \* history: what the sender channel accepted
  hand,        \* hand[p]: the message p is carrying, <<>> or <<m>>
  wire         \* history: what was written to the connection

lifeVars == <<soft, closeMux, closings, softened, returned>>
sigVars  == <<kpc, rsd, wsd>>
connVars == <<connOpen, deadline, peer>>
inVars   == <<inbox, arrived, recvq, received, executed>>
outVars  == <<senderq, accepted, wire>>
vars == <<bb, pc, lifeVars, sigVars, connVars, fresh, inVars, outVars, hand>>

IsClosed == closings > 0

Elems(s) == {s[i] : i \in 1..Len(s)}

Goto(p, l) == pc' = [pc EXCEPT ![p] = l]

Init ==
  /\ bb \in Builders
  /\ pc = [p \in Caller |-> IF p \in Users THEN "idle" ELSE "start"]
  /\ soft = {} /\ closeMux = NoProc /\ closings = 0
  /\ softened = FALSE /\ returned = FALSE
  /\ kpc = "none" /\ rsd = 0 /\ wsd = 0
  /\ connOpen = TRUE /\ deadline = "none" /\ fresh = TRUE /\ peer = "up"
  /\ inbox = <<>> /\ arrived = <<>> /\ recvq = <<>>
  /\ received = <<>> /\ executed = <<>>
  /\ senderq = <<>> /\ accepted = <<>> /\ wire = <<>>
  /\ hand = [p \in Caller |-> <<>>]

-----------------------------------------------------------------------------
(* R: startServiceReceiver.  A panic is recovered by the deferred handler, *)
(* so every way out of the loop leads to the call of Close ("lock").       *)

RStart == /\ pc["R"] = "start"
          /\ Goto("R", IF IsClosed THEN "lock" ELSE "poll")
          /\ UNCHANGED <<bb, lifeVars, sigVars, connVars, fresh, inVars, outVars, hand>>

RShutdown == /\ pc["R"] = "poll" /\ rsd = 1
             /\ rsd' = 0 /\ Goto("R", "lock")
             /\ UNCHANGED <<bb, lifeVars, kpc, wsd, connVars, fresh, inVars, outVars, hand>>

\* The default case of the select, only when no signal is ready, and then
\* SetReadDeadline(now + TCPTimeout), which overwrites the deadline a closer has
\* set.  One step: what a closer does between the two it may as well do before.
RPoll == /\ pc["R"] = "poll" /\ rsd = 0
         /\ IF connOpen
              THEN deadline' = "future" /\ Goto("R", "read")
              ELSE UNCHANGED deadline /\ Goto("R", "lock")
         /\ UNCHANGED <<bb, lifeVars, sigVars, connOpen, peer, fresh, inVars, outVars, hand>>

ReadFails == ~connOpen \/ deadline = "past" \/ peer = "reset"

RRead == /\ pc["R"] = "read" /\ ~ReadFails /\ inbox # <<>>
         /\ inbox' = Tail(inbox)
         /\ IF Head(inbox) \in Registered
              THEN /\ hand' = [hand EXCEPT !["R"] = <<Head(inbox)>>]
                   /\ Goto("R", "dispatch")
              ELSE UNCHANGED hand /\ Goto("R", "lock")
         /\ UNCHANGED <<bb, lifeVars, sigVars, connVars, fresh, arrived, recvq,
                        received, executed, outVars>>

\* io.EOF yields neither a message nor an error, and R goes round again.
RReadEOF == /\ pc["R"] = "read" /\ ~ReadFails /\ inbox = <<>> /\ peer = "closed"
            /\ Goto("R", "poll")
            /\ UNCHANGED <<bb, lifeVars, sigVars, connVars, fresh, inVars, outVars, hand>>

RReadError == /\ pc["R"] = "read" /\ ReadFails
              /\ Goto("R", "lock")
              /\ UNCHANGED <<bb, lifeVars, sigVars, connVars, fresh, inVars, outVars, hand>>

\* A route runs inside R: it may be done with the message, or echo it with
\* `sender <- msg' and block there.
\* Mutant: a routed message is also put on the receiver channel.
RDispatchBoth ==
  /\ pc["R"] = "dispatch" /\ Goto("R", "deliver")
  /\ executed' = IF hand["R"][1] \in Routed THEN executed \o hand["R"] ELSE executed
  /\ UNCHANGED <<bb, lifeVars, sigVars, connVars, fresh, inbox, arrived, recvq,
                 received, outVars, hand>>

RDispatch ==
  /\ pc["R"] = "dispatch"
  /\ IF hand["R"][1] \in Routed
       THEN /\ executed' = executed \o hand["R"]
            /\ \/ Goto("R", "send") /\ UNCHANGED hand
               \/ Goto("R", "poll") /\ hand' = [hand EXCEPT !["R"] = <<>>]
       ELSE Goto("R", "deliver") /\ UNCHANGED <<executed, hand>>
  /\ UNCHANGED <<bb, lifeVars, sigVars, connVars, fresh, inbox, arrived, recvq,
                 received, outVars>>

\* n.receiver <- newMsg, when the channel is buffered and has room.  What R
\* does to lastTxRx afterwards is lost: its receiver is a copy of the Nan0.
RDeliver == /\ pc["R"] = "deliver" /\ Len(recvq) < bb.receiveBuffer
            /\ recvq' = recvq \o hand["R"]
            /\ hand' = [hand EXCEPT !["R"] = <<>>]
            /\ Goto("R", "poll")
            /\ UNCHANGED <<bb, lifeVars, sigVars, connVars, fresh, inbox, arrived,
                           received, executed, outVars>>

-----------------------------------------------------------------------------
(* The sender channel.  Putters are users and, inside a route, R.          *)

AfterSend(p) == IF p = "R" THEN "poll" ELSE "idle"

\* Mutant: the buffer takes one message too many.
PutSenderOverfull(p) ==
  /\ pc[p] = "send" /\ Len(senderq) <= bb.sendBuffer
  /\ senderq' = senderq \o hand[p] /\ accepted' = accepted \o hand[p]
  /\ hand' = [hand EXCEPT ![p] = <<>>] /\ Goto(p, AfterSend(p))
  /\ UNCHANGED <<bb, lifeVars, sigVars, connVars, fresh, inVars, wire>>

PutSender(p) == /\ pc[p] = "send" /\ Len(senderq) < bb.sendBuffer
                /\ senderq' = senderq \o hand[p]
                /\ accepted' = accepted \o hand[p]
                /\ hand' = [hand EXCEPT ![p] = <<>>]
                /\ Goto(p, AfterSend(p))
                /\ UNCHANGED <<bb, lifeVars, sigVars, connVars, fresh, inVars, wire>>

(* S: startServiceSender. *)

SStart == /\ pc["S"] = "start"
          /\ Goto("S", IF IsClosed THEN "lock" ELSE "select")
          /\ UNCHANGED <<bb, lifeVars, sigVars, connVars, fresh, inVars, outVars, hand>>

\* Go chooses at random among the ready cases of a select.
SShutdown == /\ pc["S"] = "select" /\ wsd = 1
             /\ wsd' = 0 /\ Goto("S", "lock")
             /\ UNCHANGED <<bb, lifeVars, kpc, rsd, connVars, fresh, inVars, outVars, hand>>

STake == /\ pc["S"] = "select" /\ senderq # <<>>
         /\ hand' = [hand EXCEPT !["S"] = <<Head(senderq)>>]
         /\ senderq' = Tail(senderq)
         /\ Goto("S", "write")
         /\ UNCHANGED <<bb, lifeVars, sigVars, connVars, fresh, inVars, accepted, wire>>

\* An unbuffered channel: S takes the message from the blocked putter.
STakeFrom(p) ==
  /\ pc["S"] = "select" /\ bb.sendBuffer = 0 /\ pc[p] = "send"
  /\ hand' = [hand EXCEPT !["S"] = hand[p], ![p] = <<>>]
  /\ accepted' = accepted \o hand[p]
  /\ pc' = [pc EXCEPT !["S"] = "write", ![p] = AfterSend(p)]
  /\ UNCHANGED <<bb, lifeVars, sigVars, connVars, fresh, inVars, senderq, wire>>

\* S has a pointer receiver: its update of lastTxRx reaches LastComm.
SWrite == /\ pc["S"] = "write" /\ hand["S"][1] \in Registered
          /\ connOpen /\ peer \in {"up", "closed"}
          /\ wire' = wire \o hand["S"]
          /\ hand' = [hand EXCEPT !["S"] = <<>>]
          /\ fresh' = TRUE
          /\ Goto("S", "select")
          /\ UNCHANGED <<bb, lifeVars, sigVars, connVars, inVars, senderq, accepted>>

\* Mutant: a failed write is skipped and the sender goes on.
SWriteSkips == /\ pc["S"] = "write"
               /\ hand["S"][1] \notin Registered \/ ~connOpen \/ peer = "reset"
               /\ hand' = [hand EXCEPT !["S"] = <<>>] /\ Goto("S", "select")
               /\ UNCHANGED <<bb, lifeVars, sigVars, connVars, fresh, inVars, outVars>>

\* An unregistered type, a lost connection, or the write deadline.
SWriteError == /\ pc["S"] = "write"
               /\ \/ hand["S"][1] \notin Registered
                  \/ ~connOpen \/ peer = "reset"
                  \/ peer = "stalled" /\ bb.writeDeadlineActive
               /\ Goto("S", "lock")
               /\ UNCHANGED <<bb, lifeVars, sigVars, connVars, fresh, inVars, outVars, hand>>

-----------------------------------------------------------------------------
(* I: the idle check.  Time passes in Expire and DeadlineExpire, where      *)
(* somebody is waiting for it.                                              *)

Expire == /\ pc["I"] = "start" /\ fresh /\ fresh' = FALSE
          /\ UNCHANGED <<bb, pc, lifeVars, sigVars, connVars, inVars, outVars, hand>>

\* Mutant: the idle check gives up without calling Close.
IFireIdle == /\ pc["I"] = "start" /\ ~fresh /\ Goto("I", "done")
             /\ UNCHANGED <<bb, lifeVars, sigVars, connVars, fresh, inVars, outVars, hand>>

IFire == /\ pc["I"] = "start" /\ ~fresh
         /\ Goto("I", "lock")
         /\ UNCHANGED <<bb, lifeVars, sigVars, connVars, fresh, inVars, outVars, hand>>

DeadlineExpire == /\ pc["R"] = "read" /\ deadline = "future"
                  /\ deadline' = "past"
                  /\ UNCHANGED <<bb, pc, lifeVars, sigVars, connOpen, peer, fresh,
                                 inVars, outVars, hand>>

-----------------------------------------------------------------------------
(* Close and softClose, statement by statement.                            *)

AfterClose(p) == IF p \in Users THEN "idle" ELSE "done"

\* Mutant: no mutex.
LockFree(p) == /\ pc[p] = "lock" /\ closeMux' = p /\ Goto(p, "check")
               /\ UNCHANGED <<bb, soft, closings, softened, returned, sigVars, connVars,
                              fresh, inVars, outVars, hand>>

Lock(p) == /\ pc[p] = "lock" /\ closeMux = NoProc
           /\ closeMux' = p /\ Goto(p, "check")
           /\ UNCHANGED <<bb, soft, closings, softened, returned, sigVars, connVars,
                          fresh, inVars, outVars, hand>>

Return(p) == /\ closeMux' = NoProc /\ returned' = TRUE /\ soft' = soft \ {p}
             /\ Goto(p, AfterClose(p))

\* Mutants: IsClosed() is asked before the mutex is taken; the early return keeps it.
CheckClosedEarly(p) ==
  /\ pc[p] = "lock" /\ IsClosed
  /\ returned' = TRUE /\ soft' = soft \ {p} /\ Goto(p, AfterClose(p))
  /\ UNCHANGED <<bb, closeMux, closings, softened, sigVars, connVars, fresh, inVars,
                 outVars, hand>>
CheckClosedKeepsLock(p) ==
  /\ pc[p] = "check" /\ IsClosed
  /\ returned' = TRUE /\ soft' = soft \ {p} /\ Goto(p, AfterClose(p))
  /\ UNCHANGED <<bb, closeMux, closings, softened, sigVars, connVars, fresh, inVars,
                 outVars, hand>>

CheckClosed(p) == /\ pc[p] = "check" /\ IsClosed
                  /\ Return(p)
                  /\ UNCHANGED <<bb, closings, softened, sigVars, connVars, fresh,
                                 inVars, outVars, hand>>

\* Mutant: Close does not ask whether the session is closed.
CheckOpenAlways(p) ==
  /\ pc[p] = "check" /\ Goto(p, "spawn")
  /\ deadline' = IF p \in soft THEN "past" ELSE deadline
  /\ UNCHANGED <<bb, lifeVars, sigVars, connOpen, peer, fresh, inVars, outVars, hand>>

\* softClose expires the read deadline itself before closeLogic.
CheckOpen(p) == /\ pc[p] = "check" /\ ~IsClosed
                /\ Goto(p, "spawn")
                /\ deadline' = IF p \in soft THEN "past" ELSE deadline
                /\ UNCHANGED <<bb, lifeVars, sigVars, connOpen, peer, fresh, inVars,
                               outVars, hand>>

\* closeLogic: go func() {...}(), then close(n.closed).
Spawn(p) == /\ pc[p] = "spawn"
            /\ kpc' = "deadline" /\ Goto(p, "mark")
            /\ UNCHANGED <<bb, lifeVars, rsd, wsd, connVars, fresh, inVars, outVars, hand>>

Mark(p) == /\ pc[p] = "mark"
           /\ closings' = closings + 1 /\ softened' = (p \in soft)
           /\ Goto(p, "release")
           /\ UNCHANGED <<bb, soft, closeMux, returned, sigVars, connVars, fresh,
                          inVars, outVars, hand>>

\* conn.Close() in Close only, and the deferred Unlock.
Release(p) == /\ pc[p] = "release"
              /\ connOpen' = (connOpen /\ p \in soft)
              /\ Return(p)
              /\ UNCHANGED <<bb, closings, softened, sigVars, deadline, peer, fresh,
                             inVars, outVars, hand>>

CloseStep(p) == \/ Lock(p) \/ CheckClosed(p) \/ CheckOpen(p)
                \/ Spawn(p) \/ Mark(p) \/ Release(p)

(* K: the goroutine of closeLogic. *)

KDeadline == /\ kpc = "deadline" /\ kpc' = "signalR"
             /\ deadline' = IF connOpen THEN "past" ELSE deadline
             /\ UNCHANGED <<bb, pc, lifeVars, rsd, wsd, connOpen, peer, fresh, inVars,
                            outVars, hand>>

\* Mutant: the writer is not signalled.
KSignalROnly == /\ kpc = "signalR" /\ rsd = 0 /\ rsd' = 1 /\ kpc' = "done"
                /\ UNCHANGED <<bb, pc, lifeVars, wsd, connVars, fresh, inVars, outVars, hand>>

KSignalR == /\ kpc = "signalR" /\ rsd = 0
            /\ rsd' = 1 /\ kpc' = "signalW"
            /\ UNCHANGED <<bb, pc, lifeVars, wsd, connVars, fresh, inVars, outVars, hand>>

KSignalW == /\ kpc = "signalW" /\ wsd = 0
            /\ wsd' = 1 /\ kpc' = "done"
            /\ UNCHANGED <<bb, pc, lifeVars, rsd, connVars, fresh, inVars, outVars, hand>>

-----------------------------------------------------------------------------
(* The application and the builder.                                        *)

CallClose(u) == /\ pc[u] = "idle" /\ Goto(u, "lock")
                /\ UNCHANGED <<bb, lifeVars, sigVars, connVars, fresh, inVars, outVars, hand>>

CallSoftClose(u) == /\ pc[u] = "idle" /\ u \in Handshakers
                    /\ Goto(u, "lock") /\ soft' = soft \cup {u}
                    /\ UNCHANGED <<bb, closeMux, closings, softened, returned, sigVars,
                                   connVars, fresh, inVars, outVars, hand>>

Offer(u, m) == /\ pc[u] = "idle"
               /\ m \notin Elems(accepted) /\ \A v \in Users : m \notin Elems(hand[v])
               /\ hand' = [hand EXCEPT ![u] = <<m>>]
               /\ Goto(u, "send")
               /\ UNCHANGED <<bb, lifeVars, sigVars, connVars, fresh, inVars, outVars>>

\* <-GetReceiver(): from the buffer, or from R blocked on an unbuffered channel.
AppReceive == /\ recvq # <<>>
              /\ received' = Append(received, Head(recvq)) /\ recvq' = Tail(recvq)
              /\ UNCHANGED <<bb, pc, lifeVars, sigVars, connVars, fresh, inbox, arrived,
                             executed, outVars, hand>>

AppReceiveFromR == /\ pc["R"] = "deliver" /\ bb.receiveBuffer = 0
                   /\ received' = received \o hand["R"]
                   /\ hand' = [hand EXCEPT !["R"] = <<>>]
                   /\ Goto("R", "poll")
                   /\ UNCHANGED <<bb, lifeVars, sigVars, connVars, fresh, inbox, arrived,
                                  recvq, executed, outVars>>

(* The peer and the network, as long as they matter to this side. *)

PeerSend(m) == /\ connOpen /\ peer \in {"up", "stalled"} /\ Len(arrived) < MaxIn
               /\ m \notin Elems(arrived)
               /\ inbox' = Append(inbox, m) /\ arrived' = Append(arrived, m)
               /\ UNCHANGED <<bb, pc, lifeVars, sigVars, connVars, fresh, recvq, received,
                              executed, outVars, hand>>

PeerMove == /\ connOpen
            /\ peer' \in PeerMay \ {peer}
            /\ peer' = "up" => peer = "stalled"
            /\ peer' = "stalled" => peer = "up"
            /\ peer # "reset"
            /\ UNCHANGED <<bb, pc, lifeVars, sigVars, connOpen, deadline, fresh, inVars,
                           outVars, hand>>

-----------------------------------------------------------------------------
RNext == \/ RStart \/ RShutdown \/ RPoll
         \/ RRead \/ RReadEOF \/ RReadError \/ RDispatch \/ RDeliver
SNext == \/ SStart \/ SShutdown \/ STake \/ SWrite \/ SWriteError
         \/ \E p \in Users \cup {"R"} : STakeFrom(p)
KNext == KDeadline \/ KSignalR \/ KSignalW
PutNext == \E p \in Users \cup {"R"} : PutSender(p)
UserNext == \E u \in Users : \/ CallClose(u) \/ CallSoftClose(u)
                             \/ \E m \in OutMsg : Offer(u, m)
PeerNext == PeerMove \/ \E m \in InMsg : PeerSend(m)

Next == \/ RNext \/ SNext \/ KNext \/ PutNext
        \/ Expire \/ DeadlineExpire \/ IFire
        \/ \E p \in Caller : CloseStep(p)
        \/ UserNext \/ AppReceive \/ AppReceiveFromR \/ PeerNext

Spec == Init /\ [][Next]_vars

\* Every goroutine is scheduled and time passes.  A sync.Mutex hands itself to the
\* longest waiter after a millisecond, so Lock is strongly fair.  Nothing is assumed
\* of the peer or of what the application decides to do.
Fairness == /\ WF_vars(RNext) /\ WF_vars(SNext) /\ WF_vars(KNext)
            /\ WF_vars(PutSender("R")) /\ \A u \in Users : WF_vars(PutSender(u))
            /\ WF_vars(Expire) /\ WF_vars(DeadlineExpire) /\ WF_vars(IFire)
            /\ \A p \in Caller : WF_vars(CloseStep(p)) /\ SF_vars(Lock(p))

LiveSpec == Spec /\ Fairness
-----------------------------------------------------------------------------
(* Properties. *)

ClosePc == {"lock", "check", "spawn", "mark", "release"}
RPc     == {"start", "poll", "read", "dispatch", "deliver", "send", "done"}
SPc     == {"start", "select", "write", "done"}
IPc     == {"start", "done"}
UserPc  == {"idle", "send"}

PcOK == /\ pc \in [Caller -> ClosePc \cup RPc \cup SPc \cup UserPc]
        /\ pc["R"] \in ClosePc \cup RPc /\ pc["S"] \in ClosePc \cup SPc
        /\ pc["I"] \in ClosePc \cup IPc /\ \A u \in Users : pc[u] \in ClosePc \cup UserPc

LifeOK == /\ soft \in SUBSET Handshakers /\ closeMux \in Caller \cup {NoProc}
          /\ closings \in Nat /\ softened \in BOOLEAN /\ returned \in BOOLEAN
          /\ kpc \in {"none", "deadline", "signalR", "signalW", "done"}
          /\ rsd \in 0..1 /\ wsd \in 0..1

ConnOK == /\ connOpen \in BOOLEAN /\ deadline \in {"none", "future", "past"}
          /\ fresh \in BOOLEAN /\ peer \in {"up", "stalled", "closed", "reset"}

ChanOK == /\ inbox \in Seq(Message) /\ arrived \in Seq(Message)
          /\ recvq \in Seq(Message) /\ received \in Seq(Message)
          /\ executed \in Seq(Message) /\ senderq \in Seq(Message)
          /\ accepted \in Seq(Message) /\ wire \in Seq(Message)
          /\ hand \in [Caller -> Seq(Message)]

Carrying == {"dispatch", "deliver", "send", "write"}
HandOK == /\ \A p \in Caller : pc[p] \in Carrying => Len(hand[p]) = 1
          /\ pc["S"] \in {"start", "select"} => hand["S"] = <<>>
          /\ Len(recvq) <= bb.receiveBuffer /\ Len(senderq) <= bb.sendBuffer

\* Every variable has its type: each goroutine is at a place of its own code,
\* channels carry messages, a signal channel holds at most one signal, a
\* goroutine that is about to hand over a message has one, and the buffers stay
\* within the sizes the builder gave them.
TypeOK == bb \in Builders /\ PcOK /\ LifeOK /\ ConnOK /\ ChanOK /\ HandOK

\* n.closed is closed once however R, S, I and the users race to close: a second
\* close of a channel panics, and the recovery deferred in Close is never called.
ClosedOnce == closings <= 1

\* When any Close or softClose has returned, also to a caller that found the
\* session closed by another, the connection has been released, unless the call
\* that won was softClose, which keeps it for the secure session.
CloseIsComplete == returned => IsClosed /\ (connOpen => softened)

\* The inductive invariant behind the two: closeMux protects check..release; the
\* one caller that finds the session open stays in that section until it has
\* released the connection; K exists from its Spawn on and signals each of R and
\* S once, so the signal channels never block it.
Critical == {"check", "spawn", "mark", "release"}
CloseInv ==
  /\ \A p \in Caller : pc[p] \in Critical => closeMux = p
  /\ closeMux # NoProc => pc[closeMux] \in Critical
  /\ \A p \in Caller : pc[p] \in {"spawn", "mark"} => ~IsClosed
  /\ \A p \in Caller : pc[p] = "release" => IsClosed /\ softened = (p \in soft)
  /\ ClosedOnce
  /\ CloseIsComplete
  /\ ~IsClosed => connOpen
  /\ IsClosed /\ connOpen /\ ~softened => closeMux # NoProc /\ pc[closeMux] = "release"
  /\ kpc = "none" <=> ~IsClosed /\ \A p \in Caller : pc[p] # "mark"
  /\ rsd = 1 => kpc \in {"signalW", "done"}
  /\ wsd = 1 => kpc = "done"

\* Between the sender channel and the connection nothing is lost, repeated or
\* overtaken: what was accepted is what was written, what S carries (also after a
\* failed write) and what waits in the channel.
OutboundOrder == accepted = wire \o hand["S"] \o senderq

\* Whatever interleaving of the goroutines closes the session, messages leave in
\* the order accepted, are delivered in the order they arrived, none twice and
\* none skipped, and nothing is written once the connection is released.
Abstract == INSTANCE Conduit WITH
              phase   <- IF ~connOpen THEN "released"
                         ELSE IF IsClosed THEN "closed" ELSE "open",
              offered <- accepted, emitted <- wire
ImplementsConduit == Abstract!Spec

HardClosed == IsClosed /\ ~softened

\* One goroutine that ends takes the session down: once closed by Close, the
\* sender, the idle check and the signalling goroutine all finish, and the
\* receiver is finished or is held by the application: by a full or unread
\* receiver channel, or by a route blocked on the sender channel.
TeardownCascades ==
  HardClosed ~> /\ pc["S"] = "done" /\ pc["I"] = "done" /\ kpc = "done"
                /\ pc["R"] \in {"done", "deliver", "send"}

\* A session does not outlive its traffic: with a peer that went silent, stopped
\* reading or half closed, and with a receiver held by the application, the idle
\* check or the read deadline ends it.
SessionEnds == <>IsClosed

\* A call of Close or softClose returns, although it may wait for the mutex while
\* another caller closes.
CloseReturns == \A p \in Caller : pc[p] = "lock" ~> pc[p] \in {"idle", "done"}

\* nan0Interfaces.go:31: "LastComm returns the time of last Tx or Rx", so a
\* reception that R completes puts off the idle close.
ReceptionRefreshes ==
  [][pc["R"] \in {"dispatch", "deliver", "send"} /\ pc'["R"] = "poll" => fresh']_vars
=============================================================================
