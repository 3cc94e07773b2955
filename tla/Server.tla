-------------------------------- MODULE Server --------------------------------
(***************************************************************************)
(* A NanoServer of one of three kinds.  "tcp" and "secure" have one accept *)
(* loop (A), which a secure server also runs the handshake in; "ws" has a  *)
(* goroutine of net/http for each client.  All have the purge goroutine    *)
(* (P), the stream of GetConnections (G), calls of Shutdown, and the two   *)
(* connection lists they share, each list operation atomic under its       *)
(* RWMutex.  A session is here only open or closed, and a handshake agreed *)
(* or not: modules Session, WsSession and Handshake open them up.          *)
(***************************************************************************)
EXTENDS Integers, Sequences, FiniteSets, Filtering

CONSTANTS Conns,    \* client connections
          Closers,  \* goroutines that call Shutdown, each at most once
          Settings, \* the servers to consider
          None      \* no connection

\* A server: its kind and maxServerConnections, and the bounds: who dials and who calls
\* Shutdown.
ServerSetting == [kind : {"tcp", "secure", "ws"}, max : Nat \ {0},
                  clients : SUBSET Conns, closers : SUBSET Closers]

ASSUME ServerAssumption ==
  Settings \subseteq ServerSetting /\ None \notin Conns /\ IsFiniteSet(Conns)

VARIABLES
  setting,     \* the server, fixed
  conn,        \* "none", "dialed", "refused", "raw" (accepted), "open", "closed"
  listening,   \* server.listener has not been closed
  closed,      \* server.closed is closed: IsShutdown()
  crashed,     \* a panic nobody recovered has ended the program
  apc, aconn,  \* the accept loop and the connection it handles
  add,         \* where the call of AddConnection is, for each connection
  allList,     \* allConnectionsList
  streamList,  \* connectionsList: the elements reachable from its back
  streamLen,   \* what its Len() says
  ppc,         \* the purge goroutine
  gpc, gElem,  \* the goroutine of GetConnections and its element
  gBefore,     \* the elements before gElem in its list
  gLast,       \* gElem is the last element of its list
  streamed,    \* history: handed over on the channel of GetConnections
  added,       \* history: AddConnection put it in both lists
  spc, todo    \* each Shutdown call, and the connections it has yet to close

accVars    == <<apc, aconn, add>>
streamVars == <<streamList, streamLen>>
gVars      == <<gpc, gElem, gBefore, gLast, streamed>>
downVars   == <<spc, todo>>
flags      == <<setting, listening, closed, crashed>>
vars == <<conn, flags, accVars, allList, streamVars, ppc, gVars, added, downVars>>

Elems(s) == {s[i] : i \in 1..Len(s)}
IsOpen(c) == conn[c] = "open"

kind == setting.kind
Max  == setting.max

Init ==
  /\ setting \in Settings
  /\ conn = [c \in Conns |-> "none"]
  /\ listening = TRUE /\ closed = FALSE /\ crashed = FALSE
  /\ apc = IF kind = "ws" THEN "done" ELSE "accept"
  /\ aconn = None /\ add = [c \in Conns |-> "none"] /\ allList = <<>>
  /\ streamList = <<>> /\ streamLen = 0 /\ ppc = "check"
  /\ gpc = "off" /\ gElem = None /\ gBefore = <<>> /\ gLast = TRUE
  /\ streamed = <<>> /\ added = {}
  /\ spc = [u \in Closers |-> "idle"] /\ todo = [u \in Closers |-> <<>>]

-----------------------------------------------------------------------------
(* Clients and sessions. *)

Dial(c) == /\ c \in setting.clients /\ conn[c] = "none" /\ listening
           /\ conn' = [conn EXCEPT ![c] = "dialed"]
           /\ UNCHANGED <<flags, accVars, allList, streamVars, ppc, gVars, added, downVars>>

\* A session ends for reasons of its own.
SessionEnds(c) == /\ IsOpen(c)
                  /\ conn' = [conn EXCEPT ![c] = "closed"]
                  /\ UNCHANGED <<flags, accVars, allList, streamVars, ppc, gVars, added,
                                 downVars>>

(* A: startServerListening. *)

Accepting(c) == /\ apc = "accept" /\ listening /\ conn[c] = "dialed"
                /\ conn' = [conn EXCEPT ![c] = "raw"] /\ apc' = "count"
                /\ UNCHANGED <<flags, add, allList, streamVars, ppc, gVars, added, downVars>>

\* Mutant: the connection is not kept.
AcceptForgets(c) == Accepting(c) /\ aconn' = None

Accept(c) == Accepting(c) /\ aconn' = c

AcceptFails == /\ apc = "accept" /\ ~listening /\ apc' = "done"
               /\ UNCHANGED <<conn, flags, aconn, add, allList, streamVars, ppc, gVars, added,
                              downVars>>

\* At the maximum the loop returns for good; the connection just accepted is left
\* as it is and the listener stays open.
Full == /\ apc = "count" /\ Len(allList) = Max /\ apc' = "done"
        /\ UNCHANGED <<conn, flags, aconn, add, allList, streamVars, ppc, gVars, added, downVars>>

\* wrapConnectionTcp, and the call of AddConnection begins.
WrapAndAdd == /\ conn' = [conn EXCEPT ![aconn] = "open"]
              /\ apc' = "adding" /\ add' = [add EXCEPT ![aconn] = "check"]
              /\ UNCHANGED <<flags, aconn, allList, streamVars, ppc, gVars, added, downVars>>

\* Mutant: no limit.
WrapUnlimited == apc = "count" /\ kind = "tcp" /\ WrapAndAdd

Wrap == apc = "count" /\ kind = "tcp" /\ Len(allList) # Max /\ WrapAndAdd

\* The temporary session of a secure server, on which the loop waits for the client.
WrapTemp == /\ apc = "count" /\ kind = "secure" /\ Len(allList) # Max /\ apc' = "handshake"
            /\ UNCHANGED <<conn, flags, aconn, add, allList, streamVars, ppc, gVars, added,
                           downVars>>

\* It may end, and close the connection, while the loop waits.
TempEnds == /\ apc = "handshake" /\ conn[aconn] = "raw"
            /\ conn' = [conn EXCEPT ![aconn] = "closed"]
            /\ UNCHANGED <<flags, accVars, allList, streamVars, ppc, gVars, added, downVars>>

\* The client's half arrives, possibly just before the temporary session ended: it is
\* agreed upon, or the loop goes on and leaves the connection as it is.
Agreed == apc = "handshake" /\ WrapAndAdd

NotAgreed == /\ apc = "handshake" /\ apc' = "accept"
             /\ UNCHANGED <<conn, flags, aconn, add, allList, streamVars, ppc, gVars, added,
                            downVars>>

(* The handler of a websocket server, called for each client. *)

\* The maximum is not asked.
Upgrade(c) == /\ kind = "ws" /\ listening /\ conn[c] = "dialed"
              /\ conn' = [conn EXCEPT ![c] = "open"] /\ add' = [add EXCEPT ![c] = "check"]
              /\ UNCHANGED <<flags, apc, aconn, allList, streamVars, ppc, gVars, added, downVars>>

\* The origin is not accepted, or the upgrade fails.
Refuse(c) == /\ kind = "ws" /\ listening /\ conn[c] = "dialed"
             /\ conn' = [conn EXCEPT ![c] = "refused"]
             /\ UNCHANGED <<flags, accVars, allList, streamVars, ppc, gVars, added, downVars>>

(* AddConnection: nothing at all when the server is shut down. *)

AddStep(c, from, to) ==
  /\ add[c] = from /\ add' = [add EXCEPT ![c] = to]
  /\ apc' = IF kind # "ws" /\ to = "done" THEN "accept" ELSE apc
  /\ UNCHANGED <<conn, flags, aconn, ppc, downVars>>

AddDropped(c) == /\ closed /\ AddStep(c, "check", "done")
                 /\ UNCHANGED <<allList, streamVars, gVars, added>>

AddChecked(c) == /\ ~closed /\ AddStep(c, "check", "pushStream")
                 /\ UNCHANGED <<allList, streamVars, gVars, added>>

PushStream(c) == /\ AddStep(c, "pushStream", "pushAll")
                 /\ streamList' = Append(streamList, c) /\ streamLen' = streamLen + 1
                 /\ gLast' = (gLast /\ gElem \notin Elems(streamList))
                 /\ UNCHANGED <<allList, gpc, gElem, gBefore, streamed, added>>

PushAll(c) == /\ AddStep(c, "pushAll", "done")
              /\ allList' = Append(allList, c) /\ added' = added \cup {c}
              /\ UNCHANGED <<streamVars, gVars>>

-----------------------------------------------------------------------------
(* P: purgeLogic. *)

PurgeCheck == /\ ppc = "check" /\ ppc' = IF closed THEN "done" ELSE "tick"
              /\ UNCHANGED <<conn, flags, accVars, allList, streamVars, gVars, added,
                             downVars>>

\* Mutant: the purge stops at the first closed connection.
PurgeStops ==
  /\ ppc = "tick" /\ ppc' = "check"
  /\ LET kept == {i \in 0..Len(allList) : \A j \in 1..i : IsOpen(allList[j])}
     IN allList' = SubSeq(allList, 1, CHOOSE i \in kept : \A j \in kept : j <= i)
  /\ UNCHANGED <<conn, flags, accVars, streamVars, gVars, added, downVars>>

\* purgeClosedConnections: only the list of all connections is purged.
Purge == /\ ppc = "tick" /\ ppc' = "check"
         /\ allList' = Keep(allList, {c \in Conns : IsOpen(c)})
         /\ UNCHANGED <<conn, flags, accVars, streamVars, gVars, added, downVars>>

-----------------------------------------------------------------------------
(* G: GetConnections. *)

\* readConnListBack, and what precedes the element in its list.  When the length
\* is wrong and nothing is left, Back is the root, which carries no connection.
ReadBack ==
  /\ gLast' = TRUE
  /\ IF streamLen = 0 \/ streamList = <<>>
       THEN gElem' = None /\ gBefore' = <<>>
       ELSE /\ gElem' = streamList[Len(streamList)]
            /\ gBefore' = SubSeq(streamList, 1, Len(streamList) - 1)

GetConnections == /\ gpc = "off" /\ ~closed /\ gpc' = "loop" /\ ReadBack
                  /\ UNCHANGED <<conn, flags, accVars, allList, streamVars, ppc, streamed,
                                 added, downVars>>

GCheck == /\ gpc = "loop" /\ gpc' = IF closed THEN "done" ELSE "tick"
          /\ UNCHANGED <<conn, flags, accVars, allList, streamVars, ppc, gElem, gBefore,
                         gLast, streamed, added, downVars>>

GRead == /\ gpc = "tick" /\ gElem = None /\ gpc' = "loop" /\ ReadBack
         /\ UNCHANGED <<conn, flags, accVars, allList, streamVars, ppc, streamed, added,
                        downVars>>

InHand == /\ gpc = "tick" /\ gElem # None /\ gpc' = "hand"
          /\ streamLen' = streamLen - 1
          /\ UNCHANGED <<conn, flags, accVars, allList, ppc, gElem, gBefore, gLast,
                         streamed, added, downVars>>

\* Mutants: the element stays in the list; the list is cut at the element.
GRemoveKeeps == InHand /\ streamList' = streamList
GRemoveRest  == InHand /\ streamList' = gBefore

\* list.Remove unlinks the element it is given.  If the list was cleared since
\* (Init), the element still names it: if it was the last one, its predecessors are
\* linked in again; in any case the length drops below the truth.
GRemove ==
  /\ InHand
  /\ streamList' = IF gElem \in Elems(streamList) THEN Keep(streamList, Conns \ {gElem})
                   ELSE IF gLast THEN gBefore ELSE streamList

\* c <- nsw: G waits until the application receives.  A removed element has no Next.
AppTakes == /\ gpc = "hand" /\ gpc' = "loop"
            /\ streamed' = Append(streamed, gElem) /\ gElem' = None /\ gBefore' = <<>>
            /\ gLast' = TRUE
            /\ UNCHANGED <<conn, flags, accVars, allList, streamVars, ppc, added, downVars>>

-----------------------------------------------------------------------------
(* Shutdown: resetConnections, then the listener, then close(closed).      *)

At(u, l) == spc[u] = l
Goto(u, l) == spc' = [spc EXCEPT ![u] = l]

\* GetAllConnections gives nothing once the server is shut down.
Shutdown(u) == /\ u \in setting.closers /\ At(u, "idle") /\ Goto(u, "closing")
               /\ todo' = [todo EXCEPT ![u] = IF closed THEN <<>> ELSE allList]
               /\ UNCHANGED <<conn, flags, accVars, allList, streamVars, ppc, gVars, added>>

CloseOne(u) ==
  /\ At(u, "closing") /\ todo[u] # <<>>
  /\ conn' = [conn EXCEPT ![Head(todo[u])] = "closed"]
  /\ todo' = [todo EXCEPT ![u] = Tail(todo[u])]
  /\ UNCHANGED <<flags, accVars, allList, streamVars, ppc, gVars, added, spc>>

ClearStream(u) == /\ At(u, "closing") /\ todo[u] = <<>> /\ Goto(u, "clearAll")
                  /\ streamList' = <<>> /\ streamLen' = 0
                  /\ UNCHANGED <<conn, flags, accVars, allList, ppc, gVars, added, todo>>

ClearAll(u) == /\ At(u, "clearAll") /\ Goto(u, "listener") /\ allList' = <<>>
               /\ UNCHANGED <<conn, flags, accVars, streamVars, ppc, gVars, added, todo>>

\* Mutant: the listener is left open.
CloseListenerNot(u) ==
  /\ At(u, "listener") /\ (listening \/ kind = "ws") /\ Goto(u, "mark")
  /\ UNCHANGED <<conn, flags, accVars, allList, streamVars, ppc, gVars, added, todo>>

\* The websocket server is an http.Server: Close ends its listener and the clients it has
\* not yet upgraded, and does nothing the second time.
CloseListener(u) ==
  /\ At(u, "listener") /\ (listening \/ kind = "ws") /\ Goto(u, "mark") /\ listening' = FALSE
  /\ conn' = [c \in Conns |-> IF conn[c] = "dialed" THEN "refused" ELSE conn[c]]
  /\ UNCHANGED <<setting, closed, crashed, accVars, allList, streamVars, ppc, gVars, added, todo>>

MarkClosed(u) == /\ At(u, "mark") /\ ~closed /\ Goto(u, "returned") /\ closed' = TRUE
                 /\ UNCHANGED <<conn, setting, listening, crashed, accVars, allList, streamVars, ppc,
                                gVars, added, todo>>

\* A TCP listener cannot be closed twice, nor the channel of a websocket server; the
\* deferred recoverPanic only builds a handler without calling it.
ShutdownPanics(u) ==
  /\ \/ At(u, "listener") /\ ~listening /\ kind # "ws"
     \/ At(u, "mark") /\ closed
  /\ crashed' = TRUE
  /\ UNCHANGED <<conn, setting, listening, closed, accVars, allList, streamVars, ppc, gVars, added,
                 downVars>>

-----------------------------------------------------------------------------
AddNext(c) == AddDropped(c) \/ AddChecked(c) \/ PushStream(c) \/ PushAll(c)
ANext == \/ \E c \in Conns : Accept(c)
         \/ AcceptFails \/ Full \/ Wrap \/ WrapTemp
Client == \/ \E c \in Conns : Dial(c) \/ Upgrade(c) \/ Refuse(c) \/ SessionEnds(c)
          \/ TempEnds \/ Agreed \/ NotAgreed
PNext == PurgeCheck \/ Purge
GNext == GCheck \/ GRead \/ GRemove
DownStep(u) == CloseOne(u) \/ ClearStream(u) \/ ClearAll(u) \/ CloseListener(u)
               \/ MarkClosed(u) \/ ShutdownPanics(u)

Next == /\ ~crashed
        /\ \/ Client \/ \E c \in Conns : AddNext(c)
           \/ ANext \/ PNext \/ GNext \/ GetConnections \/ AppTakes
           \/ \E u \in Closers : Shutdown(u) \/ DownStep(u)

Spec == Init /\ [][Next]_vars

\* The program's goroutines are scheduled.  Clients, the application and the caller
\* of Shutdown owe nothing.
LiveSpec == /\ Spec
            /\ WF_vars(~crashed /\ ANext)
            /\ \A c \in Conns : WF_vars(~crashed /\ AddNext(c))
            /\ WF_vars(~crashed /\ PNext)
            /\ WF_vars(~crashed /\ GNext)
            /\ \A u \in Closers : WF_vars(~crashed /\ DownStep(u))

-----------------------------------------------------------------------------
(* Properties. *)

Running == \A u \in Closers : spc[u] = "idle"

\* Every goroutine is at a place of its own code, with a connection where it handles one, and
\* lists hold connections.
TypeOK ==
  /\ setting \in Settings /\ conn \in [Conns -> {"none", "dialed", "refused", "raw", "open", "closed"}]
  /\ listening \in BOOLEAN /\ closed \in BOOLEAN /\ crashed \in BOOLEAN
  /\ apc \in {"accept", "count", "handshake", "adding", "done"}
  /\ aconn \in Conns \cup {None} /\ (apc \in {"count", "handshake", "adding"} => aconn # None)
  /\ add \in [Conns -> {"none", "check", "pushStream", "pushAll", "done"}]
  /\ allList \in Seq(Conns) /\ streamList \in Seq(Conns) /\ streamLen \in Int
  /\ ppc \in {"check", "tick", "done"} /\ gpc \in {"off", "loop", "tick", "hand", "done"}
  /\ gElem \in Conns \cup {None} /\ (gpc = "hand" => gElem # None)
  /\ gBefore \in Seq(Conns) /\ gLast \in BOOLEAN
  /\ streamed \in Seq(Conns)
  /\ added \subseteq Conns
  /\ spc \in [Closers -> {"idle", "closing", "clearAll", "listener", "mark", "returned"}]
  /\ todo \in [Closers -> Seq(Conns)]

\* A TCP server never holds more connections than maxServerConnections, although the
\* accept loop counts before the handshake, wraps and pushes, and the purge swaps the list.
CountBounded == kind # "ws" => Len(allList) <= Max

\* Until Shutdown is called, an open session that was added is never lost from
\* GetAllConnections, whatever the purge removes meanwhile.
OpenStaysListed ==
  Running => \A c \in added : IsOpen(c) => c \in Elems(allList)

\* A connection is handed over on the channel of GetConnections at most once, also
\* when Shutdown clears the list between the read of its back and the removal.
StreamedOnce == \A i, j \in 1..Len(streamed) : i # j => streamed[i] # streamed[j]

\* Until Shutdown is called, no connection that was added is lost to the stream: it
\* is in the list, in G's hand, or was handed over.
StreamComplete ==
  Running => \A c \in added : \/ c \in Elems(streamList) \/ c \in Elems(streamed)
                              \/ c = gElem

NoAddition == \A c \in Conns : add[c] \in {"none", "done"}

\* Once Shutdown is called the server closes or the program ends with a second Shutdown, and
\* every handler, the purge, the accept loop and the stream end, but for a loop whose client
\* never ends its handshake and a stream the application stopped receiving from.
ShutdownCascades ==
  \A u \in Closers : spc[u] # "idle" ~>
    \/ crashed
    \/ /\ closed /\ apc \in {"done", "handshake"} /\ NoAddition
       /\ ppc = "done" /\ gpc \in {"off", "hand", "done"}

\* nan0Server.go:192: "Close all opened connections and clear connection cache".
ShutdownClosesAll ==
  closed /\ apc = "done" /\ NoAddition => \A c \in Conns : ~IsOpen(c)
=============================================================================
