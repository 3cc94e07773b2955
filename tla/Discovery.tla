------------------------------ MODULE Discovery ------------------------------
(***************************************************************************)
(* The client side of service discovery: startClientServiceDiscovery with  *)
(* its three goroutines, and calls of the factory that buildDNS returns.   *)
(*   C  waits for the context, then closes getNext                         *)
(*   L  runs one mdns.Lookup for every token from getNext                  *)
(*   D  decodes entries and offers the definitions on an unbuffered channel*)
(* A call asks for a lookup, waits for a definition as its strategy says,  *)
(* writes it to the shared Service and dials what the Service says.        *)
(* A panic in a call leaves the factory: the recovery is deferred without  *)
(* being called, so it is the end of the program.                          *)
(***************************************************************************)
EXTENDS Naturals, Sequences, FiniteSets

CONSTANTS Callers,     \* goroutines that call the factory
          Services,    \* servers that answer lookups
          Matching,    \* those with exactly the builder's message types
          Strategies,  \* the strategies to consider: "timeout", "default"
          MaxCalls,    \* bound: calls of the factory
          None         \* nothing

ASSUME DiscoveryAssumption ==
  /\ Matching \subseteq Services /\ None \notin Services
  /\ Strategies \subseteq {"timeout", "default"} /\ MaxCalls \in Nat

VARIABLES
  strategy,   \* clientDNSStrategy, fixed
  nextOpen,   \* getNext has not been closed
  crashed,    \* a panic has left a call
  lpc,        \* L: "next", "lookup", "done"
  lookups,    \* history: lookups begun
  answered,   \* services whose entry this lookup has passed on
  held,       \* the definition D offers, or None while D receives
  calls,      \* calls made
  upc,        \* where each call is
  got,        \* the service whose definition the call was handed
  ns,         \* bb.ns: the services its Port and its HostName are of
  raced,      \* history: two calls were between definition and dial at once
  handed,     \* history: the entries handed to calls
  strayed     \* history: a call dialed what it was not handed

ctxVars  == <<strategy, nextOpen, crashed>>
lVars    == <<lpc, lookups, answered>>
userVars == <<calls, upc, got>>
nsVars   == <<ns, raced, strayed>>
vars == <<ctxVars, lVars, held, userVars, nsVars, handed>>

Entry   == [service : Services, lookup : 1..MaxCalls]
InNs(u) == upc[u] \in {"port", "host", "dial"}
At(u, l)   == upc[u] = l
Goto(u, l) == upc' = [upc EXCEPT ![u] = l]

Init ==
  /\ strategy \in Strategies /\ nextOpen = TRUE /\ crashed = FALSE
  /\ lpc = "next" /\ lookups = 0 /\ answered = {} /\ held = None
  /\ calls = 0 /\ upc = [u \in Callers |-> "idle"] /\ got = [u \in Callers |-> None]
  /\ ns = [port |-> None, host |-> None] /\ raced = FALSE /\ strayed = FALSE
  /\ handed = <<>>

-----------------------------------------------------------------------------
(* C, L and D. *)

\* The context is done and C closes getNext.
Cancel == /\ nextOpen /\ nextOpen' = FALSE
          /\ UNCHANGED <<strategy, crashed, lVars, held, userVars, nsVars, handed>>

\* Mutant: a server's entry is passed on more than once.
AnswerRepeats(s) ==
  /\ lpc = "lookup" /\ held = None /\ held' = [service |-> s, lookup |-> lookups]
  /\ UNCHANGED <<ctxVars, lVars, userVars, nsVars, handed>>

\* A server's entry reaches D when D is receiving, and is dropped otherwise; one
\* without info or with a corrupted definition is skipped, as if dropped.
Answer(s) ==
  /\ lpc = "lookup" /\ s \notin answered
  /\ answered' = answered \cup {s}
  /\ \/ held = None /\ held' = [service |-> s, lookup |-> lookups]
     \/ UNCHANGED held
  /\ UNCHANGED <<ctxVars, lpc, lookups, userVars, nsVars, handed>>

\* Mutant: a lookup waits until D can take the next entry.
LookupWaits == /\ lpc = "lookup" /\ held = None /\ lpc' = "next"
               /\ UNCHANGED <<ctxVars, lookups, answered, held, userVars, nsVars, handed>>

LookupReturns == /\ lpc = "lookup" /\ lpc' = "next"
                 /\ UNCHANGED <<ctxVars, lookups, answered, held, userVars, nsVars, handed>>

\* Mutant: L leaves its loop only when D has nothing to offer.
LEndsIdle == /\ lpc = "next" /\ ~nextOpen /\ held = None /\ lpc' = "done"
             /\ UNCHANGED <<ctxVars, lookups, answered, held, userVars, nsVars, handed>>

LEnds == /\ lpc = "next" /\ ~nextOpen /\ lpc' = "done"
         /\ UNCHANGED <<ctxVars, lookups, answered, held, userVars, nsVars, handed>>

-----------------------------------------------------------------------------
(* A call of the factory. *)

Call(u) == /\ At(u, "idle") /\ calls < MaxCalls
           /\ calls' = calls + 1 /\ Goto(u, "ask")
           /\ UNCHANGED <<ctxVars, lVars, held, got, nsVars, handed>>

\* getNext <- struct{}{}: L must be there to receive.
Ask(u) == /\ At(u, "ask") /\ nextOpen /\ lpc = "next"
          /\ lpc' = "lookup" /\ lookups' = lookups + 1 /\ answered' = {}
          /\ Goto(u, "wait")
          /\ UNCHANGED <<ctxVars, held, calls, got, nsVars, handed>>

\* A send on a closed channel panics.
AskPanics(u) == /\ At(u, "ask") /\ ~nextOpen /\ crashed' = TRUE
                /\ UNCHANGED <<strategy, nextOpen, lVars, held, userVars, nsVars, handed>>

\* Mutant: D offers its definition once more.
TakeKept(u) ==
  /\ At(u, "wait") /\ held # None /\ Goto(u, "port")
  /\ handed' = Append(handed, held) /\ got' = [got EXCEPT ![u] = held.service]
  /\ raced' = (raced \/ \E v \in Callers : InNs(v))
  /\ UNCHANGED <<ctxVars, lVars, held, calls, ns, strayed>>

\* The strategy receives the definition D offers.
Take(u) ==
  /\ At(u, "wait") /\ held # None /\ Goto(u, "port")
  /\ handed' = Append(handed, held) /\ got' = [got EXCEPT ![u] = held.service]
  /\ held' = None /\ raced' = (raced \/ \E v \in Callers : InNs(v))
  /\ UNCHANGED <<ctxVars, lVars, calls, ns, strayed>>

\* Mutant: a call goes on after the timeout.
TimesOutProceeds(u) ==
  /\ At(u, "wait") /\ strategy = "timeout" /\ Goto(u, "port")
  /\ UNCHANGED <<ctxVars, lVars, held, calls, got, nsVars, handed>>

\* WithTimeout: time.After fires first.  The error is a panic too.
TimesOut(u) == /\ At(u, "wait") /\ strategy = "timeout" /\ crashed' = TRUE
               /\ UNCHANGED <<strategy, nextOpen, lVars, held, userVars, nsVars, handed>>

\* processMdef refuses what does not match when the call is strict, by a panic.
Refuse(u) == /\ At(u, "port") /\ got[u] \notin Matching /\ crashed' = TRUE
             /\ UNCHANGED <<strategy, nextOpen, lVars, held, userVars, nsVars, handed>>

\* populateServiceFromMDef, field by field.
SetPort(u) == /\ At(u, "port") /\ ns' = [ns EXCEPT !.port = got[u]] /\ Goto(u, "host")
              /\ UNCHANGED <<ctxVars, lVars, held, calls, got, raced, strayed, handed>>

\* Mutant: a host name that is already set is kept.
SetHostOnce(u) ==
  /\ At(u, "host") /\ Goto(u, "dial")
  /\ ns' = [ns EXCEPT !.host = IF @ = None THEN got[u] ELSE @]
  /\ UNCHANGED <<ctxVars, lVars, held, calls, got, raced, strayed, handed>>

SetHost(u) == /\ At(u, "host") /\ ns' = [ns EXCEPT !.host = got[u]] /\ Goto(u, "dial")
              /\ UNCHANGED <<ctxVars, lVars, held, calls, got, raced, strayed, handed>>

\* The client builder dials bb.ns.  Its errors are returned.
Dial(u) == /\ At(u, "dial") /\ Goto(u, "idle") /\ got' = [got EXCEPT ![u] = None]
           /\ strayed' = (strayed \/ ns # [port |-> got[u], host |-> got[u]])
           /\ UNCHANGED <<ctxVars, lVars, held, calls, ns, raced, handed>>

-----------------------------------------------------------------------------
CallStep(u) == \/ Ask(u) \/ AskPanics(u) \/ Take(u) \/ TimesOut(u) \/ Refuse(u)
               \/ SetPort(u) \/ SetHost(u) \/ Dial(u)
LNext == LookupReturns \/ LEnds

Next == /\ ~crashed
        /\ \/ Cancel \/ LNext
           \/ \E s \in Services : Answer(s)
           \/ \E u \in Callers : Call(u) \/ CallStep(u)

Spec == Init /\ [][Next]_vars

\* Goroutines are scheduled, a lookup ends and time passes; servers owe no answer
\* and nobody has to cancel.  A channel serves its blocked senders in turn, so Ask
\* is strongly fair.
LiveSpec == /\ Spec /\ WF_vars(~crashed /\ LNext)
            /\ \A u \in Callers : /\ WF_vars(~crashed /\ CallStep(u))
                                  /\ SF_vars(~crashed /\ Ask(u))

-----------------------------------------------------------------------------
(* Properties. *)

\* Every goroutine is at a place of its own code, D offers an entry of a lookup that
\* was asked for, and a call that was handed a definition knows of which service.
TypeOK ==
  /\ strategy \in Strategies /\ nextOpen \in BOOLEAN
  /\ crashed \in BOOLEAN /\ raced \in BOOLEAN /\ strayed \in BOOLEAN
  /\ lpc \in {"next", "lookup", "done"} /\ lookups \in 0..calls /\ calls \in 0..MaxCalls
  /\ answered \subseteq Services /\ held \in Entry \cup {None}
  /\ upc \in [Callers -> {"idle", "ask", "wait", "port", "host", "dial"}]
  /\ got \in [Callers -> Services \cup {None}]
  /\ \A u \in Callers : InNs(u) => got[u] \in Services
  /\ ns \in [port : Services \cup {None}, host : Services \cup {None}]
  /\ handed \in Seq(Entry)

\* D keeps a definition for the next call when a lookup finds several, so a call may
\* be handed one of an earlier lookup; but never of one before the last call's.
NotTooStale == \A k \in 1..Len(handed) : handed[k].lookup >= k - 1

\* An entry is handed to one call only, and entries in the order found.
HandedOnce == \A i, j \in 1..Len(handed) :
                i < j => /\ handed[i] # handed[j]
                         /\ handed[i].lookup <= handed[j].lookup

\* Unless two calls race on the Service they share, a call dials the server whose
\* definition it was handed, also after earlier calls.
DialsItsAnswer == ~raced => ~strayed

\* WithTimeout: every call ends, whatever the servers, the other calls and the
\* context do, by a return or a panic.
TimedCallsEnd ==
  strategy = "timeout" => \A u \in Callers : At(u, "ask") ~> At(u, "idle") \/ crashed

\* A context that is done ends the lookups, whatever is in progress.
CancelEndsLookups == ~nextOpen ~> lpc = "done" \/ crashed

\* nan0Util.go:130: "Recovers from a panic using the recovery method", as buildDNS
\* defers it to return the error of a call.
ErrorsAreReturned == ~crashed
=============================================================================
