---------------------------- MODULE DiscoveryProofs ----------------------------
(***************************************************************************)
(* Which definition a call of a discovery factory is handed, and what it   *)
(* dials, for any number of calls, callers and servers.  The first part    *)
(* counts: a lookup is one call's asking, so that as many calls wait as    *)
(* there are lookups without a definition handed over.                     *)
(***************************************************************************)
EXTENDS Discovery, FiniteSetTheorems, TLAPS

\* Every lookup was asked for by a call that has left "ask", and every definition handed to a
\* call that has left "wait": the calls there are the difference.
Asking  == {u \in Callers : At(u, "ask")}
Waiting == {u \in Callers : At(u, "wait")}

CallInv ==
  /\ IsFiniteSet(Asking) /\ lookups + Cardinality(Asking) = calls
  /\ IsFiniteSet(Waiting) /\ Len(handed) + Cardinality(Waiting) = lookups
  /\ lpc = "lookup" => lookups >= 1

\* A call that moves from one place to another is one less here and one more there.
LEMMA Moves ==
  ASSUME NEW U, IsFiniteSet(U), NEW u
  PROVE  /\ IsFiniteSet(U \cup {u}) /\ IsFiniteSet(U \ {u}) /\ Cardinality(U) \in Nat
         /\ u \in U => Cardinality(U) >= 1 /\ Cardinality(U \ {u}) = Cardinality(U) - 1
         /\ u \notin U => Cardinality(U \cup {u}) = Cardinality(U) + 1
<1>1. Cardinality(U \ {u}) \in Nat
  BY FS_RemoveElement, FS_CardinalityType
<1> QED BY <1>1, FS_AddElement, FS_RemoveElement, FS_CardinalityType

\* What a step does keeps the types, and the count that bounds the lookups.
LEMMA CallStepKeeps ==
  ASSUME TypeOK, CallInv, [Next]_vars
  PROVE  TypeOK' /\ CallInv'
<1>1. /\ lookups \in Nat /\ calls \in Nat /\ MaxCalls \in Nat /\ calls <= MaxCalls
      /\ upc \in [Callers -> {"idle", "ask", "wait", "port", "host", "dial"}]
      /\ handed \in Seq(Entry) /\ Len(handed) \in Nat
  BY DiscoveryAssumption DEF TypeOK
<1>2. /\ IsFiniteSet(Asking) /\ lookups + Cardinality(Asking) = calls
      /\ IsFiniteSet(Waiting) /\ Len(handed) + Cardinality(Waiting) = lookups
      /\ Cardinality(Asking) \in Nat /\ Cardinality(Waiting) \in Nat
  BY FS_CardinalityType DEF CallInv
<1>3. ASSUME UNCHANGED <<calls, lookups, handed>>, Asking' = Asking, Waiting' = Waiting,
             lpc' = "lookup" => lpc = "lookup"
      PROVE  CallInv'
  BY <1>2, <1>3 DEF CallInv
<1>4. ASSUME UNCHANGED <<calls, lookups, handed, upc>>, lpc' = "lookup" => lpc = "lookup" PROVE CallInv'
  BY <1>3, <1>4 DEF Asking, Waiting, At
<1>5. CASE Cancel
  BY <1>4, <1>5 DEF Cancel, TypeOK, InNs, lVars, userVars, nsVars
<1>6. CASE LNext
  BY <1>4, <1>6 DEF LNext, LookupReturns, LEnds, TypeOK, InNs, ctxVars, userVars, nsVars
<1>7. ASSUME NEW z \in Services, Answer(z) PROVE TypeOK' /\ CallInv'
  <2>1. lookups \in 1..MaxCalls
    BY <1>1, <1>2, <1>7 DEF Answer, CallInv
  <2>2. held' \in Entry \cup {None}
    BY <1>7, <2>1 DEF Answer, TypeOK, Entry
  <2>3. answered' \subseteq Services
    BY <1>7 DEF Answer, TypeOK
  <2>4. TypeOK'
    BY <1>7, <2>2, <2>3 DEF Answer, TypeOK, InNs, ctxVars, userVars, nsVars
  <2> QED BY <1>4, <1>7, <2>4 DEF Answer, userVars
<1>8. ASSUME NEW u \in Callers, Call(u) PROVE TypeOK' /\ CallInv'
  <2>1. /\ upc[u] = "idle" /\ upc' = [upc EXCEPT ![u] = "ask"] /\ calls' = calls + 1
        /\ calls' \in 0..MaxCalls /\ UNCHANGED <<lpc, lookups, handed>>
    BY <1>1, <1>8 DEF Call, At, Goto, lVars
  <2>2. Asking' = Asking \cup {u} /\ u \notin Asking /\ Waiting' = Waiting
    BY <1>1, <2>1 DEF Asking, Waiting, At
  <2>3. CallInv'
    <3>1. IsFiniteSet(Asking') /\ Cardinality(Asking') = Cardinality(Asking) + 1
      BY <1>2, <2>2, Moves
    <3> QED BY <1>1, <1>2, <2>1, <2>2, <3>1 DEF CallInv
  <2>4. TypeOK'
    BY <1>1, <1>8, <2>1 DEF Call, TypeOK, InNs, ctxVars, lVars, nsVars
  <2> QED BY <2>3, <2>4
<1>9. ASSUME NEW u \in Callers, Ask(u) PROVE TypeOK' /\ CallInv'
  <2>1. /\ upc[u] = "ask" /\ upc' = [upc EXCEPT ![u] = "wait"] /\ lookups' = lookups + 1
        /\ UNCHANGED <<calls, handed>>
    BY <1>9 DEF Ask, At, Goto
  <2>2. /\ Asking' = Asking \ {u} /\ u \in Asking
        /\ Waiting' = Waiting \cup {u} /\ u \notin Waiting
    BY <1>1, <2>1 DEF Asking, Waiting, At
  <2>3. CallInv' /\ lookups' \in 0..calls'
    <3>1. /\ IsFiniteSet(Asking') /\ Cardinality(Asking') = Cardinality(Asking) - 1
          /\ Cardinality(Asking) >= 1
      BY <1>2, <2>2, Moves
    <3>2. IsFiniteSet(Waiting') /\ Cardinality(Waiting') = Cardinality(Waiting) + 1
      BY <1>2, <2>2, Moves
    <3> QED BY <1>1, <1>2, <2>1, <3>1, <3>2 DEF CallInv
  <2>4. TypeOK'
    BY <1>1, <1>9, <2>1, <2>3 DEF Ask, TypeOK, InNs, ctxVars, nsVars
  <2> QED BY <2>3, <2>4
<1>10. ASSUME NEW u \in Callers, Take(u) PROVE TypeOK' /\ CallInv'
  <2>1. /\ upc[u] = "wait" /\ upc' = [upc EXCEPT ![u] = "port"] /\ held \in Entry
        /\ handed' = Append(handed, held) /\ UNCHANGED <<calls, lookups, lpc>>
    BY <1>10 DEF Take, At, Goto, TypeOK, lVars
  <2>2. Asking' = Asking /\ Waiting' = Waiting \ {u} /\ u \in Waiting
    BY <1>1, <2>1 DEF Asking, Waiting, At
  <2>3. handed' \in Seq(Entry) /\ Len(handed') = Len(handed) + 1
    BY <1>1, <2>1
  <2>4. CallInv'
    <3>1. IsFiniteSet(Waiting') /\ Cardinality(Waiting') = Cardinality(Waiting) - 1
      BY <1>2, <2>2, Moves
    <3>2. lookups' >= 1 \/ lpc' # "lookup"
      BY <2>1 DEF CallInv
    <3> QED BY <1>1, <1>2, <2>1, <2>2, <2>3, <3>1, <3>2 DEF CallInv
  <2>5. held.service \in Services
    BY <2>1 DEF Entry
  <2>6. TypeOK'
    BY <1>1, <1>10, <2>1, <2>3, <2>5 DEF Take, TypeOK, InNs, ctxVars, lVars
  <2> QED BY <2>4, <2>6
<1>11. ASSUME NEW u \in Callers, SetPort(u) \/ SetHost(u) \/ Dial(u) PROVE TypeOK' /\ CallInv'
  <2>1. /\ InNs(u) /\ \E l \in {"idle", "host", "dial"} : upc' = [upc EXCEPT ![u] = l]
        /\ UNCHANGED <<calls, lookups, handed, lpc>>
    BY <1>11 DEF SetPort, SetHost, Dial, At, Goto, InNs, lVars
  <2>2. Asking' = Asking /\ Waiting' = Waiting
    BY <1>1, <2>1 DEF Asking, Waiting, At, InNs
  <2>3. CallInv'
    BY <1>3, <2>1, <2>2
  <2>4. /\ got \in [Callers -> Services \cup {None}] /\ got[u] \in Services
        /\ ns \in [port : Services \cup {None}, host : Services \cup {None}]
        /\ \A v \in Callers : InNs(v) => got[v] \in Services
    BY <2>1 DEF TypeOK
  <2>5. /\ got' \in [Callers -> Services \cup {None}]
        /\ \A v \in Callers : InNs(v)' => got'[v] \in Services
    BY <1>1, <1>11, <2>1, <2>4 DEF SetPort, SetHost, Dial, Goto, InNs
  <2>6. ns' \in [port : Services \cup {None}, host : Services \cup {None}]
    BY <1>11, <2>4 DEF SetPort, SetHost, Dial
  <2>7. strayed' \in BOOLEAN
    BY <1>11 DEF SetPort, SetHost, Dial, TypeOK
  <2>8. UNCHANGED <<ctxVars, lVars, held, calls, raced, handed>>
    BY <1>11 DEF SetPort, SetHost, Dial
  <2>9. TypeOK'
    BY <1>1, <2>1, <2>5, <2>6, <2>7, <2>8 DEF TypeOK, ctxVars, lVars
  <2> QED BY <2>3, <2>9
<1>12. ASSUME NEW u \in Callers, AskPanics(u) \/ TimesOut(u) \/ Refuse(u) PROVE TypeOK' /\ CallInv'
  BY <1>4, <1>12 DEF AskPanics, TimesOut, Refuse, TypeOK, InNs, lVars, userVars, nsVars
<1>13. CASE UNCHANGED vars
  BY <1>4, <1>13 DEF vars, TypeOK, InNs, ctxVars, lVars, userVars, nsVars
<1> QED BY <1>5, <1>6, <1>7, <1>8, <1>9, <1>10, <1>11, <1>12, <1>13 DEF Next, CallStep

\* A factory's goroutines and calls stay at places of their own, and no more lookups begin than
\* calls were made.
THEOREM TypeCorrect == Spec => [](TypeOK /\ CallInv)
<1>1. ASSUME Init PROVE TypeOK /\ CallInv
  <2>1. Asking = {} /\ Waiting = {}
    BY <1>1 DEF Init, Asking, Waiting, At
  <2>2. CallInv
    BY <1>1, <2>1, FS_EmptySet DEF Init, CallInv
  <2>3. ns \in [port : Services \cup {None}, host : Services \cup {None}] /\ handed \in Seq(Entry)
    BY <1>1 DEF Init
  <2>4. lookups \in 0..calls /\ calls \in 0..MaxCalls
    BY <1>1, DiscoveryAssumption DEF Init
  <2>5. /\ upc = [u \in Callers |-> "idle"] /\ got = [u \in Callers |-> None]
        /\ \A u \in Callers : ~InNs(u)
    BY <1>1 DEF Init, InNs
  <2>6. TypeOK
    <3>1. /\ strategy \in Strategies /\ nextOpen \in BOOLEAN /\ crashed \in BOOLEAN /\ raced \in BOOLEAN
          /\ strayed \in BOOLEAN /\ lpc = "next" /\ answered = {} /\ held = None
      BY <1>1 DEF Init
    <3> QED BY <2>3, <2>4, <2>5, <3>1 DEF TypeOK
  <2> QED BY <2>2, <2>6
<1> QED BY <1>1, CallStepKeeps, PTL DEF Spec

-----------------------------------------------------------------------------
(* The entries. *)

\* What D offers is younger than what was handed over, and what the lookup in progress has
\* passed on is of a service that has answered it.
EntryInv ==
  /\ held # None => /\ held.lookup >= Len(handed) /\ held.lookup <= lookups
                    /\ held.lookup = lookups => held.service \in answered
  /\ \A i \in 1..Len(handed) :
       /\ handed[i].lookup <= lookups
       /\ handed[i].lookup = lookups => handed[i].service \in answered
       /\ held # None => handed[i] # held /\ handed[i].lookup <= held.lookup

\* Every step keeps the entry on offer young and different from those handed over.
LEMMA EntryStep ==
  ASSUME TypeOK, CallInv, CallInv', EntryInv, [Next]_vars
  PROVE  EntryInv'
<1>1. /\ lookups \in Nat /\ handed \in Seq(Entry) /\ Len(handed) \in Nat /\ held \in Entry \cup {None}
      /\ \A e \in Entry : e.lookup \in Nat
  BY DiscoveryAssumption DEF TypeOK, Entry
<1>2. CASE UNCHANGED <<held, handed, lookups, answered>>
  BY <1>2 DEF EntryInv
<1>3. ASSUME NEW z \in Services, Answer(z) PROVE EntryInv'
  <2>1. /\ z \notin answered /\ answered' = answered \cup {z} /\ UNCHANGED <<handed, lookups>>
    BY <1>3 DEF Answer
  <2>2. CASE held' = held
    BY <2>1, <2>2 DEF EntryInv
  <2>3. CASE held = None /\ held' = [service |-> z, lookup |-> lookups]
    <3>1. held'.service = z /\ held'.lookup = lookups
      BY <2>3
    <3>2. Len(handed) <= lookups
      BY <1>1, FS_CardinalityType DEF CallInv
    <3>3. ASSUME NEW i \in 1..Len(handed) PROVE handed[i] # held' /\ handed[i].lookup <= held'.lookup
      BY <2>1, <3>1, <3>3 DEF EntryInv
    <3> QED BY <1>1, <2>1, <3>1, <3>2, <3>3 DEF EntryInv
  <2> QED BY <1>3, <2>2, <2>3 DEF Answer
<1>4. ASSUME NEW u \in Callers, Ask(u) PROVE EntryInv'
  <2>1. lookups' = lookups + 1 /\ UNCHANGED <<held, handed>>
    BY <1>4 DEF Ask
  <2>2. \A i \in 1..Len(handed) : handed[i] \in Entry
    BY <1>1
  <2> QED BY <1>1, <2>1, <2>2 DEF EntryInv
<1>5. ASSUME NEW u \in Callers, Take(u) PROVE EntryInv'
  <2>1. /\ held # None /\ held \in Entry /\ held' = None /\ handed' = Append(handed, held)
        /\ UNCHANGED <<lookups, answered>>
    BY <1>1, <1>5 DEF Take, lVars
  <2>2. /\ Len(handed') = Len(handed) + 1 /\ handed'[Len(handed) + 1] = held
        /\ \A i \in 1..Len(handed) : handed'[i] = handed[i]
    BY <1>1, <2>1
  <2>3. ASSUME NEW i \in 1..Len(handed')
        PROVE  /\ handed'[i].lookup <= lookups
               /\ handed'[i].lookup = lookups => handed'[i].service \in answered
    BY <1>1, <2>1, <2>2, <2>3 DEF EntryInv
  <2> QED BY <2>1, <2>3 DEF EntryInv
<1>6. ASSUME NEW u \in Callers, CallStep(u) \/ Call(u), ~Ask(u), ~Take(u)
      PROVE  UNCHANGED <<held, handed, lookups, answered>>
  BY <1>6 DEF CallStep, AskPanics, TimesOut, Refuse, SetPort, SetHost, Dial, Call, lVars
<1>7. CASE Cancel \/ LNext \/ UNCHANGED vars
  BY <1>2, <1>7 DEF Cancel, LNext, LookupReturns, LEnds, vars, lVars
<1> QED BY <1>2, <1>3, <1>4, <1>5, <1>6, <1>7 DEF Next, CallStep

\* What was handed over: each is as young as its place, different from the others and no older
\* than those before.
HandedInv == NotTooStale /\ HandedOnce

\* Handing over the entry on offer adds one that is younger than its place demands.
LEMMA HandedStep ==
  ASSUME TypeOK, EntryInv, HandedInv, [Next]_vars
  PROVE  HandedInv'
<1>1. handed \in Seq(Entry) /\ Len(handed) \in Nat /\ held \in Entry \cup {None}
  BY DEF TypeOK
<1>2. CASE handed' = handed
  BY <1>2 DEF HandedInv, NotTooStale, HandedOnce
<1>3. ASSUME NEW u \in Callers, Take(u) PROVE HandedInv'
  <2>1. held # None /\ held \in Entry /\ handed' = Append(handed, held)
    BY <1>1, <1>3 DEF Take
  <2>2. /\ Len(handed') = Len(handed) + 1 /\ handed'[Len(handed) + 1] = held
        /\ \A i \in 1..Len(handed) : handed'[i] = handed[i]
    BY <1>1, <2>1
  <2>3. NotTooStale'
    <3>1. ASSUME NEW i \in 1..Len(handed') PROVE handed'[i].lookup >= i - 1
      <4>1. CASE i = Len(handed) + 1
        BY <1>1, <2>1, <2>2, <4>1 DEF EntryInv
      <4>2. CASE i \in 1..Len(handed)
        BY <2>2, <4>2 DEF HandedInv, NotTooStale
      <4> QED BY <1>1, <2>2, <4>1, <4>2
    <3> QED BY <3>1 DEF NotTooStale
  <2>4. HandedOnce'
    <3>1. ASSUME NEW i \in 1..Len(handed'), NEW j \in 1..Len(handed'), i < j
          PROVE  handed'[i] # handed'[j] /\ handed'[i].lookup <= handed'[j].lookup
      <4>1. i \in 1..Len(handed) /\ handed'[i] = handed[i]
        BY <1>1, <2>2, <3>1
      <4>2. CASE j = Len(handed) + 1
        BY <2>1, <2>2, <4>1, <4>2 DEF EntryInv
      <4>3. CASE j \in 1..Len(handed)
        BY <2>2, <3>1, <4>1, <4>3 DEF HandedInv, HandedOnce
      <4> QED BY <1>1, <2>2, <4>2, <4>3
    <3> QED BY <3>1 DEF HandedOnce
  <2> QED BY <2>3, <2>4 DEF HandedInv
<1>4. ASSUME NEW u \in Callers, CallStep(u) \/ Call(u), ~Take(u) PROVE handed' = handed
  BY <1>4 DEF CallStep, Ask, AskPanics, TimesOut, Refuse, SetPort, SetHost, Dial, Call
<1>5. ASSUME Cancel \/ LNext \/ (\E z \in Services : Answer(z)) \/ UNCHANGED vars PROVE handed' = handed
  BY <1>5 DEF Cancel, LNext, LookupReturns, LEnds, Answer, vars
<1> QED BY <1>2, <1>3, <1>4, <1>5 DEF Next, CallStep

\* The invariant of the entries, for any number of servers that answer, or do not.
THEOREM EntriesCorrect == Spec => [](EntryInv /\ HandedInv)
<1>1. Init => EntryInv /\ HandedInv
  BY DEF Init, EntryInv, HandedInv, NotTooStale, HandedOnce
<1>2. TypeOK /\ CallInv /\ (TypeOK /\ CallInv)' /\ (EntryInv /\ HandedInv) /\ [Next]_vars =>
        (EntryInv /\ HandedInv)'
  BY EntryStep, HandedStep
<1> QED BY <1>1, <1>2, TypeCorrect, PTL DEF Spec

\* A call is never handed a definition of a lookup before the last call's: the k-th hand over
\* is of lookup k - 1 or later.
THEOREM NotTooStaleHolds == Spec => []NotTooStale
<1>1. HandedInv => NotTooStale
  BY DEF HandedInv
<1> QED BY <1>1, EntriesCorrect, PTL

\* No entry reaches two calls, and entries reach calls in the order found.
THEOREM HandedOnceHolds == Spec => []HandedOnce
<1>1. HandedInv => HandedOnce
  BY DEF HandedInv
<1> QED BY <1>1, EntriesCorrect, PTL

-----------------------------------------------------------------------------
(* The Service that the calls share. *)

\* Unless two calls have raced, one call at most is between definition and dial, and the
\* Service says what it has written so far.
DialInv ==
  ~raced =>
    /\ ~strayed
    /\ \A u, v \in Callers : InNs(u) /\ InNs(v) => u = v
    /\ \A u \in Callers : /\ upc[u] \in {"host", "dial"} => ns.port = got[u]
                          /\ upc[u] = "dial" => ns.host = got[u]

\* Every step keeps the Service as the one call that writes it has left it, or notes the race.
LEMMA DialStep ==
  ASSUME TypeOK, DialInv, [Next]_vars
  PROVE  DialInv'
<1>1. /\ upc \in [Callers -> {"idle", "ask", "wait", "port", "host", "dial"}]
      /\ got \in [Callers -> Services \cup {None}]
      /\ ns \in [port : Services \cup {None}, host : Services \cup {None}]
  BY DEF TypeOK
<1>2. CASE UNCHANGED <<raced, strayed, upc, got, ns>>
  BY <1>2 DEF DialInv, InNs
<1>3. ASSUME NEW u \in Callers, Call(u) \/ Ask(u) PROVE DialInv'
  BY <1>1, <1>3 DEF Call, Ask, At, Goto, DialInv, InNs, nsVars
<1>4. ASSUME NEW u \in Callers, Take(u) PROVE DialInv'
  BY <1>1, <1>4 DEF Take, At, Goto, DialInv, InNs
<1>5. ASSUME NEW u \in Callers, SetPort(u) PROVE DialInv'
  BY <1>1, <1>5 DEF SetPort, At, Goto, DialInv, InNs
<1>6. ASSUME NEW u \in Callers, SetHost(u) PROVE DialInv'
  BY <1>1, <1>6 DEF SetHost, At, Goto, DialInv, InNs
<1>7. ASSUME NEW u \in Callers, Dial(u) PROVE DialInv'
  BY <1>1, <1>7 DEF Dial, At, Goto, DialInv, InNs
<1>8. ASSUME NEW u \in Callers, AskPanics(u) \/ TimesOut(u) \/ Refuse(u) PROVE DialInv'
  BY <1>2, <1>8 DEF AskPanics, TimesOut, Refuse, userVars, nsVars
<1>9. CASE Cancel \/ LNext \/ (\E z \in Services : Answer(z)) \/ UNCHANGED vars
  BY <1>2, <1>9 DEF Cancel, LNext, LookupReturns, LEnds, Answer, vars, userVars, nsVars
<1> QED BY <1>3, <1>4, <1>5, <1>6, <1>7, <1>8, <1>9 DEF Next, CallStep

\* A call that was not raced on the shared Service dials the server it was handed, with the port
\* and the host name of the same definition.
THEOREM DialsItsAnswerHolds == Spec => []DialsItsAnswer
<1>1. Init => DialInv
  BY DEF Init, DialInv, InNs
<1>2. DialInv => DialsItsAnswer
  BY DEF DialInv, DialsItsAnswer
<1> QED BY <1>1, <1>2, DialStep, TypeCorrect, PTL DEF Spec
=============================================================================
