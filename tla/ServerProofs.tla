------------------------------ MODULE ServerProofs ------------------------------
(***************************************************************************)
(* What a server of any kind, with any number of clients and of calls of   *)
(* Shutdown, promises of its two connection lists.                         *)
(***************************************************************************)
EXTENDS Server, FilteringProofs, SequenceTheorems

\* The server that runs has a maximum.
LEMMA SettingType ==
  ASSUME TypeOK
  PROVE  Max \in Nat \ {0} /\ setting.clients \subseteq Conns /\ setting.closers \subseteq Closers
BY ServerAssumption DEF TypeOK, ServerSetting, Max

\* What AddStep changes keeps its type.
LEMMA AddTypes ==
  ASSUME TypeOK, NEW c \in Conns, NEW l, NEW m \in {"done", "pushStream", "pushAll"},
         AddStep(c, l, m)
  PROVE  /\ add' \in [Conns -> {"none", "check", "pushStream", "pushAll", "done"}]
         /\ apc' \in {"accept", "count", "handshake", "adding", "done"}
         /\ apc' \in {"count", "handshake", "adding"} => aconn' # None
BY DEF AddStep, TypeOK

\* Reading the back of the stream list gives a member of it and those before it, or nothing.
LEMMA ReadsBack ==
  ASSUME streamList \in Seq(Conns), ReadBack
  PROVE  /\ gLast' = TRUE /\ gBefore' \in Seq(Conns)
         /\ \/ gElem' = None /\ gBefore' = <<>>
            \/ /\ Len(streamList) \in 1..Len(streamList) /\ gElem' = streamList[Len(streamList)]
               /\ Len(gBefore') = Len(streamList) - 1
               /\ \A i \in 1..Len(gBefore') : gBefore'[i] = streamList[i]
<1>1. CASE streamLen = 0 \/ streamList = <<>>
  <2>1. gLast' = TRUE /\ gElem' = None /\ gBefore' = <<>>
    BY <1>1 DEF ReadBack
  <2>2. <<>> \in Seq(Conns)
    OBVIOUS
  <2> QED BY <2>1, <2>2
<1>2. CASE ~(streamLen = 0 \/ streamList = <<>>)
  <2>1. /\ gLast' = TRUE /\ gElem' = streamList[Len(streamList)]
        /\ gBefore' = SubSeq(streamList, 1, Len(streamList) - 1)
    BY <1>2 DEF ReadBack
  <2>2. Len(streamList) \in 1..Len(streamList) /\ Len(streamList) \in Nat
    BY <1>2
  <2>3. /\ gBefore' \in Seq(Conns) /\ Len(gBefore') = Len(streamList) - 1
        /\ \A i \in 1..Len(gBefore') : gBefore'[i] = streamList[i]
    <3> DEFINE front == SubSeq(streamList, 1, Len(streamList) - 1)
    <3>1. /\ front \in Seq(Conns)
          /\ Len(front) = IF 1 <= Len(streamList) - 1 THEN (Len(streamList) - 1) - 1 + 1 ELSE 0
          /\ \A i \in 1..(Len(streamList) - 1) - 1 + 1 : front[i] = streamList[1 + i - 1]
      BY <2>2, SubSeqProperties
    <3>2. Len(streamList) - 1 \in Nat /\ (Len(streamList) - 1) - 1 + 1 = Len(streamList) - 1
      BY <2>2
    <3>3. Len(front) = Len(streamList) - 1
      BY <3>1, <3>2
    <3>4. ASSUME NEW i \in 1..Len(streamList) - 1 PROVE front[i] = streamList[i]
      <4>1. 1 + i - 1 = i /\ i \in 1..(Len(streamList) - 1) - 1 + 1
        BY <3>2
      <4> QED BY <3>1, <4>1
    <3> HIDE DEF front
    <3> QED BY <2>1, <3>1, <3>3, <3>4 DEF front
  <2> QED BY <2>1, <2>2, <2>3
<1> QED BY <1>1, <1>2

\* What a step does to the variables keeps their types.
LEMMA TypeStep ==
  ASSUME TypeOK, [Next]_vars
  PROVE  TypeOK'
<1> USE DEF TypeOK, flags, accVars, streamVars, gVars, downVars
<1>1. ASSUME NEW c \in Conns, Dial(c) \/ Upgrade(c) \/ Refuse(c) \/ SessionEnds(c) PROVE TypeOK'
  <2>1. CASE Dial(c)
    BY <2>1 DEF Dial
  <2>2. CASE Upgrade(c)
    BY <2>2 DEF Upgrade
  <2>3. CASE Refuse(c)
    BY <2>3 DEF Refuse
  <2>4. CASE SessionEnds(c)
    BY <2>4 DEF SessionEnds
  <2> QED BY <1>1, <2>1, <2>2, <2>3, <2>4
<1>2. CASE TempEnds \/ NotAgreed
  BY <1>2, ZenonT(30) DEF TempEnds, NotAgreed
<1>3. CASE Agreed \/ Wrap
  BY <1>3, ZenonT(30) DEF Agreed, Wrap, WrapAndAdd
<1>4. ASSUME NEW c \in Conns, Accept(c) PROVE TypeOK'
  BY <1>4, ServerAssumption DEF Accept, Accepting
<1>5. CASE AcceptFails \/ Full \/ WrapTemp
  BY <1>5 DEF AcceptFails, Full, WrapTemp
<1>6. ASSUME NEW c \in Conns, AddNext(c) PROVE TypeOK'
  <2>1. CASE AddDropped(c) \/ AddChecked(c)
    <3>1. \E l : \E m \in {"done", "pushStream", "pushAll"} : AddStep(c, l, m)
      BY <2>1 DEF AddDropped, AddChecked
    <3> QED BY <2>1, <3>1, AddTypes DEF AddDropped, AddChecked, AddStep
  <2>2. CASE PushStream(c)
    <3>1. AddStep(c, "pushStream", "pushAll") /\ streamList' \in Seq(Conns) /\ streamLen' \in Int
          /\ gLast' \in BOOLEAN
      BY <2>2 DEF PushStream
    <3> QED BY <2>2, <3>1, AddTypes DEF PushStream, AddStep
  <2>3. CASE PushAll(c)
    <3>1. AddStep(c, "pushAll", "done") /\ allList' \in Seq(Conns) /\ added' \subseteq Conns
      BY <2>3 DEF PushAll
    <3> QED BY <2>3, <3>1, AddTypes DEF PushAll, AddStep
  <2> QED BY <1>6, <2>1, <2>2, <2>3 DEF AddNext
<1>7. CASE PNext
  <2>1. CASE PurgeCheck
    BY <2>1 DEF PurgeCheck
  <2>2. CASE Purge
    <3>1. allList' \in Seq(Conns)
      BY <2>2, KeepMembers DEF Purge
    <3> QED BY <2>2, <3>1 DEF Purge
  <2> QED BY <1>7, <2>1, <2>2 DEF PNext
<1>8. ASSUME ReadBack PROVE gElem' \in Conns \cup {None} /\ gBefore' \in Seq(Conns) /\ gLast' = TRUE
  BY <1>8, ReadsBack
<1>9. CASE GNext \/ GetConnections
  <2>1. CASE GCheck
    BY <2>1 DEF GCheck
  <2>2. CASE GRead \/ GetConnections
    BY <1>8, <2>2 DEF GRead, GetConnections
  <2>3. CASE GRemove
    <3>1. streamList' \in Seq(Conns)
      BY <2>3, KeepMembers DEF GRemove
    <3> QED BY <2>3, <3>1 DEF GRemove, InHand
  <2> QED BY <1>9, <2>1, <2>2, <2>3 DEF GNext
<1>10. CASE AppTakes
  BY <1>10 DEF AppTakes
<1>11. ASSUME NEW u \in Closers, Shutdown(u) \/ DownStep(u) PROVE TypeOK'
  <2>1. CASE Shutdown(u)
    BY <2>1 DEF Shutdown, At, Goto
  <2>2. CASE CloseOne(u)
    <3>1. todo[u] \in Seq(Conns) /\ todo[u] # <<>>
      BY <2>2 DEF CloseOne
    <3>2. Head(todo[u]) \in Conns /\ Tail(todo[u]) \in Seq(Conns)
      BY <3>1
    <3> QED BY <2>2, <3>2 DEF CloseOne
  <2>3. CASE ClearStream(u)
    BY <2>3 DEF ClearStream, Goto
  <2>6. CASE ClearAll(u)
    BY <2>6 DEF ClearAll, Goto
  <2>4. CASE CloseListener(u)
    BY <2>4, ZenonT(30) DEF CloseListener, Goto
  <2>5. CASE MarkClosed(u)
    BY <2>5 DEF MarkClosed, Goto
  <2>7. CASE ShutdownPanics(u)
    BY <2>7 DEF ShutdownPanics
  <2> QED BY <1>11, <2>1, <2>2, <2>3, <2>4, <2>5, <2>6, <2>7 DEF DownStep
<1>12. CASE UNCHANGED vars
  BY <1>12 DEF vars
<1> QED BY <1>1, <1>2, <1>3, <1>4, <1>5, <1>6, <1>7, <1>9, <1>10, <1>11, <1>12
        DEF Next, Client, ANext

\* Goroutines, lists and handles of a server of any kind stay of their kinds.
THEOREM TypeCorrect == Spec => []TypeOK
<1>1. ASSUME Init PROVE TypeOK
  <2>1. apc \in {"accept", "done"}
    BY <1>1 DEF Init
  <2>2. <<>> \in Seq(Conns) /\ 0 \in Int
    OBVIOUS
  <2>3. /\ setting \in Settings /\ conn = [c \in Conns |-> "none"]
        /\ listening = TRUE /\ closed = FALSE /\ crashed = FALSE
        /\ aconn = None /\ add = [c \in Conns |-> "none"] /\ allList = <<>>
        /\ streamList = <<>> /\ streamLen = 0 /\ ppc = "check"
        /\ gpc = "off" /\ gElem = None /\ gBefore = <<>> /\ gLast = TRUE
        /\ streamed = <<>> /\ added = {}
        /\ spc = [u \in Closers |-> "idle"] /\ todo = [u \in Closers |-> <<>>]
    BY <1>1 DEF Init
  <2> QED BY <2>1, <2>2, <2>3 DEF TypeOK
<1> QED BY <1>1, TypeStep, PTL DEF Spec

-----------------------------------------------------------------------------
(* The maximum. *)

\* The list of all connections stays below the maximum while the one accept loop of a TCP
\* server has a connection that it has counted and not yet pushed.
CountInv ==
  kind # "ws" =>
    /\ Len(allList) <= Max
    /\ apc \in {"handshake", "adding"} => Len(allList) < Max
    /\ \A c \in Conns : add[c] \in {"check", "pushStream", "pushAll"} => apc = "adding" /\ c = aconn

\* Every step keeps the count: only the push adds, and only what the loop has counted.
LEMMA CountStep ==
  ASSUME TypeOK, CountInv, [Next]_vars
  PROVE  CountInv'
<1> SUFFICES ASSUME kind' # "ws"
             PROVE  /\ Len(allList') <= Max'
                    /\ apc' \in {"handshake", "adding"} => Len(allList') < Max'
                    /\ \A c \in Conns : add'[c] \in {"check", "pushStream", "pushAll"} =>
                                         apc' = "adding" /\ c = aconn'
  BY DEF CountInv
<1>1. setting' = setting
  BY DEF Next, vars, Client, AddNext, ANext, PNext, GNext, DownStep, flags,
         Dial, Upgrade, Refuse, SessionEnds, TempEnds, Agreed, NotAgreed, WrapAndAdd,
         AddDropped, AddChecked, PushStream, PushAll, AddStep, Accept, Accepting, AcceptFails, Full,
         Wrap, WrapTemp, PurgeCheck, Purge, GCheck, GRead, GRemove, InHand, GetConnections, AppTakes,
         Shutdown, CloseOne, ClearStream, ClearAll, CloseListener, MarkClosed, ShutdownPanics
<1>2. /\ kind # "ws" /\ Max' = Max /\ Max \in Nat \ {0} /\ Len(allList) \in Nat
      /\ allList \in Seq(Conns) /\ add \in [Conns -> {"none", "check", "pushStream", "pushAll", "done"}]
  BY <1>1, SettingType DEF kind, Max, TypeOK
<1>3. /\ Len(allList) <= Max
      /\ apc \in {"handshake", "adding"} => Len(allList) < Max
      /\ \A c \in Conns : add[c] \in {"check", "pushStream", "pushAll"} => apc = "adding" /\ c = aconn
  BY <1>2 DEF CountInv
<1>4. ASSUME UNCHANGED accVars, Len(allList') \in Nat, Len(allList') <= Len(allList)
      PROVE  /\ Len(allList') <= Max'
             /\ apc' \in {"handshake", "adding"} => Len(allList') < Max'
             /\ \A c \in Conns : add'[c] \in {"check", "pushStream", "pushAll"} =>
                                  apc' = "adding" /\ c = aconn'
  BY <1>2, <1>3, <1>4 DEF accVars
<1>5. CASE Client
  <2>1. ASSUME NEW c \in Conns, Dial(c) \/ Refuse(c) \/ SessionEnds(c)
        PROVE  UNCHANGED <<accVars, allList>>
    BY <2>1 DEF Dial, Refuse, SessionEnds
  <2>2. CASE TempEnds
    BY <1>2, <1>4, <2>2 DEF TempEnds
  <2>3. CASE Agreed
    BY <1>2, <1>3, <2>3 DEF Agreed, WrapAndAdd
  <2>4. CASE NotAgreed
    BY <1>2, <1>3, <2>4 DEF NotAgreed
  <2> QED BY <1>2, <1>4, <1>5, <2>1, <2>2, <2>3, <2>4 DEF Client, Upgrade
<1>6. CASE ANext
  <2>1. ASSUME NEW c \in Conns, Accept(c)
        PROVE  /\ apc = "accept" /\ apc' = "count" /\ UNCHANGED <<add, allList>>
    BY <2>1 DEF Accept, Accepting
  <2>2. CASE AcceptFails \/ Full
    BY <1>2, <1>3, <2>2 DEF AcceptFails, Full
  <2>3. CASE Wrap
    BY <1>2, <1>3, <2>3 DEF Wrap, WrapAndAdd
  <2>4. CASE WrapTemp
    BY <1>2, <1>3, <2>4 DEF WrapTemp
  <2> QED BY <1>2, <1>3, <1>6, <2>1, <2>2, <2>3, <2>4 DEF ANext
<1>7. ASSUME NEW c \in Conns, AddNext(c)
      PROVE  /\ Len(allList') <= Max'
             /\ apc' \in {"handshake", "adding"} => Len(allList') < Max'
             /\ \A d \in Conns : add'[d] \in {"check", "pushStream", "pushAll"} =>
                                  apc' = "adding" /\ d = aconn'
  <2>1. CASE AddDropped(c) \/ AddChecked(c) \/ PushStream(c)
    <3>1. allList' = allList /\ \E l \in {"check", "pushStream"} :
            \E m \in {"done", "pushStream", "pushAll"} : AddStep(c, l, m)
      BY <2>1 DEF AddDropped, AddChecked, PushStream
    <3> QED BY <1>2, <1>3, <3>1 DEF AddStep
  <2>2. CASE PushAll(c)
    <3>1. Len(allList') = Len(allList) + 1
      BY <1>2, <2>2 DEF PushAll
    <3> QED BY <1>2, <1>3, <2>2, <3>1 DEF PushAll, AddStep
  <2> QED BY <1>7, <2>1, <2>2 DEF AddNext
<1>8. CASE PNext
  <2>1. CASE PurgeCheck
    BY <1>2, <1>4, <2>1 DEF PurgeCheck
  <2>2. CASE Purge
    <3>1. allList' \in Seq(Conns) /\ Len(allList') <= Len(allList)
      BY <1>2, <2>2, KeepMembers DEF Purge
    <3> QED BY <1>4, <2>2, <3>1 DEF Purge
  <2> QED BY <1>8, <2>1, <2>2 DEF PNext
<1>9. CASE GNext \/ GetConnections \/ AppTakes
  BY <1>2, <1>4, <1>9 DEF GNext, GCheck, GRead, GRemove, InHand, GetConnections, AppTakes
<1>10. ASSUME NEW u \in Closers, Shutdown(u) \/ DownStep(u)
       PROVE  UNCHANGED accVars /\ Len(allList') \in Nat /\ Len(allList') <= Len(allList)
  <2>1. CASE ClearAll(u)
    BY <1>2, <2>1 DEF ClearAll
  <2> QED BY <1>2, <1>10, <2>1 DEF DownStep, Shutdown, CloseOne, ClearStream, CloseListener, MarkClosed,
                         ShutdownPanics
<1>11. CASE UNCHANGED vars
  BY <1>2, <1>4, <1>11 DEF vars
<1> QED BY <1>4, <1>5, <1>6, <1>7, <1>8, <1>9, <1>10, <1>11 DEF Next

\* Whatever the purge removes and the other lists do meanwhile, the connection that the one
\* accept loop has counted is the only one to come, so a TCP server never holds too many.
THEOREM CountHolds == Spec => []CountBounded
<1>1. Init => CountInv
  <2> SUFFICES ASSUME Init PROVE CountInv
    OBVIOUS
  <2>1. Max \in Nat \ {0}
    BY ServerAssumption DEF Init, ServerSetting, Max
  <2> QED BY <2>1 DEF Init, CountInv
<1>2. CountInv => CountBounded
  BY DEF CountInv, CountBounded
<1> QED BY <1>1, <1>2, CountStep, TypeCorrect, PTL DEF Spec

-----------------------------------------------------------------------------
(* The list of all connections. *)

\* A connection is added once, after it was wrapped, and wrapped once.
AddInv ==
  /\ \A c \in Conns : conn[c] \in {"none", "dialed", "refused"} => add[c] = "none"
  /\ apc \in {"count", "handshake"} => add[aconn] = "none" /\ conn[aconn] \in {"raw", "closed"}
  /\ \A c \in added : add[c] = "done"

\* Every step keeps a connection from being added twice or before it was wrapped.
LEMMA AddInvStep ==
  ASSUME TypeOK, AddInv, [Next]_vars
  PROVE  AddInv'
<1>1. /\ conn \in [Conns -> {"none", "dialed", "refused", "raw", "open", "closed"}]
      /\ add \in [Conns -> {"none", "check", "pushStream", "pushAll", "done"}]
      /\ apc \in {"count", "handshake"} => aconn \in Conns
      /\ \A u \in Closers : todo[u] \in Seq(Conns)
  BY DEF TypeOK
<1>2. CASE UNCHANGED <<conn, accVars, added>>
  BY <1>2 DEF AddInv, accVars
<1>3. ASSUME NEW c \in Conns, Dial(c) \/ Upgrade(c) \/ Refuse(c) PROVE AddInv'
  <2>1. conn[c] = "dialed" \/ conn'[c] = "dialed"
    BY <1>1, <1>3 DEF Dial, Upgrade, Refuse
  <2>2. CASE Dial(c)
    BY <1>1, <2>2 DEF Dial, AddInv, accVars
  <2>3. CASE Upgrade(c)
    BY <1>1, <2>3 DEF Upgrade, AddInv
  <2>4. CASE Refuse(c)
    BY <1>1, <2>4 DEF Refuse, AddInv, accVars
  <2> QED BY <1>3, <2>2, <2>3, <2>4
<1>4. ASSUME NEW c \in Conns, conn' = [conn EXCEPT ![c] = "closed"], UNCHANGED <<accVars, added>>
      PROVE  AddInv'
  BY <1>1, <1>4 DEF AddInv, accVars
<1>5. CASE Client
  <2>1. ASSUME NEW c \in Conns, SessionEnds(c) PROVE AddInv'
    BY <1>4, <2>1 DEF SessionEnds
  <2>2. CASE TempEnds
    BY <1>1, <1>4, <2>2 DEF TempEnds
  <2>3. CASE Agreed
    BY <1>1, <2>3 DEF Agreed, WrapAndAdd, AddInv
  <2>4. CASE NotAgreed
    BY <2>4 DEF NotAgreed, AddInv
  <2> QED BY <1>3, <1>5, <2>1, <2>2, <2>3, <2>4 DEF Client
<1>6. CASE ANext
  <2>1. ASSUME NEW c \in Conns, Accept(c) PROVE AddInv'
    BY <1>1, <2>1 DEF Accept, Accepting, AddInv
  <2>2. CASE AcceptFails \/ Full
    BY <2>2 DEF AcceptFails, Full, AddInv
  <2>3. CASE Wrap
    BY <1>1, <2>3 DEF Wrap, WrapAndAdd, AddInv
  <2>4. CASE WrapTemp
    BY <2>4 DEF WrapTemp, AddInv
  <2> QED BY <1>6, <2>1, <2>2, <2>3, <2>4 DEF ANext
<1>7. ASSUME NEW c \in Conns, AddNext(c) PROVE AddInv'
  <2>1. /\ add[c] # "none" /\ add[c] # "done"
        /\ \E m \in {"done", "pushStream", "pushAll"} : add' = [add EXCEPT ![c] = m]
        /\ apc' \in {apc, "accept"} /\ UNCHANGED <<conn, aconn>>
    BY <1>7 DEF AddNext, AddDropped, AddChecked, PushStream, PushAll, AddStep
  <2>2. added' = added \/ (added' = added \cup {c} /\ add'[c] = "done")
    BY <1>1, <1>7 DEF AddNext, AddDropped, AddChecked, PushStream, PushAll, AddStep
  <2> QED BY <1>1, <2>1, <2>2 DEF AddInv
<1>8. CASE PNext \/ GNext \/ GetConnections \/ AppTakes
  BY <1>2, <1>8 DEF PNext, PurgeCheck, Purge, GNext, GCheck, GRead, GRemove, InHand,
                    GetConnections, AppTakes
<1>9. ASSUME NEW u \in Closers, Shutdown(u) \/ DownStep(u) PROVE AddInv'
  <2>1. CASE CloseOne(u)
    <3>1. Head(todo[u]) \in Conns
      BY <1>1, <2>1 DEF CloseOne
    <3> QED BY <1>4, <2>1, <3>1 DEF CloseOne
  <2>2. CASE CloseListener(u)
    BY <1>1, <2>2 DEF CloseListener, AddInv, accVars
  <2>3. CASE Shutdown(u) \/ ClearStream(u) \/ ClearAll(u) \/ MarkClosed(u) \/ ShutdownPanics(u)
    BY <1>2, <2>3 DEF Shutdown, ClearStream, ClearAll, MarkClosed, ShutdownPanics, flags
  <2> QED BY <1>9, <2>1, <2>2, <2>3 DEF DownStep
<1>10. CASE UNCHANGED vars
  BY <1>2, <1>10 DEF vars
<1> QED BY <1>5, <1>6, <1>7, <1>8, <1>9, <1>10 DEF Next

\* Every step of a server that runs keeps an added session that is open in the list.
LEMMA ListedStep ==
  ASSUME TypeOK, AddInv, OpenStaysListed, [Next]_vars
  PROVE  OpenStaysListed'
<1> SUFFICES ASSUME Running', NEW c \in Conns, c \in added', conn'[c] = "open"
             PROVE  \E i \in 1..Len(allList') : allList'[i] = c
  <2>1. added' \subseteq Conns
    BY TypeStep DEF TypeOK
  <2> QED BY <2>1 DEF OpenStaysListed, IsOpen, Elems
<1>1. /\ conn \in [Conns -> {"none", "dialed", "refused", "raw", "open", "closed"}]
      /\ add \in [Conns -> {"none", "check", "pushStream", "pushAll", "done"}]
      /\ allList \in Seq(Conns) /\ added \subseteq Conns
      /\ spc \in [Closers -> {"idle", "closing", "clearAll", "listener", "mark", "returned"}]
      /\ apc \in {"count", "handshake"} => aconn \in Conns
  BY DEF TypeOK
<1>2. ASSUME Running, c \in added, conn[c] = "open" PROVE \E i \in 1..Len(allList) : allList[i] = c
  BY <1>2 DEF OpenStaysListed, IsOpen, Elems
<1>3. CASE Running /\ c \in added /\ conn[c] = "open" /\ allList' = allList
  BY <1>2, <1>3
<1>4. CASE Client
  <2>1. allList' = allList /\ UNCHANGED <<added, downVars>>
    BY <1>4 DEF Client, Dial, Upgrade, Refuse, SessionEnds, TempEnds, Agreed, NotAgreed, WrapAndAdd
  <2>2. c \in added /\ add[c] = "done"
    BY <2>1 DEF AddInv
  <2>3. conn[c] = "open"
    BY <1>1, <1>4, <2>2 DEF Client, Dial, Upgrade, Refuse, SessionEnds, TempEnds, Agreed, NotAgreed,
                            WrapAndAdd, AddInv
  <2> QED BY <1>3, <2>1, <2>2, <2>3 DEF Running, downVars
<1>5. CASE ANext
  <2>1. allList' = allList /\ UNCHANGED <<added, downVars>>
    BY <1>5 DEF ANext, Accept, Accepting, AcceptFails, Full, Wrap, WrapTemp, WrapAndAdd
  <2>2. c \in added /\ add[c] = "done"
    BY <2>1 DEF AddInv
  <2>3. conn[c] = "open"
    BY <1>1, <1>5, <2>2 DEF ANext, Accept, Accepting, AcceptFails, Full, Wrap, WrapTemp, WrapAndAdd,
                            AddInv
  <2> QED BY <1>3, <2>1, <2>2, <2>3 DEF Running, downVars
<1>6. ASSUME NEW d \in Conns, AddNext(d) PROVE \E i \in 1..Len(allList') : allList'[i] = c
  <2>1. UNCHANGED <<conn, downVars>>
    BY <1>6 DEF AddNext, AddDropped, AddChecked, PushStream, PushAll, AddStep
  <2>2. CASE PushAll(d)
    <3>1. allList' = Append(allList, d) /\ added' = added \cup {d}
      BY <2>2 DEF PushAll
    <3>2. /\ Len(allList) \in Nat /\ Len(allList') = Len(allList) + 1
          /\ allList'[Len(allList) + 1] = d
          /\ \A i \in 1..Len(allList) : allList'[i] = allList[i]
      BY <1>1, <3>1, Appends
    <3>3. CASE c = d
      BY <3>2, <3>3
    <3>4. CASE c # d
      <4>1. PICK i \in 1..Len(allList) : allList[i] = c
        BY <1>2, <2>1, <3>1, <3>4 DEF Running, downVars
      <4> QED BY <3>2, <4>1
    <3> QED BY <3>3, <3>4
  <2>3. CASE ~PushAll(d)
    <3>1. UNCHANGED <<allList, added>>
      BY <1>6, <2>3 DEF AddNext, AddDropped, AddChecked, PushStream
    <3> QED BY <1>3, <2>1, <3>1 DEF Running, downVars
  <2> QED BY <2>2, <2>3
<1>7. CASE Purge
  <2>1. Running /\ c \in added /\ conn[c] = "open"
    BY <1>7 DEF Purge, downVars, Running
  <2>2. PICK i \in 1..Len(allList) : allList[i] = c
    BY <1>2, <2>1
  <2> DEFINE T == {d \in Conns : IsOpen(d)}
  <2>3. allList[i] \in T /\ allList' = Keep(allList, T)
    BY <1>7, <2>1, <2>2 DEF IsOpen, Purge
  <2> HIDE DEF T
  <2> QED BY <1>1, <2>2, <2>3, KeepMembers, SMTT(30)
<1>8. CASE PurgeCheck \/ GNext \/ GetConnections \/ AppTakes
  BY <1>3, <1>8 DEF PurgeCheck, GNext, GCheck, GRead, GRemove, InHand, GetConnections, AppTakes,
                    Running, downVars
<1>9. ASSUME NEW u \in Closers, Shutdown(u) \/ DownStep(u) PROVE FALSE
  BY <1>1, <1>9 DEF DownStep, Shutdown, CloseOne, ClearStream, ClearAll, CloseListener, MarkClosed,
                    ShutdownPanics, At, Goto, Running, downVars
<1>10. CASE UNCHANGED vars
  BY <1>3, <1>10 DEF vars, Running, downVars
<1> QED BY <1>4, <1>5, <1>6, <1>7, <1>8, <1>9, <1>10 DEF Next, PNext

\* An added session that is open was wrapped before it was pushed and stays in the list through
\* every purge, whatever other sessions open and close meanwhile, until Shutdown is called.
THEOREM ListedHolds == Spec => []OpenStaysListed
<1>1. Init => AddInv /\ OpenStaysListed
  BY DEF Init, AddInv, OpenStaysListed
<1>2. TypeOK /\ AddInv /\ OpenStaysListed /\ [Next]_vars => (AddInv /\ OpenStaysListed)'
  BY AddInvStep, ListedStep
<1> QED BY <1>1, <1>2, TypeCorrect, PTL DEF Spec

-----------------------------------------------------------------------------
(* The stream of GetConnections. *)

Has(l, c) == \E i \in 1..Len(l) : l[i] = c
Once(l)   == \A i, j \in 1..Len(l) : i # j => l[i] # l[j]

\* What was handed over is apart from all that may still be: the list, G's element, and those
\* that preceded it in the list it was read from, which a relinking brings back.  A connection
\* is in none of them before it is pushed.
HandOverInv ==
  /\ Once(streamed) /\ Once(streamList) /\ Once(gBefore)
  /\ \A c \in Conns :
       /\ Has(streamed, c) => ~Has(streamList, c) /\ ~Has(gBefore, c) /\ gElem # c
       /\ Has(gBefore, c) => gElem # c
       /\ gpc = "hand" /\ gElem = c => ~Has(streamList, c)
       /\ add[c] \in {"none", "check", "pushStream"} =>
            ~Has(streamed, c) /\ ~Has(streamList, c) /\ ~Has(gBefore, c) /\ gElem # c

\* While the server runs, G's element stays in the list until G removes it, so that nothing is
\* relinked, and what was pushed is in the list, in G's hand or handed over.
StreamInv ==
  /\ gpc = "off" => gElem = None
  /\ Running /\ gElem # None /\ gpc # "hand" => Has(streamList, gElem)
  /\ Running => \A c \in Conns : add[c] = "pushAll" \/ c \in added =>
       Has(streamList, c) \/ Has(streamed, c) \/ c = gElem

\* Appending a new member keeps the members apart.
LEMMA AppendHas ==
  ASSUME NEW l \in Seq(Conns), NEW c \in Conns
  PROVE  /\ \A d : Has(Append(l, c), d) <=> Has(l, d) \/ d = c
         /\ Once(l) /\ ~Has(l, c) => Once(Append(l, c))
<1>1. /\ Len(l) \in Nat /\ Len(Append(l, c)) = Len(l) + 1 /\ Append(l, c)[Len(l) + 1] = c
      /\ \A i \in 1..Len(l) : Append(l, c)[i] = l[i]
  BY Appends
<1> DEFINE m == Append(l, c)
<1> HIDE DEF m
<1>2. ASSUME NEW d PROVE Has(m, d) <=> Has(l, d) \/ d = c
  <2>1. ASSUME Has(m, d) PROVE Has(l, d) \/ d = c
    <3>1. PICK i \in 1..Len(m) : m[i] = d
      BY <2>1 DEF Has
    <3>2. i = Len(l) + 1 \/ i \in 1..Len(l)
      BY <1>1 DEF m
    <3> QED BY <1>1, <3>1, <3>2 DEF Has, m
  <2>2. ASSUME Has(l, d) PROVE Has(m, d)
    <3>1. PICK i \in 1..Len(l) : l[i] = d
      BY <2>2 DEF Has
    <3>2. i \in 1..Len(m) /\ m[i] = d
      BY <1>1, <3>1 DEF m
    <3> QED BY <3>2 DEF Has
  <2>3. ASSUME d = c PROVE Has(m, d)
    <3>1. Len(l) + 1 \in 1..Len(m) /\ m[Len(l) + 1] = d
      BY <1>1, <2>3 DEF m
    <3> QED BY <3>1 DEF Has
  <2> QED BY <2>1, <2>2, <2>3
<1>3. ASSUME Once(l), ~Has(l, c), NEW i \in 1..Len(m), NEW j \in 1..Len(m), i # j
      PROVE  m[i] # m[j]
  <2>1. CASE i = Len(l) + 1
    <3>1. j \in 1..Len(l) /\ m[i] = c /\ m[j] = l[j]
      BY <1>1, <1>3, <2>1 DEF m
    <3> QED BY <1>3, <3>1 DEF Has
  <2>2. CASE j = Len(l) + 1
    <3>1. i \in 1..Len(l) /\ m[j] = c /\ m[i] = l[i]
      BY <1>1, <1>3, <2>2 DEF m
    <3> QED BY <1>3, <3>1 DEF Has
  <2>3. CASE i # Len(l) + 1 /\ j # Len(l) + 1
    <3>1. i \in 1..Len(l) /\ j \in 1..Len(l) /\ m[i] = l[i] /\ m[j] = l[j]
      BY <1>1, <2>3 DEF m
    <3> QED BY <1>3, <3>1 DEF Once
  <2> QED BY <2>1, <2>2, <2>3
<1> QED BY <1>2, <1>3 DEF Once, m

\* Keeping some members.
LEMMA KeepHas ==
  ASSUME NEW l \in Seq(Conns), NEW T
  PROVE  /\ \A d : Has(Keep(l, T), d) <=> Has(l, d) /\ d \in T
         /\ Once(l) => Once(Keep(l, T))
<1>1. Once(l) => Once(Keep(l, T))
  BY KeepOnce DEF Once
<1>2. ASSUME NEW d, Has(l, d), d \in T PROVE Has(Keep(l, T), d)
  <2>1. PICK j \in 1..Len(l) : l[j] = d
    BY <1>2 DEF Has
  <2>2. \E i \in 1..Len(Keep(l, T)) : Keep(l, T)[i] = l[j]
    BY <1>2, <2>1, KeepMembers
  <2> QED BY <2>1, <2>2 DEF Has
<1>3. ASSUME NEW d, Has(Keep(l, T), d) PROVE Has(l, d) /\ d \in T
  <2>1. PICK i \in 1..Len(Keep(l, T)) : Keep(l, T)[i] = d
    BY <1>3 DEF Has
  <2>2. Keep(l, T)[i] \in T /\ \E j \in 1..Len(l) : l[j] = Keep(l, T)[i]
    BY KeepMembers
  <2> QED BY <2>1, <2>2 DEF Has
<1> QED BY <1>1, <1>2, <1>3

\* Nothing is in an empty list.
LEMMA EmptyHas == Once(<<>>) /\ \A d : ~Has(<<>>, d)
BY DEF Once, Has

\* G reads the last of the list and what precedes it.
LEMMA ReadHas ==
  ASSUME streamList \in Seq(Conns), Once(streamList), ReadBack, None \notin Conns
  PROVE  /\ Once(gBefore') /\ ~Has(gBefore', gElem')
         /\ gElem' # None => Has(streamList, gElem')
         /\ \A d : Has(gBefore', d) => Has(streamList, d)
<1>1. CASE gElem' = None /\ gBefore' = <<>>
  BY <1>1, EmptyHas
<1>2. CASE /\ Len(streamList) \in 1..Len(streamList) /\ gElem' = streamList[Len(streamList)]
           /\ Len(gBefore') = Len(streamList) - 1
           /\ \A i \in 1..Len(gBefore') : gBefore'[i] = streamList[i]
  <2>1. Len(streamList) \in Nat
    OBVIOUS
  <2>2. \A i \in 1..Len(gBefore') : i \in 1..Len(streamList) /\ i # Len(streamList)
    BY <1>2, <2>1
  <2>3. Once(gBefore') /\ ~Has(gBefore', gElem')
    BY <1>2, <2>2 DEF Once, Has
  <2>4. \A d : Has(gBefore', d) => Has(streamList, d)
    BY <1>2, <2>2 DEF Has
  <2>5. Has(streamList, gElem')
    BY <1>2 DEF Has
  <2> QED BY <2>3, <2>4, <2>5
<1> QED BY <1>1, <1>2, ReadsBack

\* No step makes what was handed over, or is in hand, reachable again.
LEMMA HandOverStep ==
  ASSUME TypeOK, AddInv, HandOverInv, [Next]_vars
  PROVE  HandOverInv'
<1>1. /\ conn \in [Conns -> {"none", "dialed", "refused", "raw", "open", "closed"}]
      /\ add \in [Conns -> {"none", "check", "pushStream", "pushAll", "done"}]
      /\ streamList \in Seq(Conns) /\ gBefore \in Seq(Conns) /\ streamed \in Seq(Conns)
      /\ gElem \in Conns \cup {None} /\ None \notin Conns
      /\ (gpc = "hand" => gElem # None) /\ (apc \in {"count", "handshake"} => aconn \in Conns)
  BY ServerAssumption DEF TypeOK
<1>2. ASSUME UNCHANGED <<streamList, gElem, gBefore, streamed>>, gpc' = "hand" => gpc = "hand",
             \A c \in Conns : add'[c] \in {"none", "check", "pushStream"} =>
                              add[c] \in {"none", "check", "pushStream"}
      PROVE  HandOverInv'
  BY <1>2 DEF HandOverInv, Once, Has
<1>3. CASE Client
  <2>1. ASSUME NEW c \in Conns, Dial(c) \/ Refuse(c) \/ SessionEnds(c) PROVE HandOverInv'
    BY <1>2, <2>1 DEF Dial, Refuse, SessionEnds, accVars, streamVars, gVars
  <2>2. ASSUME NEW c \in Conns, Upgrade(c) PROVE HandOverInv'
    <3>1. add[c] = "none"
      BY <2>2 DEF Upgrade, AddInv
    <3> QED BY <1>1, <1>2, <2>2, <3>1 DEF Upgrade, streamVars, gVars
  <2>3. CASE TempEnds \/ NotAgreed
    BY <1>2, <2>3 DEF TempEnds, NotAgreed, accVars, streamVars, gVars
  <2>4. CASE Agreed
    <3>1. add[aconn] = "none"
      BY <2>4 DEF Agreed, AddInv
    <3> QED BY <1>1, <1>2, <2>4, <3>1 DEF Agreed, WrapAndAdd, streamVars, gVars
  <2> QED BY <1>3, <2>1, <2>2, <2>3, <2>4 DEF Client
<1>4. CASE ANext
  <2>1. CASE Wrap
    <3>1. add[aconn] = "none"
      BY <2>1 DEF Wrap, AddInv
    <3> QED BY <1>1, <1>2, <2>1, <3>1 DEF Wrap, WrapAndAdd, streamVars, gVars
  <2> QED BY <1>2, <1>4, <2>1 DEF ANext, Accept, Accepting, AcceptFails, Full, WrapTemp, accVars,
                                  streamVars, gVars
<1>5. ASSUME NEW c \in Conns, AddNext(c) PROVE HandOverInv'
  <2>1. CASE AddDropped(c) \/ AddChecked(c) \/ PushAll(c)
    BY <1>1, <1>2, <2>1 DEF AddDropped, AddChecked, PushAll, AddStep, streamVars, gVars
  <2>2. CASE PushStream(c)
    <3>1. /\ add[c] = "pushStream" /\ add' = [add EXCEPT ![c] = "pushAll"]
          /\ streamList' = Append(streamList, c) /\ UNCHANGED <<gpc, gElem, gBefore, streamed>>
      BY <2>2 DEF PushStream, AddStep
    <3>2. ~Has(streamed, c) /\ ~Has(streamList, c) /\ ~Has(gBefore, c) /\ gElem # c
      BY <3>1 DEF HandOverInv
    <3>3. Once(streamList') /\ \A d : Has(streamList', d) <=> Has(streamList, d) \/ d = c
      BY <1>1, <3>1, <3>2, AppendHas DEF HandOverInv
    <3>4. \A d \in Conns : add'[d] \in {"none", "check", "pushStream"} =>
                             d # c /\ add[d] \in {"none", "check", "pushStream"}
      BY <1>1, <3>1
    <3> HIDE DEF Has, Once
    <3> QED BY <3>1, <3>2, <3>3, <3>4 DEF HandOverInv
  <2> QED BY <1>5, <2>1, <2>2 DEF AddNext
<1>6. CASE PNext \/ GCheck
  BY <1>2, <1>6 DEF PNext, PurgeCheck, Purge, GCheck, accVars, streamVars, gVars
<1>7. CASE GRead \/ GetConnections
  <2>1. ReadBack /\ gpc' # "hand" /\ UNCHANGED <<streamList, streamed, add>>
    BY <1>7 DEF GRead, GetConnections, streamVars, accVars
  <2>2. /\ Once(gBefore') /\ ~Has(gBefore', gElem')
        /\ gElem' # None => Has(streamList, gElem')
        /\ \A d : Has(gBefore', d) => Has(streamList, d)
    BY <1>1, <2>1, ReadHas DEF HandOverInv
  <2> QED BY <1>1, <2>1, <2>2 DEF HandOverInv
<1>8. CASE GRemove
  <2>1. /\ gElem \in Conns /\ gpc' = "hand" /\ UNCHANGED <<gElem, gBefore, streamed, add>>
        /\ \/ streamList' = Keep(streamList, Conns \ {gElem})
           \/ ~Has(streamList, gElem) /\ streamList' \in {gBefore, streamList}
    BY <1>1, <1>8 DEF GRemove, InHand, accVars, Elems, Has
  <2>2. CASE streamList' = Keep(streamList, Conns \ {gElem})
    <3>1. /\ \A d : Has(streamList', d) <=> Has(streamList, d) /\ d \in Conns \ {gElem}
          /\ Once(streamList')
      BY <1>1, <2>2, KeepHas DEF HandOverInv
    <3> QED BY <2>1, <3>1 DEF HandOverInv
  <2>3. CASE ~Has(streamList, gElem) /\ streamList' = streamList
    BY <2>1, <2>3 DEF HandOverInv
  <2>4. CASE streamList' = gBefore
    BY <2>1, <2>4 DEF HandOverInv
  <2> QED BY <2>1, <2>2, <2>3, <2>4
<1>9. CASE AppTakes
  <2>1. /\ gElem \in Conns /\ gpc = "hand" /\ streamed' = Append(streamed, gElem) /\ gElem' = None
        /\ gpc' = "loop" /\ gBefore' = <<>> /\ UNCHANGED <<streamList, add>>
    BY <1>1, <1>9 DEF AppTakes, accVars, streamVars
  <2>2. /\ ~Has(streamed, gElem) /\ ~Has(streamList, gElem)
        /\ add[gElem] \notin {"none", "check", "pushStream"}
    BY <2>1 DEF HandOverInv
  <2>3. Once(streamed') /\ \A d : Has(streamed', d) <=> Has(streamed, d) \/ d = gElem
    BY <1>1, <2>1, <2>2, AppendHas DEF HandOverInv
  <2>4. Once(gBefore') /\ \A d : ~Has(gBefore', d)
    BY <2>1, EmptyHas
  <2> QED BY <1>1, <2>1, <2>2, <2>3, <2>4 DEF HandOverInv
<1>10. ASSUME NEW u \in Closers, Shutdown(u) \/ DownStep(u) PROVE HandOverInv'
  <2>1. CASE ClearStream(u)
    <3>1. Once(streamList') /\ \A d : ~Has(streamList', d)
      BY <2>1, EmptyHas DEF ClearStream
    <3> QED BY <2>1, <3>1 DEF ClearStream, HandOverInv, gVars, accVars
  <2> QED BY <1>2, <1>10, <2>1 DEF DownStep, Shutdown, CloseOne, ClearAll, CloseListener, MarkClosed,
                                   ShutdownPanics, accVars, streamVars, gVars
<1>11. CASE UNCHANGED vars
  BY <1>2, <1>11 DEF vars, accVars, streamVars, gVars
<1> QED BY <1>3, <1>4, <1>5, <1>6, <1>7, <1>8, <1>9, <1>10, <1>11 DEF Next, GNext

\* Every step of a server that runs keeps what was pushed in the stream or beyond it.
LEMMA StreamStep ==
  ASSUME TypeOK, AddInv, HandOverInv, StreamInv, [Next]_vars
  PROVE  StreamInv'
<1>1. /\ add \in [Conns -> {"none", "check", "pushStream", "pushAll", "done"}]
      /\ streamList \in Seq(Conns) /\ streamed \in Seq(Conns)
      /\ gElem \in Conns \cup {None} /\ None \notin Conns
      /\ (gpc = "hand" => gElem # None) /\ (apc \in {"count", "handshake"} => aconn \in Conns)
      /\ spc \in [Closers -> {"idle", "closing", "clearAll", "listener", "mark", "returned"}]
  BY ServerAssumption DEF TypeOK
<1>2. ASSUME UNCHANGED <<streamList, gElem, streamed>>, gpc' = gpc, Running' => Running,
             \A c \in Conns : add'[c] = "pushAll" \/ c \in added' => add[c] = "pushAll" \/ c \in added
      PROVE  StreamInv'
  BY <1>2 DEF StreamInv, Has
<1>3. CASE Client \/ ANext
  <2>1. /\ UNCHANGED <<streamVars, gVars, added, downVars>>
        /\ \A c \in Conns : add'[c] = "pushAll" => add[c] = "pushAll"
    BY <1>1, <1>3 DEF Client, Dial, Upgrade, Refuse, SessionEnds, TempEnds, Agreed, NotAgreed,
                      WrapAndAdd, ANext, Accept, Accepting, AcceptFails, Full, Wrap, WrapTemp, accVars
  <2> QED BY <1>2, <2>1 DEF streamVars, gVars, downVars, Running
<1>4. ASSUME NEW c \in Conns, AddNext(c) PROVE StreamInv'
  <2>1. CASE AddDropped(c) \/ AddChecked(c) \/ PushAll(c)
    BY <1>1, <1>2, <2>1 DEF AddDropped, AddChecked, PushAll, AddStep, streamVars, gVars, downVars, Running
  <2>2. CASE PushStream(c)
    <3>1. /\ add' = [add EXCEPT ![c] = "pushAll"] /\ streamList' = Append(streamList, c)
          /\ UNCHANGED <<gpc, gElem, streamed, added, spc>>
      BY <2>2 DEF PushStream, AddStep, downVars
    <3>2. \A d : Has(streamList', d) <=> Has(streamList, d) \/ d = c
      BY <1>1, <3>1, AppendHas
    <3> QED BY <1>1, <3>1, <3>2 DEF StreamInv, Running
  <2> QED BY <1>4, <2>1, <2>2 DEF AddNext
<1>5. CASE PNext
  BY <1>2, <1>5 DEF PNext, PurgeCheck, Purge, accVars, streamVars, gVars, downVars, Running
<1>6. CASE GCheck
  BY <1>6 DEF GCheck, StreamInv, accVars, streamVars, downVars, Running, Has
<1>7. CASE GRead \/ GetConnections
  <2>1. /\ ReadBack /\ gpc' = "loop" /\ gElem = None /\ UNCHANGED <<streamList, streamed, add, added, spc>>
    BY <1>7 DEF GRead, GetConnections, streamVars, accVars, downVars, StreamInv
  <2>2. gElem' # None => Has(streamList, gElem')
    BY <1>1, <2>1, ReadHas DEF HandOverInv
  <2> QED BY <1>1, <2>1, <2>2 DEF StreamInv, Running
<1>8. CASE GRemove
  <2>1. /\ gElem \in Conns /\ gpc # "hand" /\ gpc' = "hand"
        /\ UNCHANGED <<gElem, streamed, add, added, spc>>
        /\ Has(streamList, gElem) => streamList' = Keep(streamList, Conns \ {gElem})
    BY <1>1, <1>8 DEF GRemove, InHand, accVars, downVars, Elems, Has
  <2>2. ASSUME Running' PROVE \A d : Has(streamList', d) <=> Has(streamList, d) /\ d \in Conns \ {gElem}
    BY <1>1, <2>1, <2>2, KeepHas DEF StreamInv, Running
  <2> QED BY <1>1, <2>1, <2>2 DEF StreamInv, Running
<1>9. CASE AppTakes
  <2>1. /\ gElem \in Conns /\ streamed' = Append(streamed, gElem) /\ gElem' = None
        /\ gpc' = "loop" /\ UNCHANGED <<streamList, add, added, spc>>
    BY <1>1, <1>9 DEF AppTakes, accVars, streamVars, downVars
  <2>2. \A d : Has(streamed', d) <=> Has(streamed, d) \/ d = gElem
    BY <1>1, <2>1, AppendHas
  <2> QED BY <1>1, <2>1, <2>2 DEF StreamInv, Running
<1>10. ASSUME NEW u \in Closers, Shutdown(u) \/ DownStep(u) PROVE StreamInv'
  <2>1. ~Running'
    BY <1>1, <1>10 DEF DownStep, Shutdown, CloseOne, ClearStream, ClearAll, CloseListener, MarkClosed,
                    ShutdownPanics, At, Goto, Running, downVars
  <2>2. gpc' = gpc /\ gElem' = gElem
    BY <1>10 DEF DownStep, Shutdown, CloseOne, ClearStream, ClearAll, CloseListener, MarkClosed,
                 ShutdownPanics, gVars
  <2> QED BY <2>1, <2>2 DEF StreamInv
<1>11. CASE UNCHANGED vars
  BY <1>2, <1>11 DEF vars, accVars, streamVars, gVars, downVars, Running
<1> QED BY <1>3, <1>4, <1>5, <1>6, <1>7, <1>8, <1>9, <1>10, <1>11 DEF Next, GNext

\* The invariants of both lists hold together.
LEMMA StreamCorrect == Spec => [](AddInv /\ HandOverInv /\ StreamInv)
<1>1. ASSUME Init PROVE AddInv /\ HandOverInv /\ StreamInv
  <2>1. AddInv
    BY <1>1 DEF Init, AddInv
  <2>2. /\ Once(streamed) /\ Once(streamList) /\ Once(gBefore) /\ gElem = None /\ added = {}
        /\ \A c \in Conns : /\ ~Has(streamed, c) /\ ~Has(streamList, c) /\ ~Has(gBefore, c)
                            /\ gElem # c /\ add[c] = "none"
    BY <1>1, EmptyHas, ServerAssumption DEF Init
  <2> QED BY <2>1, <2>2 DEF HandOverInv, StreamInv
<1>2. TypeOK /\ (AddInv /\ HandOverInv /\ StreamInv) /\ [Next]_vars =>
        (AddInv /\ HandOverInv /\ StreamInv)'
  BY AddInvStep, HandOverStep, StreamStep
<1> QED BY <1>1, <1>2, TypeCorrect, PTL DEF Spec

\* A session is handed over once at most, also by a goroutine of GetConnections that removes an
\* element from a list which Shutdown has cleared and so links its predecessors in again.
THEOREM StreamedOnceHolds == Spec => []StreamedOnce
<1>1. HandOverInv => StreamedOnce
  BY DEF HandOverInv, StreamedOnce, Once
<1> QED BY <1>1, StreamCorrect, PTL

\* While the server runs, no added session is lost to the stream between the push, the read of
\* the back, the removal and the hand over.
THEOREM StreamCompleteHolds == Spec => []StreamComplete
<1>1. TypeOK /\ StreamInv => StreamComplete
  BY DEF TypeOK, StreamInv, StreamComplete, Has, Elems
<1> QED BY <1>1, StreamCorrect, TypeCorrect, PTL
=============================================================================
