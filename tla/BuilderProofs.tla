----------------------------- MODULE BuilderProofs -----------------------------
(***************************************************************************)
(* Theorems about Builder, for every set of types and every hash without   *)
(* collisions.                                                             *)
(***************************************************************************)
EXTENDS Builder, FiniteSetTheorems, TLAPS

\* The two maps of a side are inverse to each other, and hold the names that were
\* registered: the application's types, and perhaps the handshake's and the default route.
MapsOf(b) ==
  /\ DOMAIN inverseIdentMap[b] \subseteq Name
  /\ \A n \in DOMAIN inverseIdentMap[b] : inverseIdentMap[b][n] = Hash[n]
  /\ DOMAIN messageIdentMap[b] = {Hash[n] : n \in DOMAIN inverseIdentMap[b]}
  /\ \A n \in DOMAIN inverseIdentMap[b] : messageIdentMap[b][Hash[n]] = n
  /\ named[b] = DOMAIN inverseIdentMap[b] \cap Type

Shape ==
  /\ messageIdentMap = [b \in Side |-> messageIdentMap[b]]
  /\ inverseIdentMap = [b \in Side |-> inverseIdentMap[b]]
  /\ routes \in [Side -> SUBSET (Type \cup {DefaultRoute})]
  /\ named = [b \in Side |-> named[b]] /\ secure \in [Side -> BOOLEAN]

MapsInv == Shape /\ \A b \in Side : MapsOf(b)

\* A secure TCP builder has registered the types of the handshake and has no default route.
SecureInv ==
  \A b \in Side : flavour = "tcp" /\ secure[b] =>
    DefaultRoute \notin routes[b] /\ HandshakeType \subseteq DOMAIN inverseIdentMap[b]

\* What was announced is what had been named, and the comparison of names decides the call.
DnsInv ==
  /\ announced \in {<<>>, <<atBuild>>} /\ (announced = <<>> => outcome = "none")
  /\ atBuild \subseteq named["s"] /\ atCall \subseteq named["c"]
  /\ outcome # "none" => (outcome = "met" <=> atCall = atBuild)

BuilderInv == MapsInv /\ SecureInv /\ DnsInv

-----------------------------------------------------------------------------
\* No two names have one hash.
LEMMA Distinguishes ==
  ASSUME NEW m \in Name, NEW n \in Name, Hash[m] = Hash[n]
  PROVE  m = n
BY BuilderAssumption

\* What addSingleIdentity does to the maps: the names are added, no other is disturbed.
LEMMA AddsNames ==
  ASSUME MapsInv, NEW b \in Side, NEW names \in SUBSET Name, AddIdentities(b, names)
  PROVE  /\ messageIdentMap' = [x \in Side |-> messageIdentMap'[x]]
         /\ inverseIdentMap' = [x \in Side |-> inverseIdentMap'[x]]
         /\ \A x \in Side \ {b} : /\ messageIdentMap'[x] = messageIdentMap[x]
                                  /\ inverseIdentMap'[x] = inverseIdentMap[x]
         /\ DOMAIN inverseIdentMap'[b] = DOMAIN inverseIdentMap[b] \cup names
         /\ \A n \in DOMAIN inverseIdentMap'[b] : inverseIdentMap'[b][n] = Hash[n]
         /\ DOMAIN messageIdentMap'[b] = {Hash[n] : n \in DOMAIN inverseIdentMap'[b]}
         /\ \A n \in DOMAIN inverseIdentMap'[b] : messageIdentMap'[b][Hash[n]] = n
<1> DEFINE i == inverseIdentMap[b]
           j == messageIdentMap[b]
<1>1. /\ inverseIdentMap'[b] = Assigned(i, ByName(names))
      /\ messageIdentMap'[b] = Assigned(j, ByHash(names))
  BY DEF AddIdentities, MapsInv, Shape
<1>2. MapsOf(b)
  BY DEF MapsInv
<1>3. /\ DOMAIN inverseIdentMap'[b] = DOMAIN i \cup names
      /\ \A n \in DOMAIN inverseIdentMap'[b] : inverseIdentMap'[b][n] = Hash[n]
  BY <1>1, <1>2 DEF ByName, MapsOf, Assigned
<1>4. DOMAIN messageIdentMap'[b] = {Hash[n] : n \in DOMAIN inverseIdentMap'[b]}
  BY <1>1, <1>2, <1>3 DEF ByHash, MapsOf, Assigned
<1>5. \A n \in DOMAIN inverseIdentMap'[b] : messageIdentMap'[b][Hash[n]] = n
  <2> SUFFICES ASSUME NEW n \in DOMAIN inverseIdentMap'[b]
               PROVE  messageIdentMap'[b][Hash[n]] = n
    OBVIOUS
  <2>1. n \in Name
    BY <1>2, <1>3 DEF MapsOf
  <2>2. CASE n \in names
    <3>1. ByHash(names)[Hash[n]] = n
      BY <2>1, <2>2, Distinguishes DEF ByHash
    <3> QED BY <3>1, <2>2, <1>1 DEF ByHash, Assigned
  <2>3. CASE n \notin names
    <3>1. n \in DOMAIN i /\ Hash[n] \notin DOMAIN ByHash(names)
      BY <2>1, <2>3, <1>3, Distinguishes DEF ByHash
    <3>2. messageIdentMap'[b][Hash[n]] = j[Hash[n]]
      BY <3>1, <1>1, <1>2 DEF MapsOf, Assigned
    <3> QED BY <3>1, <3>2, <1>2 DEF MapsOf
  <2> QED BY <2>2, <2>3
<1> QED BY <1>3, <1>4, <1>5 DEF AddIdentities, MapsInv, Shape

\* Only an option disturbs the maps, and it keeps them.
LEMMA MapsStep ==
  ASSUME MapsInv, [Next]_vars
  PROVE  MapsInv' /\ \A b \in Side : DOMAIN inverseIdentMap[b] \subseteq DOMAIN inverseIdentMap'[b]
<1> USE DEF Side
<1>1. ASSUME NEW b \in Side, NEW names \in SUBSET Name,
             AddIdentities(b, names),
             routes' \in [Side -> SUBSET (Type \cup {DefaultRoute})], secure' \in [Side -> BOOLEAN],
             \/ Names(b, names)
             \/ named' = named /\ names \cap Type = {}
      PROVE  MapsInv' /\ \A x \in Side : DOMAIN inverseIdentMap[x] \subseteq DOMAIN inverseIdentMap'[x]
  <2>1. /\ named' = [x \in Side |-> named'[x]]
        /\ \A x \in Side \ {b} : named'[x] = named[x]
        /\ named'[b] = named[b] \cup (names \cap Type)
    BY <1>1 DEF Names, MapsInv, Shape
  <2>2. \A x \in Side \ {b} : MapsOf(x)'
    BY <1>1, <2>1, AddsNames DEF MapsInv, MapsOf
  <2>3. MapsOf(b)'
    BY <1>1, <2>1, AddsNames DEF MapsInv, MapsOf
  <2>4. Shape'
    BY <1>1, <2>1, AddsNames DEF Shape
  <2> QED BY <1>1, <2>2, <2>3, <2>4, AddsNames DEF MapsInv
<1>2. ASSUME UNCHANGED <<mapVars, named>>, Shape'
      PROVE  MapsInv' /\ \A x \in Side : DOMAIN inverseIdentMap[x] \subseteq DOMAIN inverseIdentMap'[x]
  BY <1>2 DEF MapsInv, MapsOf, mapVars
<1>3. ASSUME NEW b \in Side, NEW n \in Type, AddMessageIdentity(b, n) PROVE {n} \in SUBSET Name
  BY DEF Name
<1>4. ASSUME NEW b \in Side, NEW n \in Type, AddMessageIdentity(b, n)
      PROVE  MapsInv' /\ \A x \in Side : DOMAIN inverseIdentMap[x] \subseteq DOMAIN inverseIdentMap'[x]
  BY <1>1, <1>3, <1>4 DEF AddMessageIdentity, MapsInv, Shape
<1>5. ASSUME NEW b \in Side, NEW n \in Type \cup {DefaultRoute}, Route(b, n)
      PROVE  MapsInv' /\ \A x \in Side : DOMAIN inverseIdentMap[x] \subseteq DOMAIN inverseIdentMap'[x]
  <2>1. {n} \in SUBSET Name
    BY DEF Name
  <2>2. routes' \in [Side -> SUBSET (Type \cup {DefaultRoute})]
    BY <1>5 DEF Route, MapsInv, Shape
  <2> QED BY <1>1, <1>5, <2>1, <2>2 DEF Route, MapsInv, Shape
<1>6. ASSUME NEW b \in Side, Secure(b)
      PROVE  MapsInv' /\ \A x \in Side : DOMAIN inverseIdentMap[x] \subseteq DOMAIN inverseIdentMap'[x]
  <2>1. HandshakeType \in SUBSET Name /\ HandshakeType \cap Type = {}
    BY BuilderAssumption DEF Name
  <2>2. /\ routes' \in [Side -> SUBSET (Type \cup {DefaultRoute})]
        /\ secure' \in [Side -> BOOLEAN]
    BY <1>6 DEF Secure, MapsInv, Shape
  <2> QED BY <1>1, <1>6, <2>1, <2>2 DEF Secure, histVars
<1>7. ASSUME NEW b \in Side, SecureWs(b) \/ Insecure(b)
      PROVE  MapsInv' /\ \A x \in Side : DOMAIN inverseIdentMap[x] \subseteq DOMAIN inverseIdentMap'[x]
  BY <1>2, <1>7 DEF SecureWs, Insecure, MapsInv, Shape, mapVars, histVars
<1>8. CASE ServiceDiscovery \/ BuildServer \/ StrictCall \/ UNCHANGED vars
  <2>1. UNCHANGED <<mapVars, named, routes, secure>>
    BY <1>8 DEF ServiceDiscovery, BuildServer, StrictCall, vars, histVars
  <2> QED BY <2>1, <1>2 DEF MapsInv, Shape, mapVars
<1> QED BY <1>4, <1>5, <1>6, <1>7, <1>8 DEF Next

\* At first nothing is registered.
LEMMA MapsStart ==
  Init => MapsInv
BY DEF Init, MapsInv, MapsOf, Shape, Side, Empty

-----------------------------------------------------------------------------
(* Security. *)

\* Secure removes the default route and registers the types, Route refuses to set one on a
\* secure builder, and the maps never lose a name.
LEMMA SecureStep ==
  ASSUME MapsInv, SecureInv, [Next]_vars
  PROVE  SecureInv'
<1>1. \A b \in Side : DOMAIN inverseIdentMap[b] \subseteq DOMAIN inverseIdentMap'[b]
  BY MapsStep
<1>2. ASSUME NEW b \in Side, NEW n \in Type, AddMessageIdentity(b, n) PROVE SecureInv'
  BY <1>1, <1>2 DEF AddMessageIdentity, SecureInv
<1>3. ASSUME NEW b \in Side, NEW n \in Type \cup {DefaultRoute}, Route(b, n) PROVE SecureInv'
  BY <1>1, <1>3 DEF Route, SecureInv, MapsInv, Shape
<1>4. ASSUME NEW b \in Side, Secure(b) PROVE SecureInv'
  <2>1. HandshakeType \subseteq DOMAIN inverseIdentMap'[b]
    <3>1. HandshakeType \in SUBSET Name
      BY DEF Name
    <3> QED BY <3>1, <1>4, AddsNames DEF Secure
  <2> QED BY <1>1, <1>4, <2>1 DEF Secure, SecureInv, MapsInv, Shape
<1>5. ASSUME NEW b \in Side, SecureWs(b) PROVE SecureInv'
  BY <1>5 DEF SecureWs, SecureInv
<1>6. ASSUME NEW b \in Side, Insecure(b) PROVE SecureInv'
  BY <1>6 DEF Insecure, SecureInv, MapsInv, Shape, mapVars
<1>7. CASE ServiceDiscovery \/ BuildServer \/ StrictCall \/ UNCHANGED vars
  BY <1>7 DEF ServiceDiscovery, BuildServer, StrictCall, vars, mapVars, SecureInv
<1> QED BY <1>2, <1>3, <1>4, <1>5, <1>6, <1>7 DEF Next

\* A message of a registered name is found again under its hash.
LEMMA DecodesItself ==
  ASSUME MapsInv, NEW from \in Side, NEW to \in Side, NEW n \in DOMAIN inverseIdentMap[from]
  PROVE  Decoded(from, to, n) = IF n \in DOMAIN inverseIdentMap[to] THEN {n} ELSE {}
<1>1. n \in Name /\ inverseIdentMap[from][n] = Hash[n]
  BY DEF MapsInv, MapsOf
<1>2. /\ DOMAIN inverseIdentMap[to] \subseteq Name
      /\ DOMAIN messageIdentMap[to] = {Hash[m] : m \in DOMAIN inverseIdentMap[to]}
      /\ \A m \in DOMAIN inverseIdentMap[to] : messageIdentMap[to][Hash[m]] = m
  BY DEF MapsInv, MapsOf
<1>3. Hash[n] \in DOMAIN messageIdentMap[to] <=> n \in DOMAIN inverseIdentMap[to]
  BY <1>1, <1>2, Distinguishes
<1> QED BY <1>1, <1>2, <1>3 DEF Decoded

-----------------------------------------------------------------------------
(* Discovery. *)

\* What a side announces or compares is what its options have named.
LEMMA NamesAreNamed ==
  ASSUME MapsInv, NEW b \in Side
  PROVE  IdentityNames(b) = named[b]
<1>1. MapsOf(b)
  BY DEF MapsInv
<1>2. {messageIdentMap[b][h] : h \in DOMAIN messageIdentMap[b]} = DOMAIN inverseIdentMap[b]
  BY <1>1 DEF MapsOf
<1> QED BY <1>1, <1>2, BuilderAssumption DEF IdentityNames, MapsOf, Name

\* The comparison of lengths and members decides equality.
LEMMA MatchIsEquality ==
  ASSUME NEW mine \in SUBSET Type, NEW theirs \in SUBSET Type
  PROVE  AllProtocolsMatch(mine, theirs) <=> mine = theirs
<1>1. IsFiniteSet(mine) /\ IsFiniteSet(theirs)
  BY BuilderAssumption, FS_Subset
<1>2. ASSUME theirs \subseteq mine, Cardinality(mine) = Cardinality(theirs) PROVE mine = theirs
  BY <1>1, <1>2, FS_Subset
<1> QED BY <1>2 DEF AllProtocolsMatch

\* An option leaves what was announced and compared alone; a build announces, a call
\* compares, what the options have named by then.
LEMMA DnsStep ==
  ASSUME MapsInv, DnsInv, [Next]_vars
  PROVE  DnsInv'
<1> USE DEF Side
<1>1. \A b \in Side : named[b] \subseteq named'[b]
  <2>1. MapsInv'
    BY MapsStep
  <2> QED BY <2>1, MapsStep DEF MapsInv, MapsOf
<1>2. ASSUME UNCHANGED <<dnsVars, atBuild, atCall>> PROVE DnsInv'
  BY <1>1, <1>2 DEF DnsInv, dnsVars
<1>3. ASSUME NEW b \in Side,
             \/ \E n \in Type : AddMessageIdentity(b, n)
             \/ \E n \in Type \cup {DefaultRoute} : Route(b, n)
             \/ Secure(b) \/ SecureWs(b) \/ Insecure(b)
      PROVE  DnsInv'
  <2>1. UNCHANGED <<dnsVars, atBuild, atCall>>
    BY <1>3 DEF AddMessageIdentity, Route, Secure, SecureWs, Insecure, histVars
  <2> QED BY <1>2, <2>1
<1>4. CASE ServiceDiscovery
  BY <1>4 DEF ServiceDiscovery, DnsInv, histVars
<1>5. CASE BuildServer
  <2>1. announced' = <<named["s"]>> /\ atBuild' = named["s"] /\ outcome = "none"
    BY <1>5, NamesAreNamed DEF BuildServer, DnsInv
  <2> QED BY <1>5, <2>1 DEF BuildServer, DnsInv
<1>6. CASE StrictCall
  <2>1. announced = <<atBuild>>
    BY <1>6 DEF StrictCall, DnsInv
  <2>2. named["c"] \in SUBSET Type /\ atBuild \in SUBSET Type
    BY DEF MapsInv, MapsOf, DnsInv
  <2>3. outcome' = IF AllProtocolsMatch(named["c"], atBuild) THEN "met" ELSE "refused"
    BY <1>6, <2>1, NamesAreNamed DEF StrictCall
  <2>4. outcome' = IF named["c"] = atBuild THEN "met" ELSE "refused"
    BY <2>2, <2>3, MatchIsEquality
  <2> QED BY <1>6, <2>1, <2>4 DEF StrictCall, DnsInv
<1>7. CASE UNCHANGED vars
  BY <1>2, <1>7 DEF vars, histVars
<1> QED BY <1>3, <1>4, <1>5, <1>6, <1>7 DEF Next

-----------------------------------------------------------------------------
(* The theorems. *)

\* The inductive invariant: the maps of each side are inverse to each other and hold what the
\* options named, and security and discovery are as those options say.
THEOREM BuilderInvariant == Spec => []BuilderInv
<1>1. Init => BuilderInv
  BY MapsStart DEF Init, BuilderInv, SecureInv, DnsInv, Side
<1>2. BuilderInv /\ [Next]_vars => BuilderInv'
  BY MapsStep, SecureStep, DnsStep DEF BuilderInv
<1> QED BY <1>1, <1>2, PTL DEF Spec

\* In whatever order options come, a secure TCP builder can encode and decode the messages of
\* its handshake and no route takes them from it (Secure and Route in baseBuilder.go).
THEOREM HandshakeReaches == Spec => []HandshakeReachesBuilder
<1>1. BuilderInv => HandshakeReachesBuilder
  <2> SUFFICES ASSUME BuilderInv, NEW b \in Side, flavour = "tcp", secure[b]
               PROVE  /\ routes[b] \cap (HandshakeType \cup {DefaultRoute}) = {}
                      /\ \A n \in HandshakeType :
                           n \in DOMAIN inverseIdentMap[b] /\ Decoded(b, b, n) = {n}
    BY DEF HandshakeReachesBuilder
  <2>1. routes[b] \cap (HandshakeType \cup {DefaultRoute}) = {}
    BY BuilderAssumption DEF BuilderInv, MapsInv, Shape, SecureInv, HandshakeType, DefaultRoute
  <2>2. HandshakeType \subseteq DOMAIN inverseIdentMap[b]
    BY DEF BuilderInv, SecureInv
  <2>3. \A n \in HandshakeType : Decoded(b, b, n) = {n}
    BY <2>2, DecodesItself DEF BuilderInv
  <2> QED BY <2>1, <2>2, <2>3
<1> QED BY <1>1, BuilderInvariant, PTL

\* allProtocolsMatch decides equality of what the two applications have named, whatever
\* getIdentityMessageNames has to leave out.
THEOREM StrictEquality == Spec => []StrictIsEquality
<1>1. BuilderInv => StrictIsEquality
  BY DEF BuilderInv, DnsInv, StrictIsEquality
<1> QED BY <1>1, BuilderInvariant, PTL

\* A message is decoded as what it was sent as or not at all, and a strict client's always.
THEOREM StrictServed == Spec => []StrictMeansServed
<1>1. BuilderInv => StrictMeansServed
  <2> SUFFICES ASSUME BuilderInv PROVE StrictMeansServed
    OBVIOUS
  <2>1. \A n \in DOMAIN inverseIdentMap["c"] : Decoded("c", "s", n) \subseteq {n}
    BY DecodesItself DEF BuilderInv, Side
  <2>2. ASSUME outcome = "met", NEW n \in atCall PROVE Decoded("c", "s", n) = {n}
    <3>1. n \in named["c"] /\ n \in named["s"]
      BY <2>2 DEF BuilderInv, DnsInv
    <3>2. n \in DOMAIN inverseIdentMap["c"] /\ n \in DOMAIN inverseIdentMap["s"]
      BY <3>1 DEF BuilderInv, MapsInv, MapsOf, Side
    <3> QED BY <3>2, DecodesItself DEF BuilderInv, Side
  <2> QED BY <2>1, <2>2 DEF StrictMeansServed
<1> QED BY <1>1, BuilderInvariant, PTL
=============================================================================
