-------------------------------- MODULE Builder --------------------------------
(***************************************************************************)
(* The builders of a client "c" and a server "s" and the options the       *)
(* application gives them, in any order and also after a build, for the    *)
(* sessions of a builder share its maps.  A message type is known on the   *)
(* connection by the hash of its name, which the two sides compute each on *)
(* its own, and to service discovery by the names the server announces.    *)
(***************************************************************************)
EXTENDS FiniteSets

CONSTANTS Type,     \* the names of the application's message types
          Hash,     \* hashString
          Flavours  \* the builders to consider: "tcp" (NanoBuilder), "ws" (WebsocketBuilder)

Side == {"c", "s"}

\* The name of no message, which stands for the default route, and the types of the handshake.
DefaultRoute  == "default"
HandshakeType == {"PublicKey", "EncryptedMessage"}
Name == Type \cup HandshakeType \cup {DefaultRoute}

\* No two names have one hash: the code neither excludes nor notices it.
ASSUME BuilderAssumption ==
  /\ Flavours \subseteq {"tcp", "ws"} /\ IsFiniteSet(Type)
  /\ Type \cap (HandshakeType \cup {DefaultRoute}) = {}
  /\ DOMAIN Hash = Name /\ \A m, n \in Name : Hash[m] = Hash[n] => m = n

VARIABLES
  flavour,          \* of both builders, fixed
  secure,           \* bb.secure
  messageIdentMap,  \* names of the messages, by hash
  inverseIdentMap,  \* hashes, by name
  routes,           \* names that have a route
  serviceDiscovery, \* the server announces itself
  announced,        \* the names it announced when it was built, or <<>>
  outcome,          \* of the client's last strict call: "none", "met" or "refused"
  named,            \* history: the application's types its options named, on each side
  atBuild,          \* history: named["s"] when the server was built
  atCall            \* history: named["c"] at the client's last strict call

mapVars  == <<messageIdentMap, inverseIdentMap>>
dnsVars  == <<serviceDiscovery, announced, outcome>>
histVars == <<named, atBuild, atCall>>
vars == <<flavour, secure, mapVars, routes, dnsVars, histVars>>

Empty == [x \in {} |-> x]

Init ==
  /\ flavour \in Flavours /\ secure = [b \in Side |-> FALSE]
  /\ messageIdentMap = [b \in Side |-> Empty] /\ inverseIdentMap = [b \in Side |-> Empty]
  /\ routes = [b \in Side |-> {}] /\ serviceDiscovery = FALSE
  /\ announced = <<>> /\ outcome = "none"
  /\ named = [b \in Side |-> {}] /\ atBuild = {} /\ atCall = {}

-----------------------------------------------------------------------------
(* Options. *)

\* A Go map after assignments.
Assigned(old, new) ==
  [x \in DOMAIN old \cup DOMAIN new |-> IF x \in DOMAIN new THEN new[x] ELSE old[x]]

\* What addSingleIdentity puts in the maps for each of the names.
ByHash(names) == [h \in {Hash[n] : n \in names} |-> CHOOSE n \in names : Hash[n] = h]
ByName(names) == [n \in names |-> Hash[n]]

\* Mutant: the messages are put in a fresh map.
AddIdentitiesAfresh(b, names) ==
  /\ messageIdentMap' = [messageIdentMap EXCEPT ![b] = ByHash(names)]
  /\ inverseIdentMap' = [inverseIdentMap EXCEPT ![b] = Assigned(@, ByName(names))]

AddIdentities(b, names) ==
  /\ messageIdentMap' = [messageIdentMap EXCEPT ![b] = Assigned(@, ByHash(names))]
  /\ inverseIdentMap' = [inverseIdentMap EXCEPT ![b] = Assigned(@, ByName(names))]

Names(b, names) == named' = [named EXCEPT ![b] = @ \cup (names \cap Type)]

\* AddMessageIdentities is this for each of its messages.
AddMessageIdentity(b, n) ==
  /\ AddIdentities(b, {n}) /\ Names(b, {n})
  /\ UNCHANGED <<flavour, secure, routes, dnsVars, atBuild, atCall>>

\* Mutant: a default route set before stays.
SecureKeeps(b) ==
  /\ secure' = [secure EXCEPT ![b] = TRUE] /\ AddIdentities(b, HandshakeType)
  /\ UNCHANGED <<flavour, routes, dnsVars, histVars>>

Secure(b) ==
  /\ secure' = [secure EXCEPT ![b] = TRUE] /\ AddIdentities(b, HandshakeType)
  /\ routes' = [routes EXCEPT ![b] = @ \ {DefaultRoute}]
  /\ UNCHANGED <<flavour, dnsVars, histVars>>

\* The certificates are for the websocket library; a default route stays.
SecureWs(b) == /\ flavour = "ws" /\ secure' = [secure EXCEPT ![b] = TRUE]
               /\ UNCHANGED <<flavour, mapVars, routes, dnsVars, histVars>>

Insecure(b) == /\ secure' = [secure EXCEPT ![b] = FALSE]
               /\ UNCHANGED <<flavour, mapVars, routes, dnsVars, histVars>>

\* Route for a type, and for no message: the default route.
Route(b, n) == /\ ~(secure[b] /\ n = DefaultRoute)
               /\ AddIdentities(b, {n}) /\ Names(b, {n})
               /\ routes' = [routes EXCEPT ![b] = @ \cup {n}]
               /\ UNCHANGED <<flavour, secure, dnsVars, atBuild, atCall>>

ServiceDiscovery == /\ serviceDiscovery' = TRUE
                    /\ UNCHANGED <<flavour, secure, mapVars, routes, announced, outcome, histVars>>

-----------------------------------------------------------------------------
(* The server announces its types when it is built, and a client that is   *)
(* strict compares them with its own when it is called.                    *)

\* Mutant: the types of the handshake are announced and compared as well.
IdentityNamesAll(b) ==
  {messageIdentMap[b][h] : h \in DOMAIN messageIdentMap[b]} \ {DefaultRoute}

\* getIdentityMessageNames.
IdentityNames(b) ==
  {messageIdentMap[b][h] : h \in DOMAIN messageIdentMap[b]} \ (HandshakeType \cup {DefaultRoute})

BuildServer ==
  /\ serviceDiscovery /\ announced = <<>>
  /\ announced' = <<IdentityNames("s")>> /\ atBuild' = named["s"]
  /\ UNCHANGED <<flavour, secure, mapVars, routes, serviceDiscovery, outcome, named, atCall>>

\* allProtocolsMatch: as many names, and each of the server's is one of the client's.
AllProtocolsMatch(mine, theirs) ==
  Cardinality(mine) = Cardinality(theirs) /\ \A n \in theirs : n \in mine

\* A strict call of the factory of BuildNanoDNS or BuildWebsocketDNS that finds the server.
StrictCall ==
  /\ announced # <<>> /\ atCall' = named["c"]
  /\ outcome' = IF AllProtocolsMatch(IdentityNames("c"), announced[1]) THEN "met" ELSE "refused"
  /\ UNCHANGED <<flavour, secure, mapVars, routes, serviceDiscovery, announced, named, atBuild>>

Next == \/ \E b \in Side : \/ \E n \in Type : AddMessageIdentity(b, n)
                           \/ \E n \in Type \cup {DefaultRoute} : Route(b, n)
                           \/ Secure(b) \/ SecureWs(b) \/ Insecure(b)
        \/ ServiceDiscovery \/ BuildServer \/ StrictCall

Spec == Init /\ [][Next]_vars

-----------------------------------------------------------------------------
(* Properties. *)

\* What the receiver makes of a message the other side sends as n: the type whose identity
\* it clones for the hash, or nothing.
Decoded(from, to, n) ==
  LET h == inverseIdentMap[from][n]
  IN IF h \in DOMAIN messageIdentMap[to] THEN {messageIdentMap[to][h]} ELSE {}

\* baseBuilder.go:67, "Can't have default route for secure services": in whatever order the
\* options come, the builder of a secure TCP session can encode and decode the messages of
\* the handshake and no route takes them from it.
HandshakeReachesBuilder ==
  \A b \in Side : flavour = "tcp" /\ secure[b] =>
    /\ routes[b] \cap (HandshakeType \cup {DefaultRoute}) = {}
    /\ \A n \in HandshakeType : n \in DOMAIN inverseIdentMap[b] /\ Decoded(b, b, n) = {n}

\* A strict client is given the server if and only if the options of the two have named the
\* same types, whatever the handshake and the default route have registered besides.
StrictIsEquality ==
  outcome # "none" => (outcome = "met" <=> atCall = atBuild)

\* What a client sends is never taken for another type, and a strict client may send all its
\* types: the server decodes each as itself, also if options are given after the build.
StrictMeansServed ==
  /\ \A n \in DOMAIN inverseIdentMap["c"] : Decoded("c", "s", n) \subseteq {n}
  /\ outcome = "met" => \A n \in atCall : Decoded("c", "s", n) = {n}
=============================================================================
