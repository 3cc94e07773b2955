------------------------------- MODULE Conduit -------------------------------
(***************************************************************************)
(* What a nan0 session promises its two sides, whatever its goroutines do. *)
(* Messages the application offers leave on the wire in the order they     *)
(* were accepted, without gap or repetition.  Messages that arrive are     *)
(* handed over in order within each class: the ones read from the receive  *)
(* channel, and the ones given to a route.  The tail of either direction   *)
(* may be lost when the session ends.  The session is closed once, its     *)
(* connection is released after that, and nothing leaves afterwards.       *)
(***************************************************************************)
EXTENDS Naturals, Sequences, Filtering

CONSTANTS Message,   \* everything that may be offered or arrive
          Routed     \* the messages a route of the RouteMap consumes

VARIABLES phase,     \* "open", "closed" (shutdown begun) or "released"
          offered,   \* accepted from the application, in order
          emitted,   \* written to the connection, in order
          arrived,   \* put on the connection by the peer, in order
          received,  \* taken by the application from the receive channel
          executed   \* handed to a route

vars == <<phase, offered, emitted, arrived, received, executed>>

Init == /\ phase = "open"
        /\ offered = <<>> /\ emitted = <<>>
        /\ arrived = <<>> /\ received = <<>> /\ executed = <<>>

Offer == /\ \E m \in Message : offered' = Append(offered, m)
         /\ UNCHANGED <<phase, emitted, arrived, received, executed>>

Emit == /\ phase # "released"
        /\ Len(emitted) < Len(offered)
        /\ emitted' = Append(emitted, offered[Len(emitted) + 1])
        /\ UNCHANGED <<phase, offered, arrived, received, executed>>

Arrive == /\ \E m \in Message : arrived' = Append(arrived, m)
          /\ UNCHANGED <<phase, offered, emitted, received, executed>>

Receive == LET plain == Keep(arrived, Message \ Routed) IN
           /\ Len(received) < Len(plain)
           /\ received' = Append(received, plain[Len(received) + 1])
           /\ UNCHANGED <<phase, offered, emitted, arrived, executed>>

\* A route may still run for a message read before the release.
Execute == LET routable == Keep(arrived, Routed) IN
           /\ Len(executed) < Len(routable)
           /\ executed' = Append(executed, routable[Len(executed) + 1])
           /\ UNCHANGED <<phase, offered, emitted, arrived, received>>

Close == /\ phase = "open" /\ phase' = "closed"
         /\ UNCHANGED <<offered, emitted, arrived, received, executed>>

Release == /\ phase = "closed" /\ phase' = "released"
           /\ UNCHANGED <<offered, emitted, arrived, received, executed>>

Next == Offer \/ Emit \/ Arrive \/ Receive \/ Execute \/ Close \/ Release

Spec == Init /\ [][Next]_vars
=============================================================================
