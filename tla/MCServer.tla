------------------------------- MODULE MCServer -------------------------------
(* Servers for the runs of Server.                                         *)
EXTENDS Server

CONSTANTS c1, c2, c3, u1, u2

Setting(k, m, clients, closers) ==
  [kind |-> k, max |-> m, clients |-> clients, closers |-> closers]

\* Two clients of each kind of server, for TCP and websockets a second Shutdown, and three
\* clients of a TCP server that runs on.
EachKind == {Setting("tcp", 1, {c1, c2}, {u1, u2}), Setting("secure", 1, {c1, c2}, {u1}),
             Setting("ws", 1, {c1, c2}, {u1}), Setting("ws", 1, {c1}, {u1, u2}),
             Setting("tcp", 2, {c1, c2, c3}, {})}

OneShutdown == {Setting("tcp", 2, {c1, c2, c3}, {u1}), Setting("ws", 2, {c1, c2, c3}, {u1})}
=============================================================================
