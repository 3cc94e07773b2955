----------------------------- MODULE MCWsSession -----------------------------
(* Builder settings for the run of WsSession.                              *)
EXTENDS WsSession

\* The default, unbuffered channels.
WsSettings == {[sendBuffer |-> 0, receiveBuffer |-> 0, writeDeadlineActive |-> FALSE]}

\* Bound: a second message arrives only after one that is not binary, and then the peer
\* stays.
TextFirst == Len(arrived') = 2 => arrived'[1] \in Texts /\ peer' = "up"
=============================================================================
