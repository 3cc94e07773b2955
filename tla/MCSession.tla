------------------------------ MODULE MCSession ------------------------------
(* Builder settings for the runs of Session.                               *)
EXTENDS Session

Setting(s, r, w) == [sendBuffer |-> s, receiveBuffer |-> r, writeDeadlineActive |-> w]

\* The default, unbuffered channels, and small buffers with the write deadline.
BothSettings == {Setting(0, 0, FALSE), Setting(1, 1, TRUE)}

Unbuffered == {Setting(0, 0, FALSE)}
Buffered   == {Setting(1, 1, TRUE)}
=============================================================================
