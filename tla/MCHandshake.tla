------------------------------ MODULE MCHandshake ------------------------------
(* Settings for the runs of Handshake.                                     *)
EXTENDS Handshake

Setting(secure, buffer, calm, frames) ==
  [secure |-> secure, buffer |-> buffer, calm |-> calm, frames |-> frames]

\* Two secure sides that are left alone, and that time out and close; a secure side with
\* one that is not.
Mixed == {Setting(Side, 0, TRUE, 0), Setting(Side, 1, TRUE, 1), Setting(Side, 0, FALSE, 0)}
           \cup {Setting({x}, 0, FALSE, 1) : x \in Side}
=============================================================================
