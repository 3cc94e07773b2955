------------------------------- MODULE MCBuilder -------------------------------
(* A hash for the run of Builder.                                          *)
EXTENDS Builder, Naturals

Distinct == [t1 |-> 1, t2 |-> 2, PublicKey |-> 3, EncryptedMessage |-> 4, default |-> 5]
=============================================================================
