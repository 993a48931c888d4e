------------------------ MODULE MCSecondLevelRetries ------------------------
(* An instance of SecondLevelRetries for TLC: a message from a client and  *)
(* one that cannot be read and has no reply address, both of one saga.     *)
EXTENDS SecondLevelRetries
CONSTANTS client, s1, m1

FromClient == [m \in Messages |-> IF m = m1 THEN client ELSE NoAddress]
OneSaga == [m \in Messages |-> s1]
=============================================================================
