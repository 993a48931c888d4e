---------------------------- MODULE MCUnicastBus ----------------------------
(* An instance of UnicastBus for TLC: one client and publishers of every   *)
(* kind, one of which only lets the client unsubscribe.  Before the second *)
(* call the client may be upgraded to another minor version, and before    *)
(* the third go back.                                                      *)
EXTENDS UnicastBus
CONSTANTS client

All == {"Subscribe", "Unsubscribe"} \X {client}
Same == [i \in Calls |-> 1]
Upgraded == [i \in Calls |-> IF i = 1 THEN 1 ELSE 2]
Back == [i \in Calls |-> IF i = 2 THEN 2 ELSE 1]

Publishers ==
  BOOLEAN \X {1, 2} \X {All} \X {Same}
    \cup {<<FALSE, 1, {<<"Unsubscribe", client>>}, Same>>,
          <<TRUE, 1, All, Upgraded>>, <<FALSE, 1, All, Back>>}
=============================================================================
