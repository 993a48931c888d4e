----------------------------- MODULE Settlement -----------------------------
(***************************************************************************)
(* What a component promises of the messages in its input queue, with the  *)
(* threads, the transactions and the retries left out: a message is        *)
(* pending until it is settled, it is settled once, and its fate is final. *)
(* One transport keeps this promise, and so do a distributor and its       *)
(* workers together.                                                       *)
(***************************************************************************)
CONSTANT Messages           \* physical messages of the input queue

Fates == {"handled", "dead", "dropped"}

VARIABLE fate               \* "pending" or what became of each message

Init == fate = [m \in Messages |-> "pending"]

(* One message is consumed: handled, handed to the fault manager (dead) or *)
(* gone without either.                                                    *)
Settle(m) ==
  /\ fate[m] = "pending"
  /\ \E f \in Fates : fate' = [fate EXCEPT ![m] = f]

(* A process that dies may consume several messages at once.               *)
DropAll ==
  \E D \in SUBSET {m \in Messages : fate[m] = "pending"} :
    fate' = [m \in Messages |-> IF m \in D THEN "dropped" ELSE fate[m]]

Next == DropAll \/ \E m \in Messages : Settle(m)

Spec == Init /\ [][Next]_fate
=============================================================================
