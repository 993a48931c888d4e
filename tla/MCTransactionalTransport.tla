---------------------- MODULE MCTransactionalTransport ----------------------
(* An instance of TransactionalTransport for TLC: all messages have ids of *)
(* their own, or all but the unreadable one share an id.                   *)
EXTENDS TransactionalTransport
CONSTANT m1

UniqueId == [m \in Messages |-> m]
SharedId == [m \in Messages |-> IF m \in Unreadable THEN m ELSE m1]
UniqueOrShared == {UniqueId, SharedId}
=============================================================================
