-------------------------- MODULE MCTimeoutManager --------------------------
(* An instance of TimeoutManager for TLC: two timeouts of one saga, the    *)
(* first already due when it is requested, the second later.               *)
EXTENDS TimeoutManager
CONSTANTS t1, s1

OneSaga == [t \in Timeouts |-> s1]
TwoTimes == [t \in Timeouts |-> IF t = t1 THEN 0 ELSE 1]
=============================================================================
