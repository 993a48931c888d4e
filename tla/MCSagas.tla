------------------------------ MODULE MCSagas ------------------------------
(* An instance of Sagas for TLC: two messages that start sagas of          *)
(* different values, or of the same value, and the answer to what the      *)
(* first saga sends.                                                       *)
EXTENDS Sagas, TLC
CONSTANTS m1, m2, m3, a1, v1, v2

OneOther == [m \in Messages |-> IF m = m2 THEN v2 ELSE v1]
ToTheFirst == [a \in Answers |-> m1]

Kinds ==
  {<<"InMemory", TRUE>>, <<"Raven", TRUE>>, <<"Raven", FALSE>>}
Endpoints == {<<k[1], k[2], M>> : k \in Kinds, M \in {{m1, m2, a1}, {m1, m3, a1}}}
Symmetry == Permutations(Threads)
=============================================================================
