-------------------------- MODULE MCTopologicalSort --------------------------
(***************************************************************************)
(* Every graph of up to four nodes whose edges lead to later nodes, each    *)
(* node having up to two children, possibly the same one twice, as          *)
(* set_components leaves them.                                             *)
(***************************************************************************)
EXTENDS TopologicalSort

MCNodes == 1..4

Later(n) == {m \in MCNodes : m > n}

MCGraphs ==
  {<<a, b, c, <<>>>> :
     a \in {<<>>} \cup {<<m>> : m \in Later(1)} \cup {<<l, m>> : l, m \in Later(1)},
     b \in {<<>>} \cup {<<m>> : m \in Later(2)} \cup {<<l, m>> : l, m \in Later(2)},
     c \in {<<>>, <<4>>, <<4, 4>>}}
=============================================================================
