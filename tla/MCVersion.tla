------------------------------ MODULE MCVersion ------------------------------
(***************************************************************************)
(* Versions of up to two parts before the sign and up to two parts after    *)
(* it, one of them possibly not a number, and one with two signs.           *)
(***************************************************************************)
EXTENDS CompareVersions

Numbers  == {0, 1, 2}
Prefixes == {<<a>> : a \in Numbers} \cup {<<a, b>> : a, b \in Numbers}
Suffixes == {<<1>>, <<0, 1>>, <<1, 0>>, <<2, 0>>, <<Invalid>>}

MCVersions ==
  {<<p>> : p \in Prefixes}
  \cup {<<p, s>> : p \in {<<1>>, <<1, 0>>, <<0, 2>>}, s \in Suffixes}
  \cup {<<<<1>>, <<1>>, <<1>>>>, <<<<1, Invalid>>>>, <<<<Invalid>>, <<1>>>>}
=============================================================================
