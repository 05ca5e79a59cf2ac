---------------------------- MODULE MCSearchPaths ----------------------------
(***************************************************************************)
(* Two packages, every way of setting the three variables to one or two     *)
(* directories -- of their own, of each other's and of the system's -- and  *)
(* up to two files of one package, next to a fixed one of the other.        *)
(***************************************************************************)
EXTENDS SearchPaths, FiniteSetsExt

Own    == <<"own">>
Opt    == <<"opt">>
UsrCps == <<"usr", "lib", "cps">>
Dirs   == {Own, UsrCps, <<"opt", "share", "cps">>, <<"usr", "local", "share", "cps">>}

MCLibdir  == <<"lib">>
MCDatadir == <<"share">>
MCNames   == {"m", "n"}

Listed(v) ==
  CASE v = "CPS_PATH"        -> {<<Own>>, <<UsrCps, Own>>}
    [] v = "CPS_PREFIX_PATH" -> {<<Opt>>, <<Own, Opt>>}
    [] v = "PKG_CONFIG_PATH" -> {<<Own>>, <<UsrCps>>}

MCEnvironments ==
  UNION {{e \in [set -> UNION {Listed(v) : v \in set}] : \A v \in set : e[v] \in Listed(v)}
           : set \in SUBSET Variables}

MFiles == {File(d, "m", t) : d \in Dirs, t \in {"cps", "pc"}} \cup {Local("m")}

MCDisks == {s \cup {File(UsrCps, "n", "pc")} :
              s \in UNION {kSubset(i, MFiles) : i \in 0..2}}
=============================================================================
