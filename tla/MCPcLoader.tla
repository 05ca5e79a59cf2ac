----------------------------- MODULE MCPcLoader -----------------------------
(***************************************************************************)
(* Up to three lines of every kind, in any order, before lines that set     *)
(* what a package needs: two variables that use themselves or each other,   *)
(* before or after they are assigned, and lines outside the grammar.        *)
(***************************************************************************)
EXTENDS PcLoader

CONSTANTS a, b, t, u

Set(n, body)     == [kind |-> "property", name |-> n, body |-> body]
Let(v, body)     == [kind |-> "assignment", name |-> v, body |-> body]
Needs(n, S)      == [kind |-> "requirements", name |-> n, body |-> S]
Bare(kind)       == [kind |-> kind, name |-> "", body |-> <<>>]
Req(p, v, w)     == [package |-> p, versioned |-> v, blank |-> w]

Name    == Set("Name", <<t, b>>)
Version == Set("Version", <<u>>)
Libs    == Set("Libs", <<a, Blank, b, Colon, t>>)

Lines ==
  {Let(a, <<t, Blank>>), Let(a, <<b, Blank, u>>), Let(a, <<a, t>>), Let(b, <<a>>),
   Let(b, <<u>>), Let(b, <<Blank, t>>), Name, Version, Libs, Set("Libs", <<t, Other>>),
   Set("Cflags", <<Colon, a>>), Set("Cflags", <<>>),
   Needs("Requires", <<Req(t, TRUE, TRUE), Req(u, FALSE, FALSE)>>),
   Needs("Requires", <<Req(t, TRUE, FALSE), Req(u, FALSE, TRUE)>>),
   Needs("Requires", <<Req(t, FALSE, FALSE)>>), Bare("empty"), Bare("no statement")}

MCFiles ==
  {s \o e : s \in UNION {[1..n -> Lines] : n \in 0..3},
            e \in {<<>>, <<Version>>, <<Libs, Name, Version>>}}
=============================================================================
