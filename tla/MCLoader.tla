------------------------------ MODULE MCLoader ------------------------------
(***************************************************************************)
(* Documents with up to two faults: one field of a right document, of its    *)
(* first component, an archive, or of its second, an unknown one, replaced  *)
(* by every kind of value; one field of the document and another, or one of *)
(* its second component, replaced by values that get every answer a reader  *)
(* gives; every combination of a few lists of entries, prefixes and         *)
(* versions; and right documents with all cps_paths and directories of a    *)
(* few names, two of which have the same stem.                             *)
(***************************************************************************)
EXTENDS Loader

MCElements == {"@prefix@", "", "lib", "lib.64", "cps"}
MCStem(e)  == IF e = "lib.64" THEN "lib" ELSE e

Dirs       == {"lib", "lib.64", "cps"}
UpTo(n, S) == UNION {[1..k -> S] : k \in 0..n}
Paths(S)   == [root : BOOLEAN, names : S]

MCCpsPaths ==
  Paths(UNION {{s, Append(s, "")} : s \in
    UpTo(2, Dirs) \cup {<<"@prefix@">> \o s : s \in UpTo(2, Dirs)}} \ {<<"">>})

MCDirectories ==
  Paths(UpTo(2, Dirs)) \cup [root : {TRUE}, names : [1..3 -> Dirs]]

At(names) == [root |-> FALSE, names |-> names]

Lists == {"default_components", "compile_flags", "includes", "link_flags",
          "link_libraries", "link_requires", "requires"}

Right(field) == CASE field \in Lists                               -> "array"
                  [] field \in {"definitions", "package requires"} -> "object"
                  [] field = "prefix"                              -> "absent"
                  [] OTHER                                         -> "string"

RightEntry(t) == [object |-> TRUE, type |-> t,
                  members |-> [m \in Range(Members) |-> Right(m)]]

RightDocument ==
  [json |-> TRUE, fields |-> [g \in Range(Header \o Trailer) |-> Right(g)],
   supported |-> TRUE, path |-> At(<<"@prefix@", "lib", "cps">>),
   directory |-> [root |-> TRUE, names |-> <<"lib", "cps">>], components |-> "object", entries |-> <<RightEntry("archive"), RightEntry("unknown")>>]

(* Between them every reader answers these in every way it can.            *)
Telling == {"absent", "unknown schema", "mixed", "mixed components", "other"}

WithField(d, S) == {[d EXCEPT !.fields[g] = v] : g \in DOMAIN d.fields, v \in S}
WithMember(d, k, S) ==
  {[d EXCEPT !.entries[k].members[m] = v] : m \in Range(Members), v \in S}

OneFault == WithField(RightDocument, Values)
              \cup UNION {WithMember(RightDocument, k, Values) : k \in 1..2}
TwoFields == UNION {WithField(d, Telling) : d \in WithField(RightDocument, Telling)}
BothParts == UNION {WithMember(d, 2, Telling) : d \in WithField(RightDocument, Telling)}

Shapes ==
  {[RightDocument EXCEPT !.json = j, !.supported = s, !.components = c,
                         !.entries = e, !.fields["prefix"] = v, !.fields["cps_path"] = w] :
     j \in BOOLEAN, s \in BOOLEAN,
     c \in {"absent", "object", "other"}, v \in {"absent", "string"}, w \in {"absent", "string"},
     e \in {<<>>, <<RightEntry("unknown")>>, <<RightEntry("dylib")>>,
            <<RightEntry("unknown"), RightEntry("interface")>>,
            <<[RightEntry("dylib") EXCEPT !.object = FALSE]>>}}

Located ==
  {[RightDocument EXCEPT !.path = path, !.directory = d,
                         !.entries = <<RightEntry("interface")>>] :
     path \in MCCpsPaths, d \in MCDirectories}

MCDocuments ==
  UNION {OneFault, TwoFields, BothParts, Shapes, Located}
=============================================================================
