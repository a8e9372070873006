---------------------------- MODULE MCTypeFetcher ----------------------------
(***************************************************************************)
(* A catalog with every shape the passes treat differently: an enum, a     *)
(* composite nested in a composite in both row orders, an array of          *)
(* composites inside a composite that has an array itself, a domain with    *)
(* its array, a type pg_type does not have.                                 *)
(***************************************************************************)
EXTENDS TypeFetcher

MCOID == {"text", "mood", "img", "_img", "product", "_product", "dom", "_dom", "gone"}

MCKind == [o \in MCOID |->
  CASE o = "text"                     -> "known"
    [] o = "mood"                     -> "enum"
    [] o \in {"img", "product"}       -> "composite"
    [] o \in {"_img", "_product", "_dom"} -> "array"
    [] o = "dom"                      -> "other"
    [] o = "gone"                     -> "missing"]

MCChild == [o \in MCOID |->
  CASE o = "img"     -> {"text", "mood"}
    [] o = "_img"    -> {"img"}
    [] o = "product" -> {"img", "_img", "dom"}
    [] o = "_product" -> {"product"}
    [] o = "_dom"    -> {"dom"}
    [] OTHER         -> {}]

MCRequest == {S \in SUBSET MCOID : Cardinality(S) <= 2}
=============================================================================
