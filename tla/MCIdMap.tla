------------------------------ MODULE MCIdMap ------------------------------
(* The tree, the map with early lookups, and the map over many processes,  *)
(* next to each other, one of them in use.  Long lids are interchangeable, *)
(* and so are types.                                                       *)
EXTENDS Avl, IdMap

CONSTANT
  MaxLooked     \* bound on the ids where lookups are made

VARIABLE
  about         \* which of the three this behaviour is about

MInit ==
  /\ AvlInit /\ MapInit /\ about \in {"tree", "lookups", "processes"}
  /\ about # "tree" => ~removes

\* Lookups are made of elements of every type, as long as the ids are small and none of
\* them is lost.
FewIds == max_id <= MaxLooked /\ lost = {}

\* Ids are given out until they wrap, to elements of one type that are only set.
NoLookups == asks = <<>> /\ \A e \in DOMAIN els : els[e].type = AnyType

MNext ==
  \/ about = "tree" /\ AvlNext /\ UNCHANGED <<about, mapVars, file>>
  \/ about = "lookups" /\ MapStep /\ FewIds' /\ UNCHANGED <<about, avlVars>>
  \/ about = "processes" /\ MapStep /\ NoLookups' /\ UNCHANGED <<about, avlVars>>

MSpec == MInit /\ [][MNext]_<<avlVars, about, mapVars, file>>

IdSymmetry == Permutations(Long) \cup Permutations(Types \ {AnyType})
=============================================================================
