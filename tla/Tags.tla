-------------------------------- MODULE Tags --------------------------------
(***************************************************************************)
(* The lares- tag namespace (kmail/tags.py).  A tag is its full name, a    *)
(* taxonomy category carrying the lares- prefix it has once it is applied  *)
(* to an item.                                                             *)
(***************************************************************************)

CONSTANT Taxonomy    \* the tags of the categories configured in [kmail.tags]

LARES_PENDING      == "lares-pending"
LARES_UNCLASSIFIED == "lares-unclassified"
LARES_ERROR        == "lares-error"

NoTag == "none"      \* an item that carries no lares-* tag

(* What Classifier.classify can return: a category of the taxonomy, or     *)
(* LARES_UNCLASSIFIED when the model is not confident enough.              *)
Verdicts == Taxonomy \cup {LARES_UNCLASSIFIED}

(* The tags is_lares_tag accepts among those that occur in the model.      *)
LaresTags == Verdicts \cup {LARES_PENDING, LARES_ERROR}

is_lares_tag(t) == t \in LaresTags

(* NoTag is not a tag.  Nothing keeps the taxonomy apart from the control  *)
(* tags: config.py accepts a category named "pending".                     *)
ASSUME TaxonomyAssumption == NoTag \notin Taxonomy
=============================================================================
