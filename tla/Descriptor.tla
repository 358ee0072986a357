------------------------------ MODULE Descriptor ------------------------------
(***************************************************************************)
(* datapackage_describe's merge (operator.rs): finetype's descriptor of a  *)
(* built Parquet, overlaid with the sidecar a person curates.              *)
(*                                                                         *)
(* A descriptor's root, its resource and a field are functions from keys   *)
(* to values.  base has root, resource and fields, a sequence; the         *)
(* sidecar has root, resource, fields (by name), primaryKey and            *)
(* foreignKeys, each a relation written as a list, as one text, or absent. *)
(***************************************************************************)
EXTENDS Naturals, Sequences, SequencesExt, FiniteSets, TLC

NOMINATED_KEY == "x-finetype-nominated"
NOMINATION_CLAIM_KEYS == {"type", "x-finetype-label", "x-finetype-confidence"}
Absent == [as |-> "absent", cols |-> << >>]

\* The field arrays a sidecar may put in place of finetype's: the one of a
\* resources override, then of resource.schema.
FieldsOf(base, over) ==
    IF over.schema # << >> THEN over.schema
    ELSE IF over.resources # << >> THEN over.resources ELSE base.fields

present(fields) == {fields[i]["name"] : i \in DOMAIN fields}
nominated(fields) ==
    {fields[i]["name"] : i \in {i \in DOMAIN fields :
        NOMINATED_KEY \in DOMAIN fields[i] /\ fields[i][NOMINATED_KEY] = "true"}}

-----------------------------------------------------------------------------
(* check_field_claims: what refuses a sidecar, and what it is warned of.   *)
Claims(block) == DOMAIN block \cap NOMINATION_CLAIM_KEYS

forged(blocks) == {n \in DOMAIN blocks : NOMINATED_KEY \in DOMAIN blocks[n]}
contradicted(blocks, nominees) ==
    {n \in (DOMAIN blocks \cap nominees) \ forged(blocks) : Claims(blocks[n]) # {}}
check_field_claims(blocks, nominees) ==
    [refused  |-> forged(blocks) \cup contradicted(blocks, nominees) # {},
     warnings |-> {<<n, k>> \in (DOMAIN blocks \ nominees) \X NOMINATION_CLAIM_KEYS :
                     n \notin forged(blocks) /\ k \in Claims(blocks[n])}
                  \cup {<<n, "constraints">> : n \in {n \in DOMAIN blocks \cap nominees :
                          "constraints" \in DOMAIN blocks[n] /\ Claims(blocks[n]) = {}}}]

-----------------------------------------------------------------------------
(* check_relations: only a relation written as a list is looked at.        *)
Related(relation) == IF relation.as = "list" THEN ToSet(relation.cols) ELSE {}
check_relations(relations, columns) ==
    \A k \in DOMAIN relations : Related(relations[k]) \subseteq columns

(* merge_datapackage: the root's keys, the resource's, then each field's,  *)
(* then the relations; what is refused writes nothing.                     *)
Overlaid(fields, blocks) ==
    [i \in DOMAIN fields |->
        IF fields[i]["name"] \in DOMAIN blocks
        THEN blocks[fields[i]["name"]] @@ fields[i] ELSE fields[i]]

Relations(base, over) ==
    [k \in {"primaryKey", "foreignKeys"} |->
        IF over[k].as = "absent" THEN base[k] ELSE over[k]]

\* Mutant of merge_datapackage: the nominations are read after the
\* sidecar's fields are laid over them.
merge_datapackage_late(base, over) ==
    LET fields    == FieldsOf(base, over)
        relations == Relations(base, over)
        overlaid  == Overlaid(fields, over.fields)
    IN  [ok   |-> /\ ~check_field_claims(over.fields, nominated(overlaid)).refused
                  /\ check_relations(relations, present(fields)),
         root |-> over.root @@ base.root, resource |-> over.resource @@ base.resource,
         fields |-> overlaid, relations |-> relations]

merge_datapackage(base, over) ==
    LET fields    == FieldsOf(base, over)
        relations == Relations(base, over)
    IN  [ok   |-> /\ ~check_field_claims(over.fields, nominated(fields)).refused
                  /\ check_relations(relations, present(fields)),
         root |-> over.root @@ base.root, resource |-> over.resource @@ base.resource,
         fields |-> Overlaid(fields, over.fields), relations |-> relations]

-----------------------------------------------------------------------------
\* A sidecar that replaces the field array takes its own word for it.
Wholesale(over) == over.schema # << >> \/ over.resources # << >>

(* operator.rs:4350, operator.rs:4507: a descriptor that is written says   *)
(* of each column what finetype said, but for the keys the sidecar sets;   *)
(* a nominated column keeps its mark, type, label and confidence, and no   *)
(* other column gains a mark; and each column its relations list is one of *)
(* the Parquet's.                                                          *)
DescriptorIsCurated(base, over) ==
    LET out == merge_datapackage(base, over) IN
    out.ok /\ ~Wholesale(over) =>
      /\ Len(out.fields) = Len(base.fields)
      /\ \A i \in DOMAIN base.fields :
           LET was == base.fields[i]
               is  == out.fields[i]
               set == IF was["name"] \in DOMAIN over.fields
                      THEN DOMAIN over.fields[was["name"]] ELSE {}
           IN  /\ DOMAIN was \subseteq DOMAIN is
               /\ \A k \in DOMAIN was \ set : is[k] = was[k]
               /\ NOMINATED_KEY \in DOMAIN is =>
                    /\ NOMINATED_KEY \in DOMAIN was
                    /\ was[NOMINATED_KEY] = "true" =>
                         \A k \in NOMINATION_CLAIM_KEYS \cap DOMAIN was : is[k] = was[k]
      /\ \A k \in DOMAIN out.relations :
           out.relations[k].as = "list" =>
             ToSet(out.relations[k].cols) \subseteq {base.fields[i]["name"] : i \in DOMAIN base.fields}
=============================================================================
