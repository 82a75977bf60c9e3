------------------------------ MODULE Registry ------------------------------
(***************************************************************************)
(* The entity descriptor registry built by the Create derive at compile    *)
(* time (macro_driver/src/lib.rs create_macro_impl).  For every named      *)
(* field in declaration order, and each of its attributes in order, a      *)
(* #[column(..)] or #[index(..)] with tokens is cleaned of its raw-string  *)
(* wrapper by a chain of str::replace, parsed by serde_json into a         *)
(* StColumnDef or StIndexDef (codegen/src/utils/model.rs) and pushed onto  *)
(* column_vec or index_vec.  The vectors are serialized into the generated *)
(* impl and parsed back by get_table_colums_info and get_table_indexs;     *)
(* serializing and parsing the same derived struct gives it back whole.    *)
(*                                                                         *)
(* Text is a sequence of one-character strings.  An attribute's tokens     *)
(* render as (r#"{...}"#), and the chain removes every "(r", #", "# and    *)
(* ")" in them.  On the wrapper that leaves the JSON object.  The text of  *)
(* the models holds no quote and no #, so no match straddles the quotes   *)
(* around a JSON string value: the chain acts on each value alone (Clean). *)
(* An attribute is [prop, tokens, def]: its path's first segment, whether  *)
(* its tokens are non-empty (`param.len() > 0`), and the JSON it holds.    *)
(* Only index_vec is modelled: column_vec feeds create_table's column      *)
(* array and insert's encoding, whose contents no property tells apart.    *)
(***************************************************************************)
EXTENDS Naturals, Sequences, SequencesExt

RECURSIVE Replace(_, _)
\* s.replace(pat, ""): the occurrences of pat found left to right, without
\* overlap, are removed; what the removal joins is not searched again.
Replace(s, pat) ==
  IF Len(s) < Len(pat) THEN s
  ELSE IF SubSeq(s, 1, Len(pat)) = pat
       THEN Replace(SubSeq(s, Len(pat) + 1, Len(s)), pat)
       ELSE <<Head(s)>> \o Replace(Tail(s), pat)

\* .replace("(r", "").replace("#\"", "").replace("\"#", "").replace(")", "")
Clean(s) ==
  Replace(Replace(Replace(Replace(s, <<"(", "r">>), <<"#", "\"">>),
                  <<"\"", "#">>), <<")">>)

\* StIndexDef parsed from the cleaned text.
IndexDef(d) ==
  [name |-> Clean(d.name), cols |-> [i \in DOMAIN d.cols |-> Clean(d.cols[i])],
   idx_slot |-> d.idx_slot, col_count |-> d.col_count]

IsIndex(a) == a.prop = "index" /\ a.tokens

\* Every attribute of the struct: fields in order, each field's in order.
Attributes(fields) == FlattenSeq(fields)

\* Mutant: each index is inserted at the front of index_vec.
IndexVecPrepend(fields) ==
  LET xs == SelectSeq(Attributes(fields), IsIndex)
  IN [i \in 1 .. Len(xs) |-> IndexDef(xs[Len(xs) + 1 - i].def)]

\* index_vec: one StIndexDef pushed per #[index] with tokens.
IndexVec(fields) ==
  LET xs == SelectSeq(Attributes(fields), IsIndex)
  IN [i \in 1 .. Len(xs) |-> IndexDef(xs[i].def)]

\* The generated get_table_indexs: index_vec parsed back.
GetTableIndexs(fields) == IndexVec(fields)

\* The #[index] annotations as written, before any cleaning.
AnnotatedIndexes(fields) == {a.def : a \in ToSet(SelectSeq(Attributes(fields), IsIndex))}

=============================================================================
