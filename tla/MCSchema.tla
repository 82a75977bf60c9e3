----------------------------- MODULE MCSchema -----------------------------
(* The User entity of rdb_index_002, id and name1, with a second,          *)
(* secondary index on name1 (commented out in main.rs): two declared       *)
(* slots, so a failure of the first index can shift the second.  Names are *)
(* written character by character, as the registry's replace chain sees   *)
(* them; the other columns and the numeric fields play no part.            *)
EXTENDS Schema

id == <<"i", "d">>
name1 == <<"n", "a", "m", "e", "1">>
VARCHAR == <<"V", "A", "R", "C", "H", "A", "R">>

\* #[column(r#"{"name":..,"types":"VARCHAR","col_slot":..,"default_val":"",
\* "comment":""}"#)]
ColumnAttr(n, slot) ==
  [prop |-> "column", tokens |-> TRUE,
   def |-> [name |-> n, types |-> VARCHAR, col_slot |-> slot,
            default_val |-> <<>>, comment |-> <<>>]]

\* #[index(r#"{"name":..,"cols":[..],"idx_slot":..,"col_count":1}"#)]
IndexAttr(n, col, slot) ==
  [prop |-> "index", tokens |-> TRUE,
   def |-> [name |-> n, cols |-> <<col>>, idx_slot |-> slot, col_count |-> 1]]

MCFields ==
  << << ColumnAttr(id, 0), IndexAttr(<<"I", "D", "X", "_", "i", "d">>, id, 0) >>,
     << ColumnAttr(name1, 1),
        IndexAttr(<<"I", "D", "X", "_", "n", "a", "m", "e", "1">>, name1, 1) >> >>

=============================================================================
