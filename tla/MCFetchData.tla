---------------------------- MODULE MCFetchData ----------------------------
(***************************************************************************)
(* FetchData for TLC: the User entity of main.rs cut down to two columns,  *)
(* two values, tables of up to two rows with a unique primary key "id",    *)
(* the index lists that drive each planner branch, and every restriction  *)
(* vector of one or two restrictions on distinct columns.                  *)
(***************************************************************************)
EXTENDS FetchData

MCColumns == {"id", "name1"}
MCVals == {"a", "b"}
MCIndexNames == {"IDX_id", "IDX_name1", "IDX_id_name1", "id", "name1"}

MCRows == [MCColumns -> MCVals]

\* the primary key column "id" is unique in a stored table
MCTables ==
  {<<>>} \cup {<<r>> : r \in MCRows} \cup
  {t \in {<<r1, r2>> : r1, r2 \in MCRows} : t[1]["id"] # t[2]["id"]}

Idx(nm, cs, slot) ==
  [name |-> nm, cols |-> cs, col_count |-> Len(cs), idx_slot |-> slot]

\* no index (rdb_index_001); IDX_id on [id] (the User entity); a composite
\* index; two single-column indexes; an index named after its column.
MCIndexConfigs ==
  { <<>>,
    << Idx("IDX_id", <<"id">>, 0) >>,
    << Idx("IDX_id_name1", <<"id", "name1">>, 0) >>,
    << Idx("IDX_name1", <<"name1">>, 0), Idx("IDX_id", <<"id">>, 1) >>,
    << Idx("id", <<"id">>, 0) >> }

\* db_cursor_next succeeds; open_table, open_cursor and cursor_fetch may
\* still return any status.
MCCursorNextReliable == {GS_SUCCESS}

MCRestrictions == [name : MCColumns, value : MCVals]

\* Restriction vectors of length 1 and 2 naming distinct columns.
MCRestrictionSets ==
  {<<r>> : r \in MCRestrictions} \cup
  {t \in {<<r1, r2>> : r1, r2 \in MCRestrictions} : t[1].name # t[2].name}

\* An index over [id] whose declared name is the other column's name.
MCIndexNamedLikeColumnConfigs ==
  { << Idx("name1", <<"id">>, 0) >> }

\* Restriction vectors of two restrictions on the same column, which
\* select_by_columns accepts like any other vector.
MCSameColumnRestrictionSets ==
  {t \in {<<r1, r2>> : r1, r2 \in MCRestrictions} : t[1].name = t[2].name}
\* Inputs that reach both residual-map defects: the index lists above plus
\* one named like the other column, and restriction vectors with and
\* without two restrictions on one column.
MCResidualIndexConfigs == MCIndexConfigs \cup MCIndexNamedLikeColumnConfigs
MCResidualRestrictionSets == MCRestrictionSets \cup MCSameColumnRestrictionSets

=============================================================================
