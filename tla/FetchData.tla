----------------------------- MODULE FetchData -----------------------------
(***************************************************************************)
(* Interface::table_fetch_data (interface/src/func.rs): the restriction    *)
(* planner that picks an index slot, a seek condition and a residual map,  *)
(* followed by the cursor protocol open_cursor / cursor_next / cursor_fetch *)
(* that filters every fetched row against the residual map.                *)
(*                                                                         *)
(* The storage engine behind the FFI boundary is an environment: every     *)
(* boundary call may return any status_t, and an opened cursor yields the  *)
(* table rows selected by the seek condition (all rows for slot -1).       *)
(***************************************************************************)
EXTENDS Integers, Sequences, SequencesExt, FiniteSets

CONSTANTS
  Columns,          \* column names of the entity
  Vals,             \* column values (crud_value strings)
  IndexNames,       \* names an index may be declared with
  Tables,           \* candidate table contents, rows in storage order
  IndexConfigs,     \* candidate index lists, in declaration order
  RestrictionSets,  \* candidate restriction vectors passed by the caller
  CursorNextStatuses \* the statuses the engine's db_cursor_next may return

Row == [Columns -> Vals]
Restriction == [name : Columns, value : Vals]
Index == [name : IndexNames, cols : Seq(Columns), col_count : Nat, idx_slot : Nat]

ASSUME Tables \subseteq Seq(Row)
ASSUME IndexConfigs \subseteq Seq(Index)
ASSUME RestrictionSets \subseteq Seq(Restriction) \ {<<>>}
\* StIndexDef is declared consistently: col_count = len(cols) > 0
ASSUME \A I \in IndexConfigs : \A k \in 1..Len(I) :
         I[k].col_count = Len(I[k].cols) /\ I[k].cols # <<>>

\* status_t of data.rs
GS_ERROR == -1
GS_SUCCESS == 0
GS_TIMEDOUT == 1
Statuses == {GS_ERROR, GS_SUCCESS, GS_TIMEDOUT}

ASSUME GS_SUCCESS \in CursorNextStatuses /\ CursorNextStatuses \subseteq Statuses

VARIABLES
  table,     \* rows stored by the engine (fixed during one fetch)
  indexes,   \* indexs_vec, the entity's StIndexDef list
  restr,     \* cond_column_defs, the restriction vector
  pc,        \* position in table_fetch_data
  cursor,    \* rows the engine cursor yields
  pos,       \* rows of the cursor consumed by cursor_next
  result,    \* res_row_defs, the rows handed back to the caller
  ret,       \* status returned by table_fetch_data
  failed     \* history: some boundary call returned a non-success status

vars == <<table, indexes, restr, pc, cursor, pos, result, ret, failed>>

-----------------------------------------------------------------------------
(* The planner: pure functions of the restriction vector R and the index *)
(* list I, evaluated before open_cursor.                                  *)

\* First index whose col_count equals len(R) and whose columns equal the
\* restriction names position by position (0 when there is none).
CompositeIndex(R, I) ==
  SelectInSeq(I, LAMBDA ix : /\ ix.col_count = Len(R)
                             /\ \A x \in 1..Len(R) : R[x].name = ix.cols[x])

\* Position in R of the first restriction on the first column of index ix.
PartialPos(R, ix) == SelectInSeq(R, LAMBDA r : r.name = ix.cols[1])

\* Only when len(R) > 1 and no composite match: the first index whose first
\* column some restriction names (0 when there is none).
PartialIndex(R, I) ==
  IF Len(R) > 1 /\ CompositeIndex(R, I) = 0
  THEN SelectInSeq(I, LAMBDA ix : PartialPos(R, ix) # 0)
  ELSE 0

IdxSlot(R, I) ==
  IF CompositeIndex(R, I) # 0 THEN I[CompositeIndex(R, I)].idx_slot
  ELSE IF PartialIndex(R, I) # 0 THEN I[PartialIndex(R, I)].idx_slot
  ELSE -1

\* cond_column_defs_ref: the one chosen restriction after a partial match.
SeekConds(R, I) ==
  IF PartialIndex(R, I) # 0
  THEN << R[PartialPos(R, I[PartialIndex(R, I)])] >>
  ELSE R

\* HashMap r_map filled in restriction order: a later restriction on the
\* same column overwrites an earlier one.
RMap(R, names) ==
  LET keys == {R[x].name : x \in 1..Len(R)} \cap names
  IN [c \in keys |-> R[SelectLastInSeq(R, LAMBDA r : r.name = c)].value]

\* The residual predicates: all restrictions on a full scan; after a partial
\* match those whose column name differs from the chosen index's name.
Residual(R, I) ==
  IF IdxSlot(R, I) = -1 THEN RMap(R, Columns)
  ELSE IF PartialIndex(R, I) # 0
       THEN RMap(R, Columns \ {I[PartialIndex(R, I)].name})
       ELSE RMap(R, {})

\* Mutant: the residual test is inverted, a row is discarded when the
\* column holds the expected value.
KeepInverted(row, R, I) ==
  \A c \in DOMAIN Residual(R, I) : row[c] # Residual(R, I)[c]

\* A fetched row is kept unless a residual column holds another value.
Keep(row, R, I) ==
  \A c \in DOMAIN Residual(R, I) : row[c] = Residual(R, I)[c]

-----------------------------------------------------------------------------
(* The engine (db_open_cursor_ex): slot -1 scans the whole table, an index *)
(* slot yields the rows equal to every seek condition, in storage order.   *)

EngineScan(tbl, conds, slot) ==
  IF slot = -1 THEN tbl
  ELSE SelectSeq(tbl, LAMBDA row : \A x \in 1..Len(conds) :
                                     row[conds[x].name] = conds[x].value)

-----------------------------------------------------------------------------
(* The boundary wrappers of interface/src/lib.rs: each makes its one       *)
(* engine call and returns the engine's status unchanged (printing on     *)
(* failure), so what each may return is any status.                        *)

\* open_table_with_name: db_open_table's libc::c_int.
OpenTableWithName == Statuses
\* open_cursor: db_open_cursor_ex's status_t `as i32`; the cursor and eof
\* are the engine's (EngineScan).
OpenCursorCall == Statuses
\* cursor_next: db_cursor_next's status_t `as i32`.
CursorNextCall == CursorNextStatuses
\* cursor_fetch: db_cursor_fetch's status_t `as i32`.
CursorFetchCall == Statuses

-----------------------------------------------------------------------------

Init ==
  /\ table \in Tables
  /\ indexes \in IndexConfigs
  /\ restr \in RestrictionSets
  /\ pc = "open_table"
  /\ cursor = <<>>
  /\ pos = 0
  /\ result = <<>>
  /\ ret = GS_SUCCESS
  /\ failed = FALSE

\* open_table; a failure returns its status before any other call.
OpenTable ==
  /\ pc = "open_table"
  /\ \E s \in OpenTableWithName :
       IF s = GS_SUCCESS
       THEN /\ pc' = "open_cursor"
            /\ UNCHANGED <<ret, failed>>
       ELSE /\ pc' = "done"
            /\ ret' = s
            /\ failed' = TRUE
  /\ UNCHANGED <<table, indexes, restr, cursor, pos, result>>

\* Plan, then open_cursor with the seek conditions and the slot.
OpenCursor ==
  /\ pc = "open_cursor"
  /\ \E s \in OpenCursorCall :
       /\ ret' = s
       /\ IF s = GS_SUCCESS
          THEN /\ cursor' = EngineScan(table, SeekConds(restr, indexes),
                                       IdxSlot(restr, indexes))
               /\ pc' = "next"
               /\ UNCHANGED failed
          ELSE /\ pc' = "done"
               /\ failed' = TRUE
               /\ UNCHANGED cursor
  /\ UNCHANGED <<table, indexes, restr, pos, result>>

\* Mutant: the eof flag is not tested, cursor_next moves past the last row.
CursorNextNoEof ==
  /\ pc = "next"
  /\ \E s \in CursorNextCall :
       \/ /\ s # GS_SUCCESS
          /\ pc' = "done"
          /\ failed' = TRUE
          /\ UNCHANGED pos
       \/ /\ s = GS_SUCCESS
          /\ pos' = pos + 1
          /\ pc' = "fetch"
          /\ UNCHANGED failed
  /\ UNCHANGED <<table, indexes, restr, cursor, result, ret>>

\* while cursor_next(..) == GS_SUCCESS { if eof { break } ... }: a failing
\* cursor_next ends the loop like eof, and the function returns ret, the
\* status of open_cursor.
CursorNext ==
  /\ pc = "next"
  /\ \E s \in CursorNextCall :
       \/ /\ s # GS_SUCCESS \/ pos = Len(cursor)
          /\ pc' = "done"
          /\ failed' = (failed \/ s # GS_SUCCESS)
          /\ UNCHANGED pos
       \/ /\ s = GS_SUCCESS
          /\ pos < Len(cursor)
          /\ pos' = pos + 1
          /\ pc' = "fetch"
          /\ UNCHANGED failed
  /\ UNCHANGED <<table, indexes, restr, cursor, result, ret>>

\* Mutant: a discarded row breaks out of the fetch loop, not only out of
\* the column loop.
CursorFetchStopOnDiscard ==
  /\ pc = "fetch"
  /\ \E s \in CursorFetchCall :
       IF s = GS_SUCCESS
       THEN IF Keep(cursor[pos], restr, indexes)
            THEN /\ result' = Append(result, cursor[pos])
                 /\ pc' = "next"
                 /\ UNCHANGED <<ret, failed>>
            ELSE /\ pc' = "done"
                 /\ UNCHANGED <<result, ret, failed>>
       ELSE /\ pc' = "done"
            /\ ret' = s
            /\ failed' = TRUE
            /\ UNCHANGED result
  /\ UNCHANGED <<table, indexes, restr, cursor, pos>>

\* cursor_fetch, then the residual check; a kept row is appended, a
\* discarded one is skipped and the loop goes on.
CursorFetch ==
  /\ pc = "fetch"
  /\ \E s \in CursorFetchCall :
       IF s = GS_SUCCESS
       THEN /\ result' = IF Keep(cursor[pos], restr, indexes)
                         THEN Append(result, cursor[pos])
                         ELSE result
            /\ pc' = "next"
            /\ UNCHANGED <<ret, failed>>
       ELSE /\ pc' = "done"
            /\ ret' = s
            /\ failed' = TRUE
            /\ UNCHANGED result
  /\ UNCHANGED <<table, indexes, restr, cursor, pos>>

Next == OpenTable \/ OpenCursor \/ CursorNext \/ CursorFetch

\* table_fetch_data runs on the caller's thread from start to return, and
\* every boundary call returns: the function keeps taking steps.
Spec == Init /\ [][Next]_vars /\ WF_vars(Next)

-----------------------------------------------------------------------------

TypeOK ==
  /\ table \in Seq(Row)
  /\ restr \in Seq(Restriction)
  /\ pc \in {"open_table", "open_cursor", "next", "fetch", "done"}
  /\ cursor \in Seq(Row)
  /\ pos \in 0..Len(cursor)
  /\ result \in Seq(Row)
  /\ ret \in Statuses
  /\ failed \in BOOLEAN

\* The logical answer of a query: the stored rows equal to every
\* restriction, in storage order.
Satisfies(row, R) == \A x \in 1..Len(R) : row[R[x].name] = R[x].value
Answer == SelectSeq(table, LAMBDA row : Satisfies(row, restr))

\* Whatever index the planner picks, and even when the fetch stops early on
\* an engine error, the rows handed back so far are a prefix of the answer:
\* no row that violates a restriction, none twice, none out of order.
ResultIsPrefixOfAnswer == IsPrefix(result, Answer)

\* Spec 4.5: a non-success status of any boundary call is the status the
\* whole fetch returns.
FailureReported ==
  (pc = "done" /\ failed) => ret # GS_SUCCESS

\* The fetch seen by its caller: the rows handed back, and once it returns,
\* "ok" if table_fetch_data returned GS_SUCCESS and "error" otherwise.
Q == INSTANCE Query WITH
       out <- result,
       outcome <- IF pc # "done" THEN "running"
                  ELSE IF ret = GS_SUCCESS THEN "ok" ELSE "error"

\* table_fetch_data implements Query whichever of the composite, partial or
\* full-scan paths the planner takes: it only ever hands back the next row
\* of the logical answer, returns GS_SUCCESS only after the whole answer,
\* and always returns.  This holds as long as db_cursor_next itself never
\* fails: a failing one is taken for eof and the fetch returns GS_SUCCESS
\* with part of the answer (the run fetch_error_swallowed).
QueryRefinement == Q!Spec

=============================================================================
