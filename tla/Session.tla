------------------------------ MODULE Session ------------------------------
(***************************************************************************)
(* The CRUD orchestrator on one table handle: the generated insert,        *)
(* update_by_column and delete_by_column methods, each with and without    *)
(* auto-commit (macro_driver/src/lib.rs, src/crud.rs), and the explicit    *)
(* commit / rollback methods.  Each method runs to completion before the   *)
(* caller issues the next one (spec 5: one handle is used sequentially),   *)
(* so each is one action.                                                  *)
(*                                                                         *)
(* The engine is an environment with a committed table and the handle's   *)
(* working view: writes go to the view, commit publishes it, rollback      *)
(* discards it.  Every boundary call may fail; a failed statement leaves   *)
(* the view unchanged; a primary-key clash always fails.                   *)
(***************************************************************************)
EXTENDS Integers, FiniteSets, Sequences

CONSTANTS
  Ids,            \* values of the primary-key column "id"
  Vals,           \* values a caller may give column "name1"
  None,           \* an Option field that is None
  Absent,         \* no row with this id
  CommitCanFail,  \* whether db_commit / db_rollback may return an error
  SelectVectors   \* restriction vectors callers give select_by_columns

\* insert_macro turns a non-string rbs value into text with to_string():
\* a None field is stored as the four characters "null".
NullText == "null"
Stored == Vals \cup {NullText}

ASSUME None \notin Vals /\ NullText \notin Vals /\ Absent \notin Stored
ASSUME CommitCanFail \in BOOLEAN

GS_ERROR == -1
GS_SUCCESS == 0
GS_TIMEDOUT == 1
Statuses == {GS_ERROR, GS_SUCCESS, GS_TIMEDOUT}
EndStatuses == IF CommitCanFail THEN Statuses ELSE {GS_SUCCESS}

Table == [Ids -> Stored \cup {Absent}]
Entity == [id : Ids, name1 : Vals \cup {None}]
Restriction == [name : {"id"}, value : Ids] \cup [name : {"name1"}, value : Stored]
Ops == {"none", "insert", "update", "delete", "commit", "rollback",
        "select", "select_fresh", "selects", "selects_fresh", "selects_err"}
ASSUME SelectVectors \subseteq Seq(Restriction)
RestrictionVecs == {<<>>} \cup {<<r>> : r \in Restriction} \cup SelectVectors

VARIABLES
  committed,   \* table state published by db_commit
  work,        \* the handle's view: committed plus its open transaction
  last,        \* the last generated method called and what it did
  sel          \* the last select: its restriction vector and the ids of the rows it returned

vars == <<committed, work, last, sel>>

-----------------------------------------------------------------------------
(* The engine's statements (spec 6): rows matched by one restriction, and  *)
(* the table a successful statement produces, or Absent-free legality.     *)

Matches(w, r) ==
  {k \in Ids : /\ w[k] # Absent
               /\ IF r.name = "id" THEN k = r.value ELSE w[k] = r.value}

InsertLegal(w, e) == w[e.id] = Absent

\* Mutant: the Option value is handed to the engine without to_string().
InsertRowNoEncode(w, e) == [w EXCEPT ![e.id] = e.name1]

InsertRow(w, e) ==
  [w EXCEPT ![e.id] = IF e.name1 = None THEN NullText ELSE e.name1]

\* update_macro sends only non-null fields: "id" always, "name1" unless
\* None.  Every matched row gets the entity's id, so at most one row may
\* match and the new id must not belong to another row.
UpdateLegal(w, e, r) ==
  \/ Matches(w, r) = {}
  \/ /\ Cardinality(Matches(w, r)) = 1
     /\ w[e.id] = Absent \/ e.id \in Matches(w, r)
UpdateRows(w, e, r) ==
  IF Matches(w, r) = {} THEN w
  ELSE LET k == CHOOSE m \in Matches(w, r) : TRUE
           v == IF e.name1 = None THEN w[k] ELSE e.name1
       IN [[w EXCEPT ![k] = Absent] EXCEPT ![e.id] = v]

DeleteRows(w, r) == [k \in Ids |-> IF k \in Matches(w, r) THEN Absent ELSE w[k]]

\* Outcomes of open_table followed by one statement: the status returned to
\* the macro, whether the table opened, and the view afterwards.
CallOutcomes(w, legal, new) ==
  {[ret |-> s, opened |-> FALSE, tbl |-> w] : s \in Statuses \ {GS_SUCCESS}}
  \cup {[ret |-> s, opened |-> TRUE, tbl |-> w] : s \in Statuses \ {GS_SUCCESS}}
  \cup (IF legal THEN {[ret |-> GS_SUCCESS, opened |-> TRUE, tbl |-> new]}
                 ELSE {})

-----------------------------------------------------------------------------
(* The generated methods.                                                  *)

\* insert_macro / update_macro: `if(commit){ if(ret==0){commit}else{rollback} }`
InsertUpdateCommits(ret) == ret = GS_SUCCESS

\* delete_macro: `if(commit){ if(ret<0){rollback}else{commit} }`
DeleteCommits(ret) == ~(ret < 0)

\* Mutant: the `else{ db_rollback }` branch is missing.
FinishNoRollback(op, o, commit, commits) ==
  IF ~commit \/ ~commits
  THEN /\ work' = o.tbl
       /\ committed' = committed
       /\ last' = [op |-> op, commit |-> commit, ret |-> o.ret,
                   opened |-> o.opened, ended |-> "none", applied |-> o.tbl]
  ELSE \E es \in EndStatuses :
         /\ committed' = IF es = GS_SUCCESS THEN o.tbl ELSE committed
         /\ work' = o.tbl
         /\ last' = [op |-> op, commit |-> TRUE, ret |-> o.ret,
                     opened |-> o.opened, ended |-> "commit", applied |-> o.tbl]

\* The tail of a macro: with auto-commit, db_commit or db_rollback, whose
\* status is ignored; without, the statement stays in the open transaction.
Finish(op, o, commit, commits) ==
  IF ~commit
  THEN /\ work' = o.tbl
       /\ committed' = committed
       /\ last' = [op |-> op, commit |-> FALSE, ret |-> o.ret,
                   opened |-> o.opened, ended |-> "none", applied |-> o.tbl]
  ELSE \E es \in EndStatuses :
         /\ IF commits
            THEN /\ committed' = IF es = GS_SUCCESS THEN o.tbl ELSE committed
                 /\ work' = o.tbl
            ELSE /\ committed' = committed
                 /\ work' = IF es = GS_SUCCESS THEN committed ELSE o.tbl
         /\ last' = [op |-> op, commit |-> TRUE, ret |-> o.ret,
                     opened |-> o.opened,
                     ended |-> IF commits THEN "commit" ELSE "rollback",
                     applied |-> o.tbl]

\* insert / insert_commit
Insert(e, commit) ==
  /\ \E o \in CallOutcomes(work, InsertLegal(work, e), InsertRow(work, e)) :
    Finish("insert", o, commit, InsertUpdateCommits(o.ret))
  /\ UNCHANGED sel

\* update_by_column / update_by_column_commit
Update(e, r, commit) ==
  /\ \E o \in CallOutcomes(work, UpdateLegal(work, e, r), UpdateRows(work, e, r)) :
    Finish("update", o, commit, InsertUpdateCommits(o.ret))
  /\ UNCHANGED sel

\* delete_by_column / delete_by_column_commit
Delete(r, commit) ==
  /\ \E o \in CallOutcomes(work, TRUE, DeleteRows(work, r)) :
    Finish("delete", o, commit, DeleteCommits(o.ret))
  /\ UNCHANGED sel

\* User::commit: db_commit, then Ok(0) whatever it returned.
Commit ==
  \E es \in EndStatuses :
    /\ committed' = IF es = GS_SUCCESS THEN work ELSE committed
    /\ UNCHANGED work
    /\ last' = [op |-> "commit", commit |-> TRUE, ret |-> GS_SUCCESS,
                opened |-> TRUE, ended |-> "commit", applied |-> work]
    /\ UNCHANGED sel

\* User::rollback: db_rollback, then Ok(0) whatever it returned.
Rollback ==
  \E es \in EndStatuses :
    /\ work' = IF es = GS_SUCCESS THEN committed ELSE work
    /\ UNCHANGED committed
    /\ last' = [op |-> "rollback", commit |-> TRUE, ret |-> GS_SUCCESS,
                opened |-> TRUE, ended |-> "rollback", applied |-> committed]
    /\ UNCHANGED sel

\* The table a select sees: the handle's own view, or, on a fresh handle
\* with no open transaction, the committed table.
ReadView(fresh) == IF fresh THEN committed ELSE work

\* The planner and residual filter of table_fetch_data (FetchData) for the
\* entity User of src/main.rs: columns id and name1, and its one index
\* IDX_id on [id] in slot 0.
UserIndexes == << [name |-> "IDX_id", cols |-> <<"id">>, col_count |-> 1,
                   idx_slot |-> 0] >>
P == INSTANCE FetchData WITH
       Columns <- {"id", "name1"}, Vals <- Ids \cup Stored,
       IndexNames <- {"IDX_id"}, Tables <- {}, IndexConfigs <- {UserIndexes},
       RestrictionSets <- {}, CursorNextStatuses <- Statuses, table <- <<>>, indexes <- UserIndexes,
       restr <- <<>>, pc <- "done", cursor <- <<>>, pos <- 0,
       result <- <<>>, ret <- GS_SUCCESS, failed <- FALSE

\* The rows of a view as the engine stores them, one per present id in
\* some fixed storage order.
ViewRows(w) ==
  P!FoldSet(LAMBDA k, rows : <<[id |-> k, name1 |-> w[k]]>> \o rows, <<>>,
            {m \in Ids : w[m] # Absent})

\* The ids a clean table_fetch_data hands back for restriction vector R:
\* the cursor of the planned slot and seek conditions, minus the rows the
\* residual map discards.
FetchedIds(w, R) ==
  LET rows == P!EngineScan(ViewRows(w), P!SeekConds(R, UserIndexes),
                           P!IdxSlot(R, UserIndexes))
  IN {rows[i].id : i \in {j \in 1..Len(rows) : P!Keep(rows[j], R, UserIndexes)}}

\* table_fetch_data over the handle's view (the committed table on a fresh
\* handle) for restriction vector R, then Ok(rows) whatever status it
\* returned: a clean fetch hands back the planned rows, a failing one some
\* of them (FetchData shows they are a prefix of them in cursor order).
FetchRows(R, fresh, op) ==
  /\ \E st \in Statuses, ids \in SUBSET FetchedIds(ReadView(fresh), R) :
       /\ st = GS_SUCCESS => ids = FetchedIds(ReadView(fresh), R)
       /\ sel' = [r |-> R, ids |-> ids]
       /\ last' = [op |-> op, commit |-> FALSE, ret |-> st, opened |-> TRUE,
                   ended |-> "none", applied |-> work]
  /\ UNCHANGED <<committed, work>>

\* select_by_column: the one restriction becomes an exp_column_def_t of
\* the entity's column, then table_fetch_data with the entity's indexes.
Select(r, fresh) ==
  FetchRows(<<r>>, fresh, IF fresh THEN "select_fresh" ELSE "select")

\* select_by_columns: an empty vector is refused with Err before any call;
\* otherwise one exp_column_def_t per restriction, then as select_by_column.
SelectByColumns(R, fresh) ==
  IF R = <<>>
  THEN /\ last' = [op |-> "selects_err", commit |-> FALSE, ret |-> GS_ERROR,
                   opened |-> FALSE, ended |-> "none", applied |-> work]
       /\ UNCHANGED <<committed, work, sel>>
  ELSE FetchRows(R, fresh, IF fresh THEN "selects_fresh" ELSE "selects")

-----------------------------------------------------------------------------

EmptyTable == [k \in Ids |-> Absent]

Init ==
  /\ committed = EmptyTable
  /\ work = EmptyTable
  /\ last = [op |-> "none", commit |-> FALSE, ret |-> GS_SUCCESS,
             opened |-> TRUE, ended |-> "none", applied |-> EmptyTable]
  /\ sel = [r |-> <<>>, ids |-> {}]

Next ==
  \/ \E e \in Entity, c \in BOOLEAN : Insert(e, c)
  \/ \E e \in Entity, r \in Restriction, c \in BOOLEAN : Update(e, r, c)
  \/ \E r \in Restriction, c \in BOOLEAN : Delete(r, c)
  \/ Commit
  \/ Rollback
  \/ \E r \in Restriction, f \in BOOLEAN : Select(r, f)
  \/ \E R \in SelectVectors, f \in BOOLEAN : SelectByColumns(R, f)

Spec == Init /\ [][Next]_vars

-----------------------------------------------------------------------------

TypeOK ==
  /\ committed \in Table
  /\ work \in Table
  /\ last.op \in Ops /\ last.commit \in BOOLEAN /\ last.ret \in Statuses
  /\ last.opened \in BOOLEAN /\ last.ended \in {"none", "commit", "rollback"}
  /\ last.applied \in Table
  /\ sel.r \in RestrictionVecs /\ sel.ids \subseteq Ids

\* A method that ends the transaction (an auto-commit CRUD call, commit or
\* rollback) leaves no uncommitted work on the handle, whichever of its
\* branches ran: earlier grouped statements are published or discarded
\* together with it.
TxnEndingCallLeavesNoPendingWork ==
  last.commit => work = committed

\* Spec 4.4: with auto-commit, a failed open_table short-circuits with no
\* further boundary call; otherwise the statement is committed on success
\* and rolled back on failure.
AutoCommitFollowsSpec ==
  (last.commit /\ last.op \in {"insert", "update", "delete"}) =>
    last.ended = IF ~last.opened THEN "none"
                 ELSE IF last.ret = GS_SUCCESS THEN "commit" ELSE "rollback"

\* Spec 4.3: the access path never costs a row.  After select_by_columns
\* met no boundary failure, every row of its handle's view that satisfies
\* every restriction was returned, whether the planner sought IDX_id
\* with the whole vector, with one restriction of it, or scanned the table.
\* (Rows failing a restriction may come back too: fetch_residual_filter.)
SelectByColumnsMissesNoMatch ==
  (last.op \in {"selects", "selects_fresh"} /\ last.ret = GS_SUCCESS) =>
    LET w == IF last.op = "selects" THEN work ELSE committed
    IN {k \in Ids : \A i \in 1..Len(sel.r) : k \in Matches(w, sel.r[i])}
         \subseteq sel.ids

=============================================================================
