------------------------------ MODULE Schema ------------------------------
(***************************************************************************)
(* The schema operations the Create derive generates for an entity         *)
(* (macro_driver/src/lib.rs create_macro_impl): create_table, which calls   *)
(* create_table_without_index and then create_table_index for each        *)
(* declared index, and create_index, which runs the same index loop.        *)
(* create_table_index (interface/src/func.rs) opens the table first.       *)
(* Both loops walk get_table_indexs(), which the Registry builds from the  *)
(* entity's #[index] annotations.                                          *)
(*                                                                         *)
(* The engine's catalog is an environment: whether the table exists and   *)
(* its indexes in slot order.  A new index takes the next free slot; a     *)
(* call may fail with any status; creating an existing table or index, or  *)
(* an index of a missing table, fails.                                     *)
(***************************************************************************)
EXTENDS Integers, Sequences, SequencesExt, Registry

CONSTANTS
  Fields     \* the entity's fields, each the sequence of its attributes

\* `let indexs = table.get_table_indexs()`, the list both loops walk.
Declared == GetTableIndexs(Fields)

GS_ERROR == -1
GS_SUCCESS == 0
GS_TIMEDOUT == 1
Statuses == {GS_ERROR, GS_SUCCESS, GS_TIMEDOUT}

VARIABLES
  tableExists,   \* the engine has the table
  slots,         \* the engine's indexes of the table, by slot
  pc,            \* "idle", or the method and loop it is in
  k,             \* the loop's position in Declared
  ret,           \* create_table's own status (create_table_without_index)
  rets,          \* the loop's summary: -1 once an index call failed
  last           \* the method that returned last and its Ok value

vars == <<tableExists, slots, pc, k, ret, rets, last>>

-----------------------------------------------------------------------------
(* The engine's catalog calls.                                             *)

\* gstor_create_user_table with no indexes.
CreateTableOutcomes ==
  IF tableExists THEN {GS_ERROR} ELSE Statuses

\* create_table_index: open_table, then gstor_create_index; the status and
\* whether the index was added.
CreateTableIndexOutcomes(name) ==
  IF ~tableExists THEN {[st |-> s, added |-> FALSE] : s \in Statuses \ {GS_SUCCESS}}
  ELSE IF name \in ToSet(slots) THEN {[st |-> GS_ERROR, added |-> FALSE]}
  ELSE {[st |-> GS_SUCCESS, added |-> TRUE]}
       \cup {[st |-> s, added |-> FALSE] : s \in Statuses \ {GS_SUCCESS}}

-----------------------------------------------------------------------------

Init ==
  /\ tableExists = FALSE
  /\ slots = <<>>
  /\ pc = "idle"
  /\ k = 1
  /\ ret = GS_SUCCESS
  /\ rets = 0
  /\ last = [op |-> "none", ok |-> 0]

\* create_table: create_table_without_index, whose status is kept in ret;
\* the index loop runs whatever it returned.
CreateTable ==
  /\ pc = "idle"
  /\ \E s \in CreateTableOutcomes :
       /\ ret' = s
       /\ tableExists' = (tableExists \/ s = GS_SUCCESS)
  /\ pc' = "create_table"
  /\ k' = 1
  /\ rets' = 0
  /\ UNCHANGED <<slots, last>>

\* create_index: the index loop alone.
CreateIndex ==
  /\ pc = "idle"
  /\ pc' = "create_index"
  /\ k' = 1
  /\ rets' = 0
  /\ UNCHANGED <<tableExists, slots, ret, last>>

\* Mutant: the loop keeps the failing status instead of -1.
IndexStepKeepStatus ==
  /\ pc \in {"create_table", "create_index"}
  /\ k <= Len(Declared)
  /\ \E o \in CreateTableIndexOutcomes(Declared[k].name) :
       /\ slots' = IF o.added THEN Append(slots, Declared[k].name) ELSE slots
       /\ rets' = IF o.st # GS_SUCCESS THEN o.st ELSE rets
  /\ k' = k + 1
  /\ UNCHANGED <<tableExists, pc, ret, last>>

\* Mutant: a failing create_table_index is not recorded in rets.
IndexStepNoRets ==
  /\ pc \in {"create_table", "create_index"}
  /\ k <= Len(Declared)
  /\ \E o \in CreateTableIndexOutcomes(Declared[k].name) :
       slots' = IF o.added THEN Append(slots, Declared[k].name) ELSE slots
  /\ k' = k + 1
  /\ UNCHANGED <<tableExists, pc, ret, rets, last>>

\* One iteration of `for index in &indexs { let ret = create_table_index(..);
\* if ret != 0 { rets = -1 } }`, shared by both methods.
IndexStep ==
  /\ pc \in {"create_table", "create_index"}
  /\ k <= Len(Declared)
  /\ \E o \in CreateTableIndexOutcomes(Declared[k].name) :
       /\ slots' = IF o.added THEN Append(slots, Declared[k].name) ELSE slots
       /\ rets' = IF o.st # GS_SUCCESS THEN -1 ELSE rets
  /\ k' = k + 1
  /\ UNCHANGED <<tableExists, pc, ret, last>>

\* create_table returns Ok(ret): the table's status, not the loop's.
CreateTableReturn ==
  /\ pc = "create_table"
  /\ k > Len(Declared)
  /\ last' = [op |-> "create_table", ok |-> ret]
  /\ pc' = "idle"
  /\ UNCHANGED <<tableExists, slots, k, ret, rets>>

\* create_index returns Ok(rets).
CreateIndexReturn ==
  /\ pc = "create_index"
  /\ k > Len(Declared)
  /\ last' = [op |-> "create_index", ok |-> rets]
  /\ pc' = "idle"
  /\ UNCHANGED <<tableExists, slots, k, ret, rets>>

Next ==
  \/ CreateTable \/ CreateIndex \/ IndexStep
  \/ CreateTableReturn \/ CreateIndexReturn

Spec == Init /\ [][Next]_vars

-----------------------------------------------------------------------------

TypeOK ==
  /\ tableExists \in BOOLEAN
  /\ slots \in Seq({Declared[i].name : i \in DOMAIN Declared})
  /\ pc \in {"idle", "create_table", "create_index"}
  /\ k \in 1..Len(Declared) + 1
  /\ ret \in Statuses /\ rets \in {-1, 0}
  /\ last.op \in {"none", "create_table", "create_index"} /\ last.ok \in Statuses

AllDeclaredCreated ==
  \A i \in DOMAIN Declared : Declared[i].name \in ToSet(slots)

\* create_index answers Ok(0) only when every declared index now exists,
\* whatever the table and earlier calls left behind.
CreateIndexAckMeansComplete ==
  (pc = "idle" /\ last.op = "create_index" /\ last.ok = GS_SUCCESS)
    => tableExists /\ AllDeclaredCreated

\* Spec 7: a boundary failure while creating the schema is propagated, so
\* create_table's Ok(0) means the planner's view of the schema is the
\* engine's: every declared index exists, in the slot table_fetch_data
\* seeks it by.
CreateTableAckGivesDeclaredSlots ==
  (pc = "idle" /\ last.op = "create_table" /\ last.ok = GS_SUCCESS)
    => /\ tableExists
       /\ \A i \in DOMAIN Declared :
            /\ Declared[i].idx_slot < Len(slots)
            /\ slots[Declared[i].idx_slot + 1] = Declared[i].name

\* The planner seeks an index by the idx_slot its #[index] annotation
\* names.  When create_table made the table and every one of its index
\* calls succeeded, each annotated index sits in that slot under the name
\* the annotation wrote: the registry keeps the annotations' order, its
\* replace chain leaves the names alone, and the loop adds them in turn.
IndexesLandInAnnotatedSlots ==
  (pc = "idle" /\ last.op = "create_table" /\ last.ok = GS_SUCCESS /\ rets = 0)
    => \A d \in AnnotatedIndexes(Fields) :
         /\ d.idx_slot < Len(slots)
         /\ slots[d.idx_slot + 1] = d.name

=============================================================================
