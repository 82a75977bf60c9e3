------------------------------ MODULE Harness ------------------------------
(***************************************************************************)
(* The ORM's demonstration harness (src/interface/rust/ncti-orm/src/       *)
(* main.rs).  Each scenario rdb_* builds an Interface on a data directory, *)
(* open_db (engine startup), init_handle (db_alloc), a fixed list of the   *)
(* generated User methods, and db_shutdown.  Two binaries run them:        *)
(*   - "menu": main reads a line, runs the scenarios of its digit, shows  *)
(*     the menu and reads again; any other line ends the loop;            *)
(*   - "tests": the #[test] functions, which libtest sorts by name and,   *)
(*     with --test-threads=1, runs one after another.                      *)
(* The methods on data_add_thread1 are Session's actions, on a Session     *)
(* instance whose committed table survives db_shutdown (the directory is   *)
(* kept) and whose handle view does not.  The data directories start       *)
(* empty.  The engine is an environment: when EngineFails, startup,        *)
(* db_alloc, create_table and every statement may fail as in Session;      *)
(* otherwise a call fails only when it is illegal (a key clash, no engine,  *)
(* no handle, no table), and no statement runs without all three.          *)
(* rdb_index_00x's bulk load (1000 inserts into data_p1's own User) is one *)
(* step: nothing else runs meanwhile, and an insert succeeds when its id   *)
(* is new, so what it leaves uncommitted depends only on the loop bounds.  *)
(* The values printed are not modelled; a row's name1 is "v" when a        *)
(* scenario inserts it and "u" once updated.                               *)
(***************************************************************************)
EXTENDS Naturals, Sequences, SequencesExt, TLC

CONSTANTS
  None, Absent,   \* Session's sentinels
  MaxChoices,     \* bound on the menu lines that start scenarios
  EngineFails     \* whether a legal engine call may fail

ASSUME MaxChoices \in Nat /\ EngineFails \in BOOLEAN

Dirs == {"data_add_thread1", "data_p1"}
UserIds == {"1", "2", "3", "5", "6", "7", "8", "10", "11"}

VARIABLES
  bin,      \* the binary started: "menu" or "tests"
  hpc,      \* "menu" (reading a line), "run", "exited", "panicked", "done"
  todo,     \* the calls left of the scenarios being run
  chosen,   \* menu lines that started scenarios
  up,       \* the engine is started
  hdl,      \* the scenario's handle was allocated
  dir,      \* the data directory the engine was started on
  exists,   \* each directory's User table exists
  t1,       \* data_add_thread1: committed rows
  view1,    \* data_add_thread1: the handle's view
  call,     \* Session's record of the last method
  got,      \* Session's record of the last select
  p1,       \* data_p1: the ids 1 .. p1 are committed (loads are prefixes)
  pend      \* data_p1: ids inserted and not yet committed

hvars == <<bin, hpc, todo, chosen, up, hdl, dir, exists, t1, view1, call, got, p1, pend>>

S == INSTANCE Session WITH Ids <- UserIds, Vals <- {"v", "u"},
       CommitCanFail <- FALSE, SelectVectors <- {},
       committed <- t1, work <- view1, last <- call, sel <- got

-----------------------------------------------------------------------------
(* The calls of a scenario.                                                *)

Step(k, d, i, c) == [k |-> k, dir |-> d, id |-> i, commit |-> c]
Open(d) == Step("open", d, "", FALSE)
Alloc == Step("alloc", "", "", FALSE)
Create(d) == Step("create", d, "", FALSE)
Ins(i, c) == Step("insert", "", i, c)
Upd(i, c) == Step("update", "", i, c)
Del(i, c) == Step("delete", "", i, c)
Sel(i) == Step("select", "", i, FALSE)
Cmt == Step("commit", "", "", FALSE)
Rbk == Step("rollback", "", "", FALSE)
Shut == Step("shutdown", "", "", FALSE)
Bulk == Step("bulk", "", "", FALSE)
Probe == Step("select_loop", "", "", FALSE)

\* Interface::new on data_add_thread1, open_db, init_handle, the body,
\* db_shutdown.
Scenario(body) == <<Open("data_add_thread1"), Alloc>> \o body \o <<Shut>>

Rdb001CreateTable == Scenario(<<Create("data_add_thread1")>>)
Rdb001Insert == Scenario(<<Ins("1", TRUE), Sel("1")>>)
Rdb002Insert == Scenario(<<Ins("2", TRUE), Sel("2")>>)
Rdb003Insert == Scenario(<<Ins("3", TRUE)>>)
Rdb003Select == Scenario(<<Sel("3")>>)
Rdb004Select == Scenario(<<Sel("1")>>)
Rdb004Update == Scenario(<<Sel("1"), Upd("1", TRUE), Sel("1")>>)
Rdb005Insert == Scenario(<<Ins("5", TRUE)>>)
Rdb005Delete == Scenario(<<Sel("5"), Del("5", TRUE), Sel("5")>>)
Rdb006Insert == Scenario(<<Ins("6", TRUE)>>)
Rdb006Rollback == Scenario(<<Sel("6"), Del("6", FALSE), Sel("6"), Rbk, Sel("6")>>)
Rdb007Insert == Scenario(<<Ins("7", TRUE), Sel("7")>>)
Rdb007Rollback ==
  Scenario(<<Sel("7"), Sel("8"), Del("7", FALSE), Ins("8", FALSE), Upd("8", FALSE),
             Sel("7"), Sel("8"), Rbk, Sel("7"), Sel("8")>>)
Rdb008Insert == Scenario(<<Ins("10", TRUE), Sel("10")>>)
Rdb008Commit ==
  Scenario(<<Sel("10"), Sel("11"), Del("10", FALSE), Ins("11", FALSE), Cmt,
             Sel("10"), Sel("11")>>)

\* rdb_index_00x on data_p1: create_table, db_shutdown, a second Interface
\* on the same directory, the bulk load, the timed select loop, shutdown.
\* The two differ only in the entity's #[index], which no property reads.
RdbIndex ==
  <<Open("data_p1"), Alloc, Create("data_p1"), Shut,
    Open("data_p1"), Alloc, Bulk, Probe, Shut>>
RdbIndex001 == RdbIndex
RdbIndex002 == RdbIndex

\* main's match arms.
MenuScenarios ==
  ("1" :> Rdb001CreateTable) @@ ("2" :> Rdb001Insert)
  @@ ("3" :> Rdb003Insert \o Rdb003Select) @@ ("4" :> Rdb004Select \o Rdb004Update)
  @@ ("5" :> Rdb005Insert \o Rdb005Delete) @@ ("6" :> Rdb008Insert \o Rdb008Commit)
  @@ ("7" :> Rdb007Insert \o Rdb007Rollback) @@ ("8" :> RdbIndex001)
  @@ ("9" :> RdbIndex002)

\* The #[test] functions in libtest's name order: RDB_005_delete before
\* RDB_005_insert, RDB_008_commit before RDB_008_insert.
TestOrder ==
  <<Rdb001CreateTable, Rdb001Insert, Rdb002Insert, Rdb003Insert, Rdb003Select,
    Rdb004Select, Rdb004Update, Rdb005Delete, Rdb005Insert, Rdb006Insert,
    Rdb006Rollback, Rdb007Insert, Rdb007Rollback, Rdb008Commit, Rdb008Insert,
    RdbIndex001, RdbIndex002>>

-----------------------------------------------------------------------------
(* The engine and the calls.                                               *)

\* The next call of the scenario is of kind k.
At(k) == hpc = "run" /\ todo # <<>> /\ Head(todo).k = k

\* A statement on directory d can run: the engine is started on d, the
\* handle allocated and the table created.
Live(d) == up /\ hdl /\ dir = d /\ exists[d]

Outcome == IF EngineFails THEN BOOLEAN ELSE {TRUE}

\* Mutant: `while i < 1000`, the last row is not inserted.
BulkIdsShort == 1 .. 999

\* `let mut i = 1; while i < 1001 { ..; i = i + 1 }`
BulkIds == 1 .. 1000

\* `if (i % 100 == 0) { User::commit(&conn, handle); }`
CommitPoints == {i \in BulkIds : i % 100 = 0}

\* Interface::open_db: intarkdb_startup_db on the scenario's directory;
\* a failure is printed and the scenario goes on.
OpenDb ==
  /\ At("open")
  /\ \E ok \in Outcome : up' = ok
  /\ dir' = Head(todo).dir
  /\ todo' = Tail(todo)
  /\ UNCHANGED <<bin, hpc, chosen, hdl, exists, t1, view1, call, got, p1, pend>>

\* init_handle(&handle): db_alloc; a failure is printed and the handle
\* stays 0, which no statement can use.
InitHandle ==
  /\ At("alloc")
  /\ \E ok \in Outcome : hdl' = (up /\ ok)
  /\ todo' = Tail(todo)
  /\ UNCHANGED <<bin, hpc, chosen, up, dir, exists, t1, view1, call, got, p1, pend>>

\* User::default().create_table: the table is there afterwards if it was,
\* or if the engine created it.
CreateTable ==
  /\ At("create")
  /\ \E ok \in Outcome :
       exists' = [exists EXCEPT ![Head(todo).dir] = @ \/ (up /\ hdl /\ ok)]
  /\ todo' = Tail(todo)
  /\ UNCHANGED <<bin, hpc, chosen, up, hdl, dir, t1, view1, call, got, p1, pend>>

\* The generated methods on data_add_thread1's User.  Without a live
\* engine, handle and table, open_table fails and nothing is applied; a
\* reliable engine fails a live call only when it is illegal.
Stmt(A, legal) ==
  /\ A
  /\ Live("data_add_thread1") \/ ~call'.opened
  /\ EngineFails \/ ~Live("data_add_thread1") \/ (call'.ret = S!GS_SUCCESS) = legal
  /\ todo' = Tail(todo)
  /\ UNCHANGED <<bin, hpc, chosen, up, hdl, dir, exists, p1, pend>>

ById(i) == [name |-> "id", value |-> i]

\* insert / insert_commit of User { id: i, name1..4: i }.
InsertStep ==
  /\ At("insert")
  /\ LET e == [id |-> Head(todo).id, name1 |-> "v"]
     IN Stmt(S!Insert(e, Head(todo).commit), S!InsertLegal(view1, e))

\* update_by_column(_commit) of User { id: i, name1..4: "update.." } where id = i.
UpdateStep ==
  /\ At("update")
  /\ LET e == [id |-> Head(todo).id, name1 |-> "u"]
         r == ById(Head(todo).id)
     IN Stmt(S!Update(e, r, Head(todo).commit), S!UpdateLegal(view1, e, r))

\* delete_by_column(_commit) where id = i.
DeleteStep ==
  At("delete") /\ Stmt(S!Delete(ById(Head(todo).id), Head(todo).commit), TRUE)

\* select_by_column where id = i on the scenario's handle; without an
\* engine no row comes back.
SelectStep ==
  /\ At("select")
  /\ Stmt(S!Select(ById(Head(todo).id), FALSE), TRUE)
  /\ Live("data_add_thread1") \/ got'.ids = {}

CommitStep == At("commit") /\ Stmt(S!Commit, TRUE)

RollbackStep == At("rollback") /\ Stmt(S!Rollback, TRUE)

\* conn.db_shutdown(): intarkdb_shutdown_db.  The handle's uncommitted
\* work is gone; the directories keep what was committed.
Shutdown ==
  /\ At("shutdown")
  /\ up' = FALSE
  /\ hdl' = FALSE
  /\ view1' = t1
  /\ pend' = {}
  /\ todo' = Tail(todo)
  /\ UNCHANGED <<bin, hpc, chosen, dir, exists, t1, call, got, p1>>

\* The bulk loop of rdb_index_00x: User::insert of row i for each i, and
\* User::commit after each i that is a multiple of 100.  The handle is fresh,
\* so nothing is pending before it.
BulkLoad ==
  /\ At("bulk")
  /\ LET new == IF Live("data_p1") THEN {i \in BulkIds : i > p1} ELSE {}
         done == {i \in new : \E c \in CommitPoints : i <= c}
     IN /\ p1' = IF done = {} THEN p1 ELSE Max(done)
        /\ pend' = new \ done
  /\ todo' = Tail(todo)
  /\ UNCHANGED <<bin, hpc, chosen, up, hdl, dir, exists, t1, view1, call, got>>

\* `for n in 1..num`: select_by_column of ids 1 to 999, read only.
SelectLoop ==
  /\ At("select_loop")
  /\ todo' = Tail(todo)
  /\ UNCHANGED <<bin, hpc, chosen, up, hdl, dir, exists, t1, view1, call, got, p1, pend>>

-----------------------------------------------------------------------------
(* The two binaries.                                                       *)

\* main: a line naming a scenario; `Command::new("clear").status().unwrap()`
\* panics when clear cannot be spawned.
Choose ==
  /\ hpc = "menu"
  /\ chosen < MaxChoices
  /\ \E line \in DOMAIN MenuScenarios, ok \in BOOLEAN :
       /\ hpc' = IF ok THEN "run" ELSE "panicked"
       /\ todo' = IF ok THEN MenuScenarios[line] ELSE todo
  /\ chosen' = chosen + 1
  /\ UNCHANGED <<bin, up, hdl, dir, exists, t1, view1, call, got, p1, pend>>

\* Any other line (or end of input, an empty line): `b = false`.
Quit ==
  /\ hpc = "menu"
  /\ hpc' = "exited"
  /\ UNCHANGED <<bin, todo, chosen, up, hdl, dir, exists, t1, view1, call, got, p1, pend>>

\* The scenarios are done: main shows the menu and reads a line; the test
\* binary has run its last test.
Finished ==
  /\ hpc = "run" /\ todo = <<>>
  /\ hpc' = IF bin = "menu" THEN "menu" ELSE "done"
  /\ UNCHANGED <<bin, todo, chosen, up, hdl, dir, exists, t1, view1, call, got, p1, pend>>

HInit ==
  /\ bin \in {"menu", "tests"}
  /\ hpc = IF bin = "menu" THEN "menu" ELSE "run"
  /\ todo = IF bin = "menu" THEN <<>> ELSE FlattenSeq(TestOrder)
  /\ chosen = 0
  /\ up = FALSE /\ hdl = FALSE /\ dir = ""
  /\ exists = [d \in Dirs |-> FALSE]
  /\ S!Init
  /\ p1 = 0 /\ pend = {}

HNext ==
  \/ Choose \/ Quit \/ Finished
  \/ OpenDb \/ InitHandle \/ CreateTable \/ Shutdown
  \/ InsertStep \/ UpdateStep \/ DeleteStep \/ SelectStep
  \/ CommitStep \/ RollbackStep \/ BulkLoad \/ SelectLoop

HSpec == HInit /\ [][HNext]_hvars

-----------------------------------------------------------------------------

HarnessTypeOK ==
  /\ bin \in {"menu", "tests"}
  /\ hpc \in {"menu", "run", "exited", "panicked", "done"}
  /\ chosen \in 0 .. MaxChoices
  /\ up \in BOOLEAN /\ hdl \in BOOLEAN /\ dir \in Dirs \cup {""}
  /\ exists \in [Dirs -> BOOLEAN]
  /\ S!TypeOK
  /\ p1 \in {0} \cup BulkIds /\ pend \subseteq BulkIds

\* No db_shutdown of either binary discards a statement: when a scenario
\* shuts the engine down, its handle has nothing uncommitted on either
\* directory.  This rests on the grouping scenarios ending in commit or
\* rollback and on the bulk loop's last commit falling on its last row
\* (1000 % 100 = 0).
ShutdownLosesNoWork ==
  At("shutdown") => view1 = t1 /\ pend = {}

====
