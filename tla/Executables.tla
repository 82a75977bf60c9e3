---------------------------- MODULE Executables ----------------------------
(***************************************************************************)
(* The programs of the repository: the two gstor drivers of src/tools,     *)
(* rust-gstor-multithreading (GstorWorkers) and rust-gstor (GstorSingle),  *)
(* and the ORM harness binaries of ncti-orm/src/main.rs (Harness).  Each   *)
(* is a process of its own with its own embedded engine; which one is      *)
(* started is the input, so a behaviour runs one of them and leaves the    *)
(* others' state alone.                                                    *)
(***************************************************************************)
EXTENDS GstorWorkers

CONSTANTS
  SingleArgChoices,   \* rust-gstor's argument vectors
  MaxKeys,            \* bound on rust-gstor's endless loop
  None, Absent,       \* Session's sentinels, for the harness
  MaxChoices          \* bound on the harness menu's scenario lines

VARIABLES
  prog,        \* the binary started
  s_mpc, s_cnt, s_store, s_pend, s_crashed,
  o_bin, o_hpc, o_todo, o_chosen, o_up, o_hdl, o_dir, o_exists, o_t1,
  o_view1, o_call, o_got, o_p1, o_pend

singleVars == <<s_mpc, s_cnt, s_store, s_pend, s_crashed>>
ormVars == <<o_bin, o_hpc, o_todo, o_chosen, o_up, o_hdl, o_dir, o_exists,
             o_t1, o_view1, o_call, o_got, o_p1, o_pend>>
toolVars == <<prog, vars, singleVars, ormVars>>

Programs == {"multithreading", "single", "orm"}

Single == INSTANCE GstorSingle
            WITH ArgChoices <- SingleArgChoices, mpc <- s_mpc, cnt <- s_cnt,
                 store <- s_store, pend <- s_pend, crashed <- s_crashed

Orm == INSTANCE Harness
         WITH bin <- o_bin, hpc <- o_hpc, todo <- o_todo, chosen <- o_chosen,
              up <- o_up, hdl <- o_hdl, dir <- o_dir, exists <- o_exists,
              t1 <- o_t1, view1 <- o_view1, call <- o_call, got <- o_got,
              p1 <- o_p1, pend <- o_pend

ToolsInit == prog \in Programs /\ Init /\ Single!Init /\ Orm!HInit

\* A step of the multithreaded driver, when it is the one running.
Multi(A) == prog = "multithreading" /\ A /\ UNCHANGED <<prog, singleVars, ormVars>>

\* A step of rust-gstor, when it is the one running.
Alone(A) == prog = "single" /\ A /\ UNCHANGED <<prog, vars, ormVars>>

\* A step of an ncti-orm harness binary, when it is the one running.
Harn(A) == prog = "orm" /\ A /\ UNCHANGED <<prog, vars, singleVars>>

\* Each program's Next, one action at a time.
ToolsNext ==
  \/ Multi(ParseArgs) \/ Multi(AllocHandles) \/ Multi(Spawn) \/ Multi(SpawnDone)
  \/ Multi(Join) \/ Multi(Shutdown)
  \/ \E t \in Threads :
       Multi(LoopEnd(t)) \/ Multi(Put(t)) \/ Multi(Commit(t)) \/ Multi(Get(t))
  \/ Alone(Single!ParseArgs) \/ Alone(Single!Setup) \/ Alone(Single!Put)
  \/ Alone(Single!Commit) \/ Alone(Single!Get)
  \/ Harn(Orm!Choose) \/ Harn(Orm!Quit) \/ Harn(Orm!Finished)
  \/ Harn(Orm!OpenDb) \/ Harn(Orm!InitHandle) \/ Harn(Orm!CreateTable)
  \/ Harn(Orm!Shutdown) \/ Harn(Orm!InsertStep) \/ Harn(Orm!UpdateStep)
  \/ Harn(Orm!DeleteStep) \/ Harn(Orm!SelectStep) \/ Harn(Orm!CommitStep)
  \/ Harn(Orm!RollbackStep) \/ Harn(Orm!BulkLoad) \/ Harn(Orm!SelectLoop)

\* The threads of the running multithreaded driver are scheduled as in
\* GstorWorkers.  rust-gstor's loop has no end, the harness menu waits on
\* its user, and no property needs either to progress.
ToolsFairness ==
  /\ WF_toolVars(Multi(Main))
  /\ \A t \in Threads : WF_toolVars(Multi(Worker(t)))

ToolsSpec == ToolsInit /\ [][ToolsNext]_toolVars /\ ToolsFairness

-----------------------------------------------------------------------------

ToolsTypeOK == prog \in Programs /\ TypeOK /\ Single!TypeOK /\ Orm!HarnessTypeOK

\* Every key rust-gstor has read back and printed is committed before its
\* next iteration, so killing the endless loop loses no reported key.
SingleReportedKeysCommitted == Single!ReportedKeysCommitted

OrmShutdownLosesNoWork == Orm!ShutdownLosesNoWork

=============================================================================
