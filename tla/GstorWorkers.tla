---------------------------- MODULE GstorWorkers ----------------------------
(***************************************************************************)
(* The multithreaded gstor driver (src/tools/rust-gstor-multithreading):   *)
(* main checks its arguments, starts the engine and opens one handle per   *)
(* thread, spawns thread_num threads that each run do_something(handle,    *)
(* num, total/thread_num), joins them in spawn order and shuts the engine  *)
(* down.  A worker loops put, commit, get on its own handle.               *)
(*                                                                         *)
(* The engine (gstor) is an environment: a put goes into the handle's     *)
(* transaction, commit publishes it, get through a handle sees what is     *)
(* committed and its own pending writes.  Every status is ignored by the   *)
(* driver; when EngineFails, gstor_alloc, put and commit may fail, and a   *)
(* failed gstor_alloc leaves the handle's Box at its initial 0.  A handle  *)
(* is a number: thread t's allocated handle is t + 1.  A get that finds    *)
(* nothing returns NULL, and CStr::from_ptr(NULL) crashes the process.     *)
(* Keys are 32 random alphanumerics: a worker's i-th key is <<num, i>>.    *)
(***************************************************************************)
EXTENDS Naturals, FiniteSets

CONSTANTS
  ArgChoices,     \* "default" (args.len() != 5) or a parsed <<thread_num, total>>
  DefaultArgs,    \* <<thread_num, total>> of the default branch (8, 200)
  MaxThreads,     \* bound on thread_num, naming the threads 0..MaxThreads-1
  EngineFails     \* whether gstor_put / gstor_commit may fail

ASSUME DefaultArgs \in Nat \X Nat /\ EngineFails \in BOOLEAN

Threads == 0 .. MaxThreads - 1
Handles == 0 .. MaxThreads      \* 0 is the value a Box holds before gstor_alloc

VARIABLES
  mpc,        \* main's position
  tn,         \* thread_num
  total,      \* total
  avg,        \* avg_num = total / thread_num
  hdl,        \* handles: the u64 in each thread's Box
  th,         \* the handle moved into each spawned thread's closure
  spawned,    \* threads spawned so far
  joined,     \* threads joined so far
  tpc,        \* each thread's position
  cnt,        \* each thread's loop index i
  store,      \* keys committed in the engine
  pend,       \* keys put through each handle and not yet committed
  crashed     \* the process died in CStr::from_ptr(NULL)

vars == <<mpc, tn, total, avg, hdl, th, spawned, joined, tpc, cnt, store, pend, crashed>>

Key(t, i) == <<t, i>>
Outcome == IF EngineFails THEN BOOLEAN ELSE {TRUE}

-----------------------------------------------------------------------------

Init ==
  /\ mpc = "args"
  /\ tn = 0 /\ total = 0 /\ avg = 0
  /\ hdl = [t \in Threads |-> 0]
  /\ th = [t \in Threads |-> 0]
  /\ spawned = 0 /\ joined = 0
  /\ tpc = [t \in Threads |-> "idle"]
  /\ cnt = [t \in Threads |-> 0]
  /\ store = {}
  /\ pend = [h \in Handles |-> {}]
  /\ crashed = FALSE

mainVars == <<mpc, tn, total, avg, hdl, th, spawned, joined>>
threadVars == <<tpc, cnt>>
engineVars == <<store, pend>>

\* The argument checks: with five arguments, thread_num and total are parsed
\* and 0 or thread_num > total exits; otherwise the defaults are used.
ParseArgs ==
  /\ mpc = "args"
  /\ \E a \in ArgChoices :
       LET p == IF a = "default" THEN DefaultArgs ELSE a
       IN IF p[1] = 0 \/ p[2] = 0 \/ p[1] > p[2]
          THEN /\ mpc' = "exited"
               /\ UNCHANGED <<tn, total>>
          ELSE /\ mpc' = "alloc"
               /\ tn' = p[1] /\ total' = p[2]
  /\ UNCHANGED <<avg, hdl, th, spawned, joined, threadVars, engineVars, crashed>>

\* `vec![Box::new(0); thread_num]`, the gstor_set_param calls and
\* gstor_startup, then gstor_alloc and gstor_open_table on every Box, all
\* statuses ignored: a Box whose gstor_alloc failed still holds 0.  No
\* worker runs yet, so main's calls form one step.
AllocHandles ==
  /\ mpc = "alloc"
  /\ \E ok \in [0 .. tn - 1 -> Outcome] :
       hdl' = [t \in Threads |-> IF t < tn /\ ok[t] THEN t + 1 ELSE 0]
  /\ mpc' = "spawn"
  /\ UNCHANGED <<tn, total, avg, th, spawned, joined, threadVars, engineVars, crashed>>

\* Mutant: `spawned <= tn`, one spawn past the last handle.
SpawnPastEnd ==
  /\ mpc = "spawn" /\ ~crashed
  /\ spawned <= tn
  /\ avg' = total \div tn
  /\ th' = [th EXCEPT ![spawned] = hdl[spawned]]
  /\ tpc' = [tpc EXCEPT ![spawned] = "put"]
  /\ spawned' = spawned + 1
  /\ UNCHANGED <<mpc, tn, total, hdl, joined, cnt, engineVars, crashed>>

\* avg_num = total/thread_num, then `for num in 0..thread_num`:
\* `let h = *handles[index]` and thread::spawn(do_something(h, num, avg_num)).
Spawn ==
  /\ mpc = "spawn" /\ ~crashed
  /\ spawned < tn
  /\ avg' = total \div tn
  /\ th' = [th EXCEPT ![spawned] = hdl[spawned]]
  /\ tpc' = [tpc EXCEPT ![spawned] = "put"]
  /\ spawned' = spawned + 1
  /\ UNCHANGED <<mpc, tn, total, hdl, joined, cnt, engineVars, crashed>>

\* The spawn loop is over; main goes on to the joins.
SpawnDone ==
  /\ mpc = "spawn" /\ ~crashed
  /\ spawned = tn
  /\ mpc' = "join"
  /\ UNCHANGED <<tn, total, avg, hdl, th, spawned, joined, threadVars, engineVars, crashed>>

\* Mutant: the thread is detached, main does not wait for it.
JoinNoWait ==
  /\ mpc = "join" /\ ~crashed
  /\ joined < spawned
  /\ joined' = joined + 1
  /\ UNCHANGED <<mpc, tn, total, avg, hdl, th, spawned, threadVars, engineVars, crashed>>

\* `for thread_handle in thread_handles`: join().unwrap() on each thread
\* that was spawned, in spawn order; blocks until that thread has returned.
Join ==
  /\ mpc = "join" /\ ~crashed
  /\ joined < spawned
  /\ tpc[joined] = "done"
  /\ joined' = joined + 1
  /\ UNCHANGED <<mpc, tn, total, avg, hdl, th, spawned, threadVars, engineVars, crashed>>

\* gstor_shutdown once every spawned thread is joined.
Shutdown ==
  /\ mpc = "join" /\ ~crashed
  /\ joined = spawned
  /\ mpc' = "shutdown"
  /\ UNCHANGED <<tn, total, avg, hdl, th, spawned, joined, threadVars, engineVars, crashed>>

-----------------------------------------------------------------------------
(* do_something(handle, num, total): `for i in 0..total`, every call on    *)
(* the handle th[t] the thread was given.                                  *)

\* Mutant: the loop ends one iteration early.
LoopEndShort(t) ==
  /\ tpc[t] = "put" /\ ~crashed
  /\ cnt[t] + 1 >= avg
  /\ tpc' = [tpc EXCEPT ![t] = "done"]
  /\ UNCHANGED <<mainVars, cnt, engineVars, crashed>>

\* The loop is over: the thread returns.
LoopEnd(t) ==
  /\ tpc[t] = "put" /\ ~crashed
  /\ cnt[t] >= avg
  /\ tpc' = [tpc EXCEPT ![t] = "done"]
  /\ UNCHANGED <<mainVars, cnt, engineVars, crashed>>

\* gstor_put(handle, key, val) of a fresh random key.
Put(t) ==
  /\ tpc[t] = "put" /\ ~crashed
  /\ cnt[t] < avg
  /\ \E ok \in Outcome :
       pend' = IF ok THEN [pend EXCEPT ![th[t]] = @ \cup {Key(t, cnt[t])}] ELSE pend
  /\ tpc' = [tpc EXCEPT ![t] = "commit"]
  /\ UNCHANGED <<mainVars, cnt, store, crashed>>

\* gstor_commit(handle).
Commit(t) ==
  /\ tpc[t] = "commit" /\ ~crashed
  /\ \E ok \in Outcome :
       /\ store' = IF ok THEN store \cup pend[th[t]] ELSE store
       /\ pend' = IF ok THEN [pend EXCEPT ![th[t]] = {}] ELSE pend
  /\ tpc' = [tpc EXCEPT ![t] = "get"]
  /\ UNCHANGED <<mainVars, cnt, crashed>>

Get(t) ==
  /\ tpc[t] = "get" /\ ~crashed
  /\ IF Key(t, cnt[t]) \in store \cup pend[th[t]]
     THEN /\ cnt' = [cnt EXCEPT ![t] = @ + 1]
          /\ tpc' = [tpc EXCEPT ![t] = "put"]
          /\ UNCHANGED crashed
     ELSE /\ crashed' = TRUE
          /\ UNCHANGED threadVars
  /\ UNCHANGED <<mainVars, engineVars>>

Worker(t) == LoopEnd(t) \/ Put(t) \/ Commit(t) \/ Get(t)

Main == ParseArgs \/ AllocHandles \/ Spawn \/ SpawnDone \/ Join \/ Shutdown

Next == Main \/ \E t \in Threads : Worker(t)

\* Each OS thread, main included, keeps being scheduled, and every gstor
\* call returns: weak fairness of main and of every worker.
Fairness ==
  /\ WF_vars(Main)
  /\ \A t \in Threads : WF_vars(Worker(t))

Spec == Init /\ [][Next]_vars /\ Fairness

-----------------------------------------------------------------------------

TypeOK ==
  /\ mpc \in {"args", "exited", "alloc", "spawn", "join", "shutdown"}
  /\ tn \in 0..MaxThreads /\ total \in Nat /\ avg \in Nat
  /\ hdl \in [Threads -> Handles] /\ th \in [Threads -> Handles]
  /\ spawned \in 0..tn /\ joined \in 0..tn
  /\ tpc \in [Threads -> {"idle", "put", "commit", "get", "done"}]
  /\ cnt \in [Threads -> Nat]
  /\ store \subseteq Threads \X Nat
  /\ pend \in [Handles -> SUBSET (Threads \X Nat)]
  /\ crashed \in BOOLEAN

\* gstor_shutdown is never followed by a call on a handle: once main has
\* shut the engine down, no worker puts, commits or reads again.
NoEngineCallAfterShutdown ==
  [][mpc = "shutdown" => UNCHANGED <<store, pend, cnt, tpc>>]_vars

\* When the engine accepts every call, a worker that has returned has its
\* whole share durable: the keys committed for thread num are exactly its
\* avg_num keys, none of another iteration, and none is left pending.
ReturnedThreadStoredItsShare ==
  \A t \in Threads :
    tpc[t] = "done" =>
      /\ {k \in store : k[1] = t} = {Key(t, i) : i \in 0..avg - 1}
      /\ pend[th[t]] = {}

\* The driver terminates: it exits on bad arguments, shuts down after the
\* joins, or dies on a NULL from rust_gstor_get; no join waits forever.
DriverTerminates ==
  <>(mpc \in {"exited", "shutdown"} \/ crashed)

=============================================================================
