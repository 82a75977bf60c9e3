---------------------------- MODULE GstorSingle ----------------------------
(***************************************************************************)
(* The single-threaded gstor driver (src/tools/rust-gstor): main checks    *)
(* its arguments, sets the engine parameters, starts the engine, allocates *)
(* one handle and opens SYS_KV, then loops `while true`: put a fresh      *)
(* random key, commit, rust_gstor_get it and CStr::from_ptr the result,    *)
(* print, sleep a second.  Its gstor_shutdown after the loop is never      *)
(* reached.                                                                *)
(*                                                                         *)
(* The engine is the environment of GstorWorkers: every status is ignored; *)
(* when EngineFails, put and commit may fail; a get that finds nothing     *)
(* returns NULL and CStr::from_ptr(NULL) ends the process.  The i-th key   *)
(* of the loop is i.  The loop has no end: MaxKeys bounds the iterations   *)
(* explored.                                                               *)
(***************************************************************************)
EXTENDS Naturals

CONSTANTS
  ArgChoices,   \* argument vectors: [len, op, param] of env::args()
  MaxKeys,      \* bound on the iterations of the endless loop
  EngineFails   \* whether gstor_put / gstor_commit may fail

ASSUME MaxKeys \in Nat /\ EngineFails \in BOOLEAN

VARIABLES
  mpc,       \* main's position
  cnt,       \* iterations done; the current key
  store,     \* keys committed in the engine
  pend,      \* keys put on the handle and not yet committed
  crashed    \* the process died in CStr::from_ptr(NULL)

vars == <<mpc, cnt, store, pend, crashed>>

Outcome == IF EngineFails THEN BOOLEAN ELSE {TRUE}

-----------------------------------------------------------------------------

Init ==
  /\ mpc = "args"
  /\ cnt = 0
  /\ store = {}
  /\ pend = {}
  /\ crashed = FALSE

\* `args.len() != 3`, `op != "-D"` and an empty data path each exit(-1).
ParseArgs ==
  /\ mpc = "args"
  /\ \E a \in ArgChoices :
       mpc' = IF a.len # 3 \/ a.op # "-D" \/ a.param = "" THEN "exited" ELSE "setup"
  /\ UNCHANGED <<cnt, store, pend, crashed>>

\* The six gstor_set_param calls, gstor_startup, gstor_alloc and
\* gstor_open_table, every status ignored; the loop starts.
Setup ==
  /\ mpc = "setup"
  /\ mpc' = "put"
  /\ UNCHANGED <<cnt, store, pend, crashed>>

\* gstor_put(*handle, key, val) of a fresh random key.
Put ==
  /\ mpc = "put"
  /\ cnt < MaxKeys
  /\ \E ok \in Outcome : pend' = IF ok THEN pend \cup {cnt} ELSE pend
  /\ mpc' = "commit"
  /\ UNCHANGED <<cnt, store, crashed>>

\* Mutant: the commit is left out of the loop.
CommitSkipped ==
  /\ mpc = "commit"
  /\ mpc' = "get"
  /\ UNCHANGED <<cnt, store, pend, crashed>>

\* gstor_commit(*handle).
Commit ==
  /\ mpc = "commit"
  /\ \E ok \in Outcome :
       /\ store' = IF ok THEN store \cup pend ELSE store
       /\ pend' = IF ok THEN {} ELSE pend
  /\ mpc' = "get"
  /\ UNCHANGED <<cnt, crashed>>

\* Mutant: the get asks for the previous iteration's key.
GetPreviousKey ==
  /\ mpc = "get" /\ ~crashed
  /\ IF cnt - 1 \in store \cup pend
     THEN /\ cnt' = cnt + 1
          /\ mpc' = "put"
          /\ UNCHANGED crashed
     ELSE /\ crashed' = TRUE
          /\ UNCHANGED <<mpc, cnt>>
  /\ UNCHANGED <<store, pend>>

\* rust_gstor_get(*handle, key) and CStr::from_ptr on the result; then the
\* print and the sleep, and the next iteration.
Get ==
  /\ mpc = "get" /\ ~crashed
  /\ IF cnt \in store \cup pend
     THEN /\ cnt' = cnt + 1
          /\ mpc' = "put"
          /\ UNCHANGED crashed
     ELSE /\ crashed' = TRUE
          /\ UNCHANGED <<mpc, cnt>>
  /\ UNCHANGED <<store, pend>>

Next == ParseArgs \/ Setup \/ Put \/ Commit \/ Get

Spec == Init /\ [][Next]_vars

-----------------------------------------------------------------------------

TypeOK ==
  /\ mpc \in {"args", "exited", "setup", "put", "commit", "get"}
  /\ cnt \in 0..MaxKeys
  /\ store \subseteq 0..MaxKeys /\ pend \subseteq 0..MaxKeys
  /\ crashed \in BOOLEAN

\* With an engine that accepts every call, each key the loop has read back
\* and printed is committed before the next iteration begins: a kill of
\* the endless loop, the only way it ends, loses no key it has reported.
ReportedKeysCommitted ==
  \A i \in 0..cnt - 1 : i \in store

=============================================================================
