----------------------------- MODULE Allocator -----------------------------
(***************************************************************************)
(* The paged memory allocator of src/tools/rust-memory-allocator: a global *)
(* Mutex<MyAllocator> (ALLOC_8K), rust_alloc_init that builds the blocks    *)
(* once, and rust_get_page that maps a 1-based page index to a page.        *)
(* Both entry points hold the mutex for their whole body, so each call is   *)
(* one action whichever thread makes it.  A panic inside an extern fn      *)
(* aborts the host process: the allocator is then gone.                     *)
(***************************************************************************)
EXTENDS Naturals

CONSTANTS
  InitArgs,        \* candidate <<block_initial_size, page_cnt_per_block>>
  Indices,         \* page indices callers pass to rust_get_page
  MinNonZeroCap    \* std RawVec's smallest non-zero capacity for Vec<Block>

ASSUME InitArgs \subseteq Nat \X Nat
ASSUME Indices \subseteq Nat /\ MinNonZeroCap \in Nat \ {0}

VARIABLES
  nblocks,   \* self.blocks.len()
  cap,       \* self.blocks.capacity()
  pcnt,      \* self.page_cnt_per_block
  last,      \* the last rust_get_page call: index and outcome
  crashed    \* a panic unwound out of an extern fn and aborted the process

vars == <<nblocks, cap, pcnt, last, crashed>>

Outcomes == {"none", "ok", "err", "panic"}

-----------------------------------------------------------------------------

Maximum(a, b) == IF a >= b THEN a ELSE b

\* Vec::reserve(n) on a vector of length len and capacity c: enough room is
\* kept, otherwise the amortized growth of RawVec (double, at least len+n,
\* at least the minimum non-zero capacity).
Reserve(len, c, n) ==
  IF c - len >= n THEN c
  ELSE Maximum(Maximum(2 * c, len + n), MinNonZeroCap)

\* Mutant: a page_index of 0 is not stepped back to the previous block.
GetPageOutcomeNoStepBack(idx) ==
  IF idx >= pcnt * cap THEN [res |-> "err", blk |-> 0, pg |-> 0]
  ELSE IF idx \div pcnt >= nblocks THEN [res |-> "panic", blk |-> 0, pg |-> 0]
  ELSE [res |-> "ok", blk |-> idx \div pcnt, pg |-> (idx % pcnt) - 1]

\* Mutant: the index is split 0-based, as if page 0 existed.
GetPageOutcomeZeroBased(idx) ==
  IF idx >= pcnt * cap THEN [res |-> "err", blk |-> 0, pg |-> 0]
  ELSE IF idx \div pcnt >= nblocks THEN [res |-> "panic", blk |-> 0, pg |-> 0]
  ELSE [res |-> "ok", blk |-> idx \div pcnt, pg |-> idx % pcnt]

\* get_page: range check against capacity, then the 1-based split into a
\* block and a page.  A page_index of 0 steps back to the previous block's
\* last page; for idx 0 that is `0 - 1` on a usize, and blocks[block_index]
\* past len() panics.
GetPageOutcome(idx) ==
  IF idx >= pcnt * cap THEN [res |-> "err", blk |-> 0, pg |-> 0]
  ELSE LET bi == idx \div pcnt
           pi == idx % pcnt
           blk == IF pi = 0 THEN bi - 1 ELSE bi
           pg  == IF pi = 0 THEN pcnt - 1 ELSE pi - 1
       IN IF bi = 0 /\ pi = 0 THEN [res |-> "panic", blk |-> 0, pg |-> 0]
          ELSE IF blk >= nblocks THEN [res |-> "panic", blk |-> 0, pg |-> 0]
          ELSE [res |-> "ok", blk |-> blk, pg |-> pg]

-----------------------------------------------------------------------------

Init ==
  /\ nblocks = 0
  /\ cap = 0
  /\ pcnt = 0
  /\ last = [idx |-> 0, res |-> "none", blk |-> 0, pg |-> 0, pages |-> 0]
  /\ crashed = FALSE

\* MyAllocator::init: reserve block_initial_size blocks, set
\* page_cnt_per_block, then push block_initial_size blocks, each built by
\* Block::init with its pages (page contents are not modelled).
MyAllocatorInit(b, p) ==
  /\ cap' = Reserve(nblocks, cap, b)
  /\ pcnt' = p
  /\ nblocks' = nblocks + b

\* rust_alloc_init: returns 1 once blocks exist, otherwise MyAllocator::init.
RustAllocInit(b, p) ==
  /\ ~crashed
  /\ IF nblocks > 0
     THEN UNCHANGED <<nblocks, cap, pcnt>>
     ELSE MyAllocatorInit(b, p)
  /\ UNCHANGED <<last, crashed>>

\* rust_get_page: Ok(page), or Err printed and a null pointer returned; a
\* panic aborts the process.
RustGetPage(idx) ==
  /\ ~crashed
  /\ LET o == GetPageOutcome(idx)
     IN last' = [idx |-> idx, res |-> o.res, blk |-> o.blk, pg |-> o.pg,
                 pages |-> pcnt * nblocks]
  /\ crashed' = (GetPageOutcome(idx).res = "panic")
  /\ UNCHANGED <<nblocks, cap, pcnt>>

Next ==
  \/ \E a \in InitArgs : RustAllocInit(a[1], a[2])
  \/ \E i \in Indices : RustGetPage(i)

Spec == Init /\ [][Next]_vars

-----------------------------------------------------------------------------

TypeOK ==
  /\ nblocks \in Nat /\ cap \in Nat /\ pcnt \in Nat
  /\ last.idx \in Nat /\ last.res \in Outcomes
  /\ last.blk \in Nat /\ last.pg \in Nat /\ last.pages \in Nat
  /\ crashed \in BOOLEAN

\* The intended numbering: pages are numbered from 1, block by block, over
\* the blocks that exist.
RefBlock(i) == (i - 1) \div pcnt
RefPage(i) == (i - 1) % pcnt

\* A page handed out is the page the 1-based numbering assigns to the
\* index, over the blocks built by rust_alloc_init.
PageMatchesNumbering ==
  last.res = "ok" =>
    /\ last.idx \in 1..last.pages
    /\ last.blk = RefBlock(last.idx) /\ last.pg = RefPage(last.idx)

\* get_page serves exactly the pages rust_alloc_init built: an index in
\* 1..count gets its page, any other index the range error ("The index is
\* not in range!"), never a panic.
GetPageServesExactlyThePages ==
  /\ last.idx \in 1..last.pages => last.res = "ok"
  /\ last.res # "panic"

=============================================================================
