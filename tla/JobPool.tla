------------------------------ MODULE JobPool --------------------------------
(***************************************************************************)
(* The pool of jobs (actor_pool_allocate in buffer.c, the allocation        *)
(* callback of mothership.c, actor_job_alloc and actor_job_free in node.c)  *)
(* on the heap it shares with the data of buffers.                         *)
(*                                                                         *)
(* A cell of the pool is free when all its bytes are zero.  The scan marks *)
(* nothing: a cell is taken once the event of its job is stored, and a     *)
(* thread of higher or, at a tick, of the same priority may come between.  *)
(* What follows such an overlap, or a fault, is not modelled.              *)
(***************************************************************************)
EXTENDS Heap

CONSTANTS
  Owners,      \* the job slots of actors, each offered events by a thread of its own
  PerPage,     \* cells of a page
  PageSize,    \* units of a page
  HeaderSize,  \* units of an actor_buffer_t, the descriptor of a page
  DataSizes,   \* units of the data of buffers
  MaxData      \* bound: buffers with data

ASSUME PoolAssumption ==
  /\ {PerPage, PageSize, HeaderSize} \subseteq Nat \ {0} /\ DataSizes \subseteq Nat \ {0}
  /\ MaxData \in Nat /\ NULL \notin Owners

VARIABLES
  pages,       \* addresses of the pages' memory, NULL for one that got none
  cell,        \* the pool's cells: "zero"; "job"; or, not zero but unused, "left" with an
               \* idle event in it and "garbage" with what reads as one that waits
  slot,        \* the job slot of each owner: a cell, or NULL
  stage,       \* "none", "found" a cell, "runs" its job, "stuck" on a cell that looks busy
  data,        \* the addresses of data of buffers
  used,        \* ghost: the units below were in use before
  served,      \* ghost: how many jobs each cell has served
  overlapped,  \* ghost: has a scan overtaken another?
  fault        \* has the program stopped?

vars == <<heap, pages, cell, slot, stage, data, used, served, overlapped, fault>>

Active == ~overlapped /\ ~fault
MaxOf(a, b) == IF a >= b THEN a ELSE b

\* The jobs' actor_buffer_t is there from the start, without a page
Init ==
  /\ HeapInit
  /\ pages = <<>> /\ cell = <<>>
  /\ slot = [o \in Owners |-> NULL] /\ stage = [o \in Owners |-> "none"]
  /\ data = {} /\ used = 1 /\ served = <<>>
  /\ overlapped = FALSE /\ fault = FALSE
-----------------------------------------------------------------------------
Zeros == {c \in DOMAIN cell : cell[c] = "zero"}

\* Memory that no block held before is zero, the heap clears no other
Contents(addr) ==
  IF addr >= used THEN {[c \in 1..PerPage |-> "zero"]}
  ELSE [1..PerPage -> {"zero", "left", "garbage"}]

\* actor_buffer_append: mothership_on_buffer_allocation takes a descriptor, but for the first
\* page, and the memory.  Memory it does not get leaves a page at NULL; the signal of that
\* is dropped, and NULL is the job, for which the event gets no status.
Descriptor == IF pages = <<>> THEN [heap |-> heap, at |-> NULL] ELSE Malloc(heap, HeaderSize)

\* Can the scan find out that no cell is free?  It reads through a page at NULL.
ScanEnds == \A i \in DOMAIN pages : pages[i] # NULL

\* The scan of actor_pool_allocate finds the first free cell
FindCell(o) ==
  /\ \E c \in Zeros : (\A d \in Zeros : c <= d) /\ slot' = [slot EXCEPT ![o] = c]
  /\ stage' = [stage EXCEPT ![o] = "found"]
  /\ UNCHANGED <<heap, pages, cell, served, used, fault>>

\* ... or a page is added, whose first cell it is, whatever is in it
AddPage(o) ==
  LET memory == Malloc(Descriptor.heap, PageSize) IN
  /\ Zeros = {} /\ ScanEnds /\ (pages = <<>> \/ Descriptor.at # NULL)
  /\ heap' = memory.heap /\ pages' = Append(pages, memory.at)
  /\ IF memory.at = NULL
     THEN UNCHANGED <<cell, served, slot, stage, used>>
     ELSE /\ \E c \in Contents(memory.at) : cell' = cell \o c
          /\ served' = served \o [c \in 1..PerPage |-> 0]
          /\ slot' = [slot EXCEPT ![o] = Len(cell) + 1]
          /\ stage' = [stage EXCEPT ![o] = "found"]
          /\ used' = MaxOf(used, memory.at + memory.heap.taken[memory.at])
  /\ UNCHANGED fault

\* ... or it reads through NULL, as it does the descriptor it got no memory for
ReadNull ==
  /\ Zeros = {} /\ (ScanEnds => pages # <<>> /\ Descriptor.at = NULL)
  /\ fault' = TRUE
  /\ UNCHANGED <<heap, pages, cell, served, slot, stage, used>>

\* actor_event_accept_and_start_job_generic up to the cell
Allocate(o) ==
  /\ Active /\ stage[o] = "none"
  /\ overlapped' = \E p \in Owners : stage[p] = "found"
  /\ FindCell(o) \/ AddPage(o) \/ ReadNull
  /\ UNCHANGED data

\* ... the event is stored if the cell's reads as idle.  If not the actor is busy, for good
Store(o) ==
  /\ Active /\ stage[o] = "found"
  /\ IF cell[slot[o]] = "garbage"
     THEN stage' = [stage EXCEPT ![o] = "stuck"] /\ UNCHANGED <<cell, served>>
     ELSE /\ stage' = [stage EXCEPT ![o] = "runs"]
          /\ cell' = [cell EXCEPT ![slot[o]] = "job"] /\ served' = [served EXCEPT ![slot[o]] = @ + 1]
  /\ UNCHANGED <<heap, pages, slot, data, used, overlapped, fault>>

\* A bug to catch: the job slot is not reset
FinishKeeping(o) ==
  /\ Active /\ stage[o] = "runs"
  /\ cell' = [cell EXCEPT ![slot[o]] = "zero"]
  /\ stage' = [stage EXCEPT ![o] = "none"]
  /\ UNCHANGED <<heap, pages, slot, data, used, served, overlapped, fault>>

\* The job ends: actor_job_free clears as much of it as an actor_buffer_t is long, which
\* leaves the handler, and actor_job_execute writes PENDING to it once more
Finish(o) ==
  /\ Active /\ stage[o] = "runs"
  /\ cell' = [cell EXCEPT ![slot[o]] = "left"]
  /\ slot' = [slot EXCEPT ![o] = NULL] /\ stage' = [stage EXCEPT ![o] = "none"]
  /\ UNCHANGED <<heap, pages, data, used, served, overlapped, fault>>
-----------------------------------------------------------------------------
poolVars == <<pages, cell, slot, stage, served, overlapped>>

\* actor_buffer_set_size of a new buffer
TakeData ==
  /\ Active /\ Cardinality(data) < MaxData
  /\ \E size \in DataSizes :
       LET new == Malloc(heap, size) IN
       /\ new.at # NULL
       /\ heap' = new.heap /\ data' = data \cup {new.at}
       /\ used' = MaxOf(used, new.at + new.heap.taken[new.at])
  /\ UNCHANGED <<poolVars, fault>>

\* actor_buffer_destroy
FreeData ==
  /\ Active
  /\ \E a \in data : heap' = Free(heap, a) /\ data' = data \ {a}
  /\ UNCHANGED <<poolVars, used, fault>>

\* actor_buffer_set_size of a buffer with data
GrowData ==
  /\ Active
  /\ \E a \in data, size \in DataSizes :
       LET new == Realloc(heap, a, size) IN
       /\ heap' = new.heap /\ fault' = new.faults
       /\ data' = IF new.faults THEN data \cup {new.at} ELSE data \ {a}
       /\ used' = IF new.faults THEN MaxOf(used, new.at + new.heap.taken[new.at]) ELSE used
  /\ UNCHANGED poolVars

Next ==
  \/ \E o \in Owners : Allocate(o) \/ Store(o) \/ Finish(o)
  \/ TakeData \/ FreeData \/ GrowData

Spec == Init /\ [][Next]_vars
-----------------------------------------------------------------------------
\* No two actors have the same job, unless one thread looked for a cell while another had
\* found one and not stored its event yet.
OneOwner ==
  ~overlapped => \A o, p \in Owners : o # p /\ slot[o] # NULL => slot[o] # slot[p]

\* buffer.c:262 "try to find a memory region that is all zeroes", buffer.c:309 "reusable
\* buffers": the cell of a job that has ended reads as free, for the next job to have it.
EndedIsFree ==
  \A c \in DOMAIN cell :
    served[c] > 0 /\ (\A o \in Owners : slot[o] # c) => cell[c] = "zero"
=============================================================================
