-------------------------------- MODULE Heap ---------------------------------
(***************************************************************************)
(* One region of the heap (multi_heap.c): first fit in a list of free      *)
(* blocks, in the order of their addresses, that are merged when they      *)
(* touch.  Addresses and sizes count units of xHeapStructSize, which is    *)
(* also the alignment, so that the header of a block takes one.  A call is *)
(* atomic: the scheduler is suspended.                                     *)
(***************************************************************************)
EXTENDS Integers, Sequences, FiniteSets

CONSTANT HeapSize   \* units between the start of the region and pxEnd

ASSUME HeapAssumption == HeapSize \in Nat \ {0}

NULL == 0           \* the region's first unit has address 1
MinimumBlock == 2   \* heapMINIMUM_BLOCK_SIZE

VARIABLE heap       \* free: the list; taken: the size of each block the program holds, by
                    \* its address; remaining: xFreeBytesRemaining

\* prvHeapInit
HeapInit ==
  heap = [free |-> <<[addr |-> 1, size |-> HeapSize]>>,
          taken |-> [a \in {} |-> 0], remaining |-> HeapSize]

\* How many blocks of the list lie before an address
Place(list, addr) ==
  CHOOSE k \in 0..Len(list) :
    (\A i \in 1..k : list[i].addr < addr) /\ (k < Len(list) => list[k + 1].addr >= addr)

Ends(block) == block.addr + block.size

\* The list up to its block p, a block, and the list from its block q
Splice(list, p, block, q) == SubSeq(list, 1, p) \o <<block>> \o SubSeq(list, q, Len(list))

\* A bug to catch: a block is not merged with the one behind it
InsertApart(list, block) ==
  LET k == Place(list, block.addr)
      joins == k > 0 /\ Ends(list[k]) = block.addr
      whole == IF joins THEN [list[k] EXCEPT !.size = @ + block.size] ELSE block
  IN Splice(list, IF joins THEN k - 1 ELSE k, whole, k + 1)

\* prvInsertBlockIntoFreeList: the block joins the one before it, and what that makes is
\* merged with the one behind it
Insert(list, block) ==
  LET k == Place(list, block.addr)
      joins == k > 0 /\ Ends(list[k]) = block.addr
      joined == IF joins THEN [list[k] EXCEPT !.size = @ + block.size] ELSE block
      merges == k < Len(list) /\ Ends(joined) = list[k + 1].addr
      whole == IF merges THEN [joined EXCEPT !.size = @ + list[k + 1].size] ELSE joined
  IN Splice(list, IF joins THEN k - 1 ELSE k, whole, IF merges THEN k + 2 ELSE k + 1)

Removed(list, i) == SubSeq(list, 1, i - 1) \o SubSeq(list, i + 1, Len(list))

\* multiRegionMalloc: the heap after it and the address, or NULL.  A block that is larger
\* than needed is split unless what is left of it is too small.
Malloc(h, payload) ==
  LET size == payload + 1
      fit == {i \in DOMAIN h.free : h.free[i].size >= size}
      i == CHOOSE j \in fit : \A k \in fit : j <= k
      block == h.free[i]
      split == block.size - size > MinimumBlock
      got == IF split THEN size ELSE block.size
      others == Removed(h.free, i)
  IN IF payload = 0 \/ size > h.remaining \/ fit = {} THEN [heap |-> h, at |-> NULL]
     ELSE [at |-> block.addr,
           heap |-> [free |-> IF split
                              THEN Insert(others, [addr |-> block.addr + size, size |-> block.size - size])
                              ELSE others,
                     taken |-> [a \in DOMAIN h.taken \cup {block.addr} |->
                                  IF a = block.addr THEN got ELSE h.taken[a]],
                     remaining |-> h.remaining - got]]

\* multiRegionFree
Free(h, addr) ==
  [free |-> Insert(h.free, [addr |-> addr, size |-> h.taken[addr]]),
   taken |-> [a \in DOMAIN h.taken \ {addr} |-> h.taken[a]],
   remaining |-> h.remaining + h.taken[addr]]

\* multiRegionRealloc of a block: without memory it frees the block.  With memory it copies
\* xBlockSize bytes with the top bit still set, more than the address space has, which no
\* program survives.
Realloc(h, addr, payload) ==
  LET new == Malloc(h, payload) IN
  IF new.at = NULL THEN [heap |-> Free(h, addr), at |-> NULL, faults |-> FALSE]
  ELSE [heap |-> new.heap, at |-> new.at, faults |-> TRUE]
-----------------------------------------------------------------------------
Units(addr, size) == addr..addr + size - 1

FreeUnits == UNION {Units(heap.free[i].addr, heap.free[i].size) : i \in DOMAIN heap.free}
TakenUnits == UNION {Units(a, heap.taken[a]) : a \in DOMAIN heap.taken}

\* Every unit of the region is in exactly one block, free or held, free blocks are in order
\* and never touch, and xFreeBytesRemaining counts theirs.
HeapSound ==
  /\ FreeUnits \cup TakenUnits = 1..HeapSize /\ FreeUnits \cap TakenUnits = {}
  /\ \A a, b \in DOMAIN heap.taken :
       a # b => Units(a, heap.taken[a]) \cap Units(b, heap.taken[b]) = {}
  /\ \A i \in 1..Len(heap.free) - 1 :
       heap.free[i].addr + heap.free[i].size < heap.free[i + 1].addr
  /\ heap.remaining = Cardinality(FreeUnits)
=============================================================================
