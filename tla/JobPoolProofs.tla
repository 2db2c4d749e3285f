--------------------------- MODULE JobPoolProofs -----------------------------
(***************************************************************************)
(* Proofs about JobPool, for any number of actors, pages and cells and a   *)
(* heap of any size.  The pool needs nothing of the heap but that Malloc    *)
(* returns; the second part is about the heap itself.                      *)
(***************************************************************************)
EXTENDS JobPool, FiniteSetTheorems, NaturalsInduction, WellFoundedInduction, SequenceTheorems, TLAPS

Kinds == {"zero", "job", "left", "garbage"}

\* What the pool and the actors' slots may hold
PoolType ==
  /\ cell \in Seq(Kinds)
  /\ slot \in [Owners -> Nat]
  /\ stage \in [Owners -> {"none", "found", "runs", "stuck"}]

\* What an actor may rely on between the steps of its call, and while its job runs
OwnerInv ==
  \A o \in Owners :
    /\ stage[o] = "none" <=> slot[o] = NULL
    /\ slot[o] # NULL => slot[o] \in DOMAIN cell
    /\ stage[o] = "found" => cell[slot[o]] # "job"
    /\ stage[o] = "runs" => cell[slot[o]] = "job"
    /\ stage[o] = "stuck" => cell[slot[o]] = "garbage"

\* As long as no scan overtakes another, one actor has found a cell, and none shares one.
Distinct ==
  /\ \A o, p \in Owners : stage[o] = "found" /\ stage[p] = "found" => o = p
  /\ OneOwner

IInv ==
  /\ PoolType
  /\ overlapped \in BOOLEAN
  /\ ~overlapped => OwnerInv /\ Distinct

-----------------------------------------------------------------------------
USE DEF NULL, Kinds

\* The cells of a new page join the pool behind the others.
LEMMA NewCells ==
  ASSUME NEW T, NEW s \in Seq(T), NEW n \in Nat, NEW c \in [1..n -> T]
  PROVE  /\ s \o c \in Seq(T) /\ Len(s \o c) = Len(s) + n
         /\ DOMAIN (s \o c) = 1..Len(s) + n
         /\ \A i \in 1..Len(s) : (s \o c)[i] = s[i]
         /\ \A i \in 1..n : (s \o c)[Len(s) + i] = c[i]
<1>1. c \in Seq(T)
  BY SeqDef
<1>2. Len(c) = n
  BY <1>1, LenProperties
<1>3. /\ s \o c \in Seq(T) /\ Len(s \o c) = Len(s) + Len(c)
      /\ \A i \in 1..Len(s) + Len(c) :
           (s \o c)[i] = IF i <= Len(s) THEN s[i] ELSE c[i - Len(s)]
  BY <1>1, ConcatProperties
<1> QED
  BY <1>1, <1>2, <1>3, LenProperties

\* The pool starts empty.
LEMMA Initially == Init => IInv
<1> SUFFICES ASSUME Init PROVE IInv
  OBVIOUS
<1>1. cell = <<>> /\ DOMAIN cell = {} /\ overlapped = FALSE
  BY DEF Init
<1>2. /\ slot \in [Owners -> Nat] /\ stage \in [Owners -> {"none", "found", "runs", "stuck"}]
      /\ \A o \in Owners : slot[o] = NULL /\ stage[o] = "none"
  BY DEF Init
<1>3. PoolType
  BY <1>1, <1>2, EmptySeq DEF PoolType
<1>4. OwnerInv
  BY <1>2 DEF OwnerInv
<1>5. Distinct
  BY <1>2 DEF Distinct, OneOwner
<1> QED
  BY <1>1, <1>3, <1>4, <1>5 DEF IInv

\* A found cell is free; only a thread that had found it before can have it as well.
LEMMA FindCellStep ==
  ASSUME NEW o \in Owners, IInv, ~overlapped, stage[o] = "none",
         overlapped' = (\E p \in Owners : stage[p] = "found"), FindCell(o)
  PROVE  IInv'
<1>1. PICK c \in Zeros : slot' = [slot EXCEPT ![o] = c]
  BY DEF FindCell
<1>2. c \in DOMAIN cell /\ cell[c] = "zero" /\ c \in Nat \ {0}
  BY <1>1, LenProperties DEF Zeros, IInv, PoolType
<1>3. PoolType'
  BY <1>1, <1>2 DEF FindCell, IInv, PoolType
<1>4. ASSUME ~overlapped' PROVE OwnerInv'
  BY <1>1, <1>2, <1>4 DEF FindCell, IInv, PoolType, OwnerInv
<1>5. ASSUME ~overlapped' PROVE Distinct'
  <2>1. \A p \in Owners : slot[p] # c
    BY <1>2, <1>5 DEF IInv, PoolType, OwnerInv
  <2> QED
    BY <1>1, <1>2, <1>5, <2>1 DEF FindCell, IInv, PoolType, Distinct, OneOwner
<1> QED
  BY <1>3, <1>4, <1>5 DEF IInv

\* A page that gets its memory gives the actor a cell nobody knew before.
LEMMA AddPageStep ==
  ASSUME NEW o \in Owners, IInv, ~overlapped, stage[o] = "none",
         overlapped' = (\E p \in Owners : stage[p] = "found"), AddPage(o)
  PROVE  IInv'
<1> DEFINE memory == Malloc(Descriptor.heap, PageSize)
<1>1. CASE memory.at = NULL
  <2>1. UNCHANGED <<cell, slot, stage>>
    BY <1>1 DEF AddPage
  <2> QED
    BY <2>1 DEF IInv, PoolType, OwnerInv, Distinct, OneOwner
<1>2. CASE memory.at # NULL
  <2>1. PICK new \in Contents(memory.at) :
          /\ cell' = cell \o new
          /\ slot' = [slot EXCEPT ![o] = Len(cell) + 1]
          /\ stage' = [stage EXCEPT ![o] = "found"]
    BY <1>2 DEF AddPage
  <2> DEFINE n == Len(cell)
  <2>2. /\ n \in Nat /\ DOMAIN cell = 1..n
        /\ PerPage \in Nat \ {0}
    BY LenProperties, PoolAssumption DEF IInv, PoolType
  <2>3. new \in [1..PerPage -> {"zero", "left", "garbage"}]
    BY DEF Contents
  <2>4. new \in [1..PerPage -> Kinds]
    BY <2>3
  <2>5. /\ cell' \in Seq(Kinds) /\ Len(cell') = n + PerPage /\ DOMAIN (cell') = 1..n + PerPage
        /\ \A i \in 1..n : cell'[i] = cell[i]
        /\ \A i \in 1..PerPage : cell'[n + i] = new[i]
    <3>1. cell \in Seq(Kinds) /\ new \in [1..PerPage -> Kinds] /\ PerPage \in Nat
      BY <2>2, <2>4 DEF IInv, PoolType
    <3>2. /\ cell \o new \in Seq(Kinds) /\ Len(cell \o new) = Len(cell) + PerPage
          /\ DOMAIN (cell \o new) = 1..Len(cell) + PerPage
          /\ \A i \in 1..Len(cell) : (cell \o new)[i] = cell[i]
          /\ \A i \in 1..PerPage : (cell \o new)[Len(cell) + i] = new[i]
      BY <3>1, NewCells
    <3>3. cell' = cell \o new /\ n = Len(cell)
      BY <2>1, <2>2
    <3> QED
      BY <3>2, <3>3
  <2>6. PoolType'
    BY <2>1, <2>2, <2>5 DEF IInv, PoolType
  <2>7. n + 1 \in 1..n + PerPage /\ n + 1 # NULL /\ n + 1 \notin 1..n
    BY <2>2
  <2>8. cell'[n + 1] # "job"
    <3>1. 1 \in 1..PerPage
      BY <2>2
    <3> QED
      BY <2>3, <2>5, <3>1
  <2>9. ASSUME ~overlapped' PROVE OwnerInv'
    <3> SUFFICES ASSUME NEW p \in Owners
                 PROVE  /\ stage'[p] = "none" <=> slot'[p] = NULL
                        /\ slot'[p] # NULL => slot'[p] \in DOMAIN (cell')
                        /\ stage'[p] = "found" => cell'[slot'[p]] # "job"
                        /\ stage'[p] = "runs" => cell'[slot'[p]] = "job"
                        /\ stage'[p] = "stuck" => cell'[slot'[p]] = "garbage"
      BY DEF OwnerInv
    <3>1. CASE p = o
      BY <2>1, <2>5, <2>7, <2>8, <3>1 DEF IInv, PoolType
    <3>2. CASE p # o
      <4>1. slot'[p] = slot[p] /\ stage'[p] = stage[p]
        BY <2>1, <3>2 DEF IInv, PoolType
      <4>2. slot[p] # NULL => slot[p] \in 1..n /\ slot[p] \in 1..n + PerPage
        BY <2>2 DEF IInv, OwnerInv
      <4>3. slot[p] # NULL => cell'[slot[p]] = cell[slot[p]]
        BY <2>5, <4>2
      <4> QED
        BY <2>5, <4>1, <4>2, <4>3 DEF IInv, OwnerInv, PoolType
    <3> QED
      BY <3>1, <3>2
  <2>10. ASSUME ~overlapped' PROVE Distinct'
    <3>1. \A p \in Owners : slot[p] # n + 1
      BY <2>2, <2>7 DEF IInv, OwnerInv
    <3> QED
      BY <2>1, <2>10, <3>1 DEF IInv, PoolType, Distinct, OneOwner
  <2> QED
    BY <2>6, <2>9, <2>10 DEF IInv
<1> QED
  BY <1>1, <1>2

\* The scan, with or without a new page, up to the cell.
LEMMA AllocateStep ==
  ASSUME NEW o \in Owners, IInv, Allocate(o)
  PROVE  IInv'
<1>1. ~overlapped /\ stage[o] = "none" /\ overlapped' = (\E p \in Owners : stage[p] = "found")
  BY DEF Allocate, Active
<1>2. CASE FindCell(o)
  BY <1>1, <1>2, FindCellStep
<1>3. CASE AddPage(o)
  BY <1>1, <1>3, AddPageStep
<1>4. CASE ReadNull
  <2>1. UNCHANGED <<cell, slot, stage>>
    BY <1>4 DEF ReadNull
  <2> QED
    BY <1>1, <2>1 DEF IInv, PoolType, OwnerInv, Distinct, OneOwner
<1> QED
  BY <1>2, <1>3, <1>4 DEF Allocate

\* The event is stored in the cell, unless what is in it looks busy.
LEMMA StoreStep ==
  ASSUME NEW o \in Owners, IInv, Store(o)
  PROVE  IInv'
<1> DEFINE c == slot[o]
<1>1. /\ ~overlapped /\ overlapped' = overlapped /\ slot' = slot
      /\ stage[o] = "found" /\ c # NULL /\ c \in DOMAIN cell /\ c \in Nat
      /\ cell[c] # "job"
  BY DEF Store, Active, IInv, OwnerInv, PoolType
<1>2. CASE cell[c] = "garbage"
  <2>1. stage' = [stage EXCEPT ![o] = "stuck"] /\ cell' = cell
    BY <1>2 DEF Store
  <2> QED
    BY <1>1, <1>2, <2>1
    DEF IInv, PoolType, OwnerInv, Distinct, OneOwner
<1>3. CASE cell[c] # "garbage"
  <2>1. stage' = [stage EXCEPT ![o] = "runs"] /\ cell' = [cell EXCEPT ![c] = "job"]
    BY <1>3 DEF Store
  <2>2. cell' \in Seq(Kinds) /\ Len(cell') = Len(cell) /\ DOMAIN (cell') = DOMAIN cell
    BY <1>1, <2>1, ExceptSeq, LenProperties DEF IInv, PoolType
  <2>3. PoolType'
    BY <1>1, <2>1, <2>2 DEF IInv, PoolType
  <2>4. \A p \in Owners : p # o => slot[p] # c
    BY <1>1 DEF IInv, Distinct, OneOwner, PoolType
  <2>5. OwnerInv'
    BY <1>1, <2>1, <2>2, <2>4 DEF IInv, PoolType, OwnerInv
  <2>6. Distinct'
    BY <1>1, <2>1 DEF IInv, PoolType, Distinct, OneOwner
  <2> QED
    BY <1>1, <2>3, <2>5, <2>6 DEF IInv
<1> QED
  BY <1>2, <1>3

\* The cell of a job that has ended is not another actor's.
LEMMA FinishStep ==
  ASSUME NEW o \in Owners, IInv, Finish(o)
  PROVE  IInv'
<1> DEFINE c == slot[o]
<1>1. /\ ~overlapped /\ overlapped' = overlapped
      /\ slot' = [slot EXCEPT ![o] = NULL] /\ stage' = [stage EXCEPT ![o] = "none"]
      /\ cell' = [cell EXCEPT ![c] = "left"]
      /\ stage[o] = "runs" /\ c # NULL /\ c \in DOMAIN cell
  BY DEF Finish, Active, IInv, OwnerInv, PoolType
<1>2. /\ cell' \in Seq(Kinds) /\ Len(cell') = Len(cell) /\ DOMAIN (cell') = DOMAIN cell
  BY <1>1, ExceptSeq, LenProperties DEF IInv, PoolType
<1>3. PoolType'
  BY <1>1, <1>2 DEF IInv, PoolType
<1>4. \A p \in Owners : p # o => slot[p] # c
  BY <1>1 DEF IInv, Distinct, OneOwner, PoolType
<1>5. OwnerInv'
  BY <1>1, <1>2, <1>4 DEF IInv, PoolType, OwnerInv
<1>6. Distinct'
  BY <1>1 DEF IInv, PoolType, Distinct, OneOwner
<1> QED
  BY <1>1, <1>3, <1>5, <1>6 DEF IInv

\* Every step of the pool, and of the data that shares its heap, keeps the invariant.
LEMMA Step == IInv /\ [Next]_vars => IInv'
<1> SUFFICES ASSUME IInv, [Next]_vars PROVE IInv'
  OBVIOUS
<1>1. ASSUME NEW o \in Owners, Allocate(o) PROVE IInv'
  BY <1>1, AllocateStep
<1>2. ASSUME NEW o \in Owners, Store(o) PROVE IInv'
  BY <1>2, StoreStep
<1>3. ASSUME NEW o \in Owners, Finish(o) PROVE IInv'
  BY <1>3, FinishStep
<1>4. ASSUME TakeData \/ FreeData \/ GrowData \/ UNCHANGED vars PROVE IInv'
  <2>1. UNCHANGED poolVars
    BY <1>4 DEF TakeData, FreeData, GrowData, poolVars, vars
  <2> QED
    BY <2>1 DEF poolVars, IInv, PoolType, OwnerInv, Distinct, OneOwner
<1> QED
  BY <1>1, <1>2, <1>3, <1>4 DEF Next

-----------------------------------------------------------------------------
\* What the pool and its actors agree on holds in every state of the program.
THEOREM PoolConsistent == Spec => []IInv
BY Initially, Step, PTL DEF Spec

\* Two actors share a job only if one scan has overtaken another: under one thread, or with
\* scans that exclude each other, the pool would be safe as it is.
THEOREM OneOwnerPerCell == Spec => []OneOwner
<1>1. IInv => OneOwner
  BY DEF IInv, Distinct, OneOwner
<1> QED
  BY <1>1, PoolConsistent, PTL
-----------------------------------------------------------------------------
(***************************************************************************)
(* The heap: what Insert and Removed do to a list of blocks, what Malloc   *)
(* and Free do to a heap, and what that means for the program's.           *)
(***************************************************************************)
\* A set of natural numbers that is not empty has a least member.
LEMMA LeastNat ==
  ASSUME NEW S, S \subseteq Nat, S # {}
  PROVE  \E m \in S : \A n \in S : m <= n
<1>1. PICK m \in S : \A n \in S : ~(<<n, m>> \in OpToRel(<, Nat))
  BY WFMin, NatLessThanWellFounded, Zenon
<1>2. ASSUME NEW n \in S, n < m PROVE <<n, m>> \in OpToRel(<, Nat)
  BY <1>2, Zenon DEF OpToRel
<1>3. ASSUME NEW n \in S PROVE m <= n
  <2>1. m \in Nat /\ n \in Nat /\ ~(n < m)
    BY <1>1, <1>2
  <2> QED
    BY <2>1
<1> QED
  BY <1>3

Blocks == [addr : Nat \ {0}, size : Nat \ {0}]

\* The units of the blocks of a list
Covered(list) == UNION {Units(list[i].addr, list[i].size) : i \in DOMAIN list}

\* Any two blocks of a list are in order, with memory between them.
Apart(list) ==
  \A i, j \in DOMAIN list : i < j => list[i].addr + list[i].size < list[j].addr

FreeList(list) == list \in Seq(Blocks) /\ Apart(list)

\* A unit is covered if it is one of some block's.
LEMMA CoveredBy ==
  ASSUME NEW list, NEW u
  PROVE  u \in Covered(list) <=> \E i \in DOMAIN list : u \in Units(list[i].addr, list[i].size)
BY DEF Covered

\* The units of a block
LEMMA UnitsOf ==
  ASSUME NEW a \in Int, NEW n \in Int, NEW u
  PROVE  u \in Units(a, n) <=> u \in Int /\ a <= u /\ u < a + n
BY DEF Units

\* One block between two lists
LEMMA Between ==
  ASSUME NEW s \in Seq(Blocks), NEW x \in Blocks, NEW t \in Seq(Blocks)
  PROVE  LET v == s \o <<x>> \o t
             p == Len(s)
         IN /\ v \in Seq(Blocks) /\ Len(v) = p + 1 + Len(t) /\ DOMAIN v = 1..p + 1 + Len(t)
            /\ \A i \in 1..p + 1 + Len(t) :
                 v[i] = IF i <= p THEN s[i] ELSE IF i = p + 1 THEN x ELSE t[i - (p + 1)]
<1> DEFINE w == <<x>>
           u == s \o w
           v == u \o t
           p == Len(s)
<1>1. w \in Seq(Blocks) /\ Len(w) = 1 /\ w[1] = x
  OBVIOUS
<1> HIDE DEF w
<1>2. /\ u \in Seq(Blocks) /\ Len(u) = p + Len(w)
      /\ \A i \in 1..p + Len(w) : u[i] = IF i <= p THEN s[i] ELSE w[i - p]
  BY <1>1, ConcatProperties
<1> HIDE DEF u
<1>3. /\ v \in Seq(Blocks) /\ Len(v) = Len(u) + Len(t)
      /\ \A i \in 1..Len(u) + Len(t) : v[i] = IF i <= Len(u) THEN u[i] ELSE t[i - Len(u)]
  <2>1. u \in Seq(Blocks)
    BY <1>2
  <2> QED
    BY <2>1, ConcatProperties
<1>4. DOMAIN v = 1..Len(v)
  BY <1>3, LenProperties
<1> HIDE DEF v
<1>5. p \in Nat /\ Len(t) \in Nat /\ Len(u) = p + 1
  BY <1>1, <1>2, LenProperties
<1>6. \A i \in 1..p + 1 : u[i] = IF i <= p THEN s[i] ELSE x
  BY <1>1, <1>2, <1>5
<1>7. \A i \in 1..p + 1 + Len(t) :
        v[i] = IF i <= p THEN s[i] ELSE IF i = p + 1 THEN x ELSE t[i - (p + 1)]
  BY <1>3, <1>5, <1>6
<1>8. v = s \o <<x>> \o t
  BY DEF u, v, w
<1> QED
  BY <1>3, <1>4, <1>5, <1>7, <1>8

\* A list without the blocks from p + 1 to q - 1, and with one in their place
LEMMA Spliced ==
  ASSUME NEW list \in Seq(Blocks), NEW x \in Blocks, NEW p \in Nat, NEW q \in Nat,
         p < q, q <= Len(list) + 1
  PROVE  LET new == Splice(list, p, x, q)
             n == Len(list) + 2 + p - q
         IN /\ n \in Nat /\ new \in Seq(Blocks) /\ DOMAIN new = 1..n
            /\ \A i \in 1..n :
                 new[i] = IF i <= p THEN list[i] ELSE IF i = p + 1 THEN x ELSE list[i + q - (p + 2)]
<1> DEFINE s == SubSeq(list, 1, p)
           t == SubSeq(list, q, Len(list))
           v == s \o <<x>> \o t
           n == Len(list) + 2 + p - q
<1>1. Len(list) \in Nat /\ p <= Len(list) /\ \A i \in 1..Len(list) : list[i] \in Blocks
  BY LenProperties, ElementOfSeq
<1>2. s \in Seq(Blocks) /\ Len(s) = p /\ \A i \in 1..p : s[i] = list[i]
  <2>1. \A i \in 1..p : list[i] \in Blocks
    BY <1>1
  <2>2. /\ s \in Seq(Blocks) /\ Len(s) = IF 1 <= p THEN p - 1 + 1 ELSE 0
        /\ \A i \in 1..p - 1 + 1 : s[i] = list[1 + i - 1]
    BY <2>1, SubSeqProperties
  <2> QED
    BY <2>2
<1>3. t \in Seq(Blocks) /\ Len(t) = n - (p + 1) /\ \A i \in 1..Len(t) : t[i] = list[q + i - 1]
  <2>1. \A i \in q..Len(list) : list[i] \in Blocks
    BY <1>1
  <2>2. /\ t \in Seq(Blocks) /\ Len(t) = IF q <= Len(list) THEN Len(list) - q + 1 ELSE 0
        /\ \A i \in 1..Len(list) - q + 1 : t[i] = list[q + i - 1]
    BY <1>1, <2>1, SubSeqProperties
  <2>3. /\ Len(list) - q + 1 = n - (p + 1)
        /\ (~(q <= Len(list)) => n - (p + 1) = 0)
    BY <1>1
  <2> QED
    BY <2>2, <2>3
<1> HIDE DEF s, t
<1>4. /\ v \in Seq(Blocks) /\ DOMAIN v = 1..Len(s) + 1 + Len(t)
      /\ \A i \in 1..Len(s) + 1 + Len(t) :
           v[i] = IF i <= Len(s) THEN s[i] ELSE IF i = Len(s) + 1 THEN x ELSE t[i - (Len(s) + 1)]
  <2>1. s \in Seq(Blocks) /\ t \in Seq(Blocks) /\ x \in Blocks
    BY <1>2, <1>3
  <2> QED
    BY <2>1, Between
<1> HIDE DEF v
<1>5. Len(s) + 1 + Len(t) = n /\ n \in Nat
  BY <1>1, <1>2, <1>3
<1>6. ASSUME NEW i \in 1..n
      PROVE  v[i] = IF i <= p THEN list[i] ELSE IF i = p + 1 THEN x ELSE list[i + q - (p + 2)]
  <2>1. v[i] = IF i <= p THEN s[i] ELSE IF i = p + 1 THEN x ELSE t[i - (p + 1)]
    BY <1>2, <1>4, <1>5
  <2>2. CASE i <= p
    BY <1>2, <2>1, <2>2
  <2>3. CASE i > p + 1
    <3>1. i - (p + 1) \in 1..Len(t) /\ q + (i - (p + 1)) - 1 = i + q - (p + 2)
      BY <1>1, <1>3, <1>5, <2>3
    <3>2. t[i - (p + 1)] = list[i + q - (p + 2)]
      BY <1>3, <3>1
    <3> QED
      BY <2>1, <2>3, <3>2
  <2> QED
    BY <2>1, <2>2, <2>3
<1>7. v = Splice(list, p, x, q)
  BY DEF s, t, v, Splice
<1> QED
  BY <1>4, <1>5, <1>6, <1>7

\* Replacing a stretch of a list by a block that fits there keeps the list in order.
LEMMA SplicedApart ==
  ASSUME NEW list \in Seq(Blocks), NEW x \in Blocks, NEW p \in Nat, NEW q \in Nat,
         p < q, q <= Len(list) + 1
  PROVE  /\ Apart(list)
         /\ \A i \in 1..p : Ends(list[i]) < x.addr
         /\ \A i \in q..Len(list) : Ends(x) < list[i].addr
         => Apart(Splice(list, p, x, q))
<1> DEFINE new == Splice(list, p, x, q)
           n == Len(list) + 2 + p - q
<1>1. /\ n \in Nat /\ DOMAIN new = 1..n
      /\ \A i \in 1..n :
           new[i] = IF i <= p THEN list[i] ELSE IF i = p + 1 THEN x ELSE list[i + q - (p + 2)]
  BY Spliced
<1> HIDE DEF new
<1>2. Len(list) \in Nat /\ DOMAIN list = 1..Len(list)
  BY LenProperties
<1> SUFFICES ASSUME Apart(list), \A i \in 1..p : Ends(list[i]) < x.addr,
                    \A i \in q..Len(list) : Ends(x) < list[i].addr,
                    NEW i \in 1..n, NEW j \in 1..n, i < j PROVE Ends(new[i]) < new[j].addr
  BY <1>1 DEF Apart, Ends, new
<1> HIDE DEF n
<1>0. n \in Nat /\ i \in Nat /\ j \in Nat /\ n = Len(list) + 2 + p - q
  BY <1>1 DEF n
<1>3. CASE i <= p
  <2>1. new[i] = list[i] /\ i \in 1..p /\ i \in DOMAIN list
    BY <1>1, <1>2, <1>0, <1>3
  <2>2. CASE j <= p
    <3>1. new[j] = list[j] /\ j \in DOMAIN list
      BY <1>1, <1>2, <1>0, <2>2
    <3> QED
      BY <2>1, <3>1 DEF Apart, Ends
  <2>3. CASE j = p + 1
    <3>1. new[j] = x
      BY <1>1, <2>3, <1>0
    <3> QED
      BY <2>1, <3>1
  <2>4. CASE j > p + 1
    <3>1. new[j] = list[j + q - (p + 2)]
      BY <1>1, <2>4, <1>0
    <3>2. j + q - (p + 2) \in DOMAIN list /\ i < j + q - (p + 2)
      BY <1>2, <1>0, <1>3, <2>4
    <3> QED
      BY <2>1, <3>1, <3>2 DEF Apart, Ends
  <2> QED
    BY <2>2, <2>3, <2>4, <1>0
<1>4. CASE i = p + 1
  <2>1. new[i] = x /\ new[j] = list[j + q - (p + 2)]
    BY <1>1, <1>4, <1>0
  <2>2. j + q - (p + 2) \in q..Len(list)
    BY <1>2, <1>0, <1>4
  <2> QED
    BY <2>1, <2>2
<1>5. CASE i > p + 1
  <2>1. new[i] = list[i + q - (p + 2)] /\ new[j] = list[j + q - (p + 2)]
    BY <1>1, <1>5, <1>0
  <2>2. /\ i + q - (p + 2) \in DOMAIN list /\ j + q - (p + 2) \in DOMAIN list
        /\ i + q - (p + 2) < j + q - (p + 2)
    BY <1>2, <1>0, <1>5
  <2> QED
    BY <2>1, <2>2 DEF Apart, Ends
<1> QED
  BY <1>3, <1>4, <1>5, <1>0

\* ... which covers what the blocks that stay and the new one do.
LEMMA SplicedCovers ==
  ASSUME NEW list \in Seq(Blocks), NEW x \in Blocks, NEW p \in Nat, NEW q \in Nat,
         p < q, q <= Len(list) + 1, NEW u
  PROVE  u \in Covered(Splice(list, p, x, q)) <=>
           \/ u \in Units(x.addr, x.size)
           \/ \E i \in 1..Len(list) : (i <= p \/ i >= q) /\ u \in Units(list[i].addr, list[i].size)
<1> DEFINE new == Splice(list, p, x, q)
           n == Len(list) + 2 + p - q
           U(b) == Units(b.addr, b.size)
<1>1. /\ n \in Nat /\ DOMAIN new = 1..n
      /\ \A i \in 1..n :
           new[i] = IF i <= p THEN list[i] ELSE IF i = p + 1 THEN x ELSE list[i + q - (p + 2)]
  BY Spliced
<1> HIDE DEF new
<1>2. Len(list) \in Nat
  BY LenProperties
<1>3. u \in Covered(new) <=> \E i \in 1..n : u \in U(new[i])
  BY <1>1, CoveredBy
<1> HIDE DEF U
<1>4. ASSUME NEW i \in 1..n, u \in U(new[i])
      PROVE  u \in U(x) \/ \E j \in 1..Len(list) : (j <= p \/ j >= q) /\ u \in U(list[j])
  <2>1. CASE i <= p
    <3>1. new[i] = list[i] /\ i \in 1..Len(list)
      BY <1>1, <1>2, <2>1
    <3> QED
      BY <1>4, <2>1, <3>1
  <2>2. CASE i = p + 1
    <3>1. new[i] = x
      BY <1>1, <2>2
    <3> QED
      BY <1>4, <3>1
  <2>3. CASE i > p + 1
    <3>1. new[i] = list[i + q - (p + 2)]
      BY <1>1, <2>3
    <3>2. i + q - (p + 2) \in 1..Len(list) /\ i + q - (p + 2) >= q
      BY <1>2, <2>3
    <3> QED
      BY <1>4, <3>1, <3>2
  <2> QED
    BY <2>1, <2>2, <2>3
<1>5. ASSUME u \in U(x) PROVE \E i \in 1..n : u \in U(new[i])
  <2>1. p + 1 \in 1..n /\ new[p + 1] = x
    BY <1>1, <1>2
  <2> QED
    BY <1>5, <2>1
<1>6. ASSUME NEW j \in 1..Len(list), j <= p \/ j >= q, u \in U(list[j])
      PROVE  \E i \in 1..n : u \in U(new[i])
  <2>1. CASE j <= p
    <3>1. j \in 1..n /\ new[j] = list[j]
      BY <1>1, <1>2, <2>1
    <3> QED
      BY <1>6, <3>1
  <2>2. CASE j >= q
    <3> DEFINE i == j + p + 2 - q
    <3>1. i \in 1..n /\ i > p + 1 /\ i + q - (p + 2) = j
      BY <1>2, <2>2
    <3>2. new[i] = list[j]
      BY <1>1, <3>1
    <3> QED
      BY <1>6, <3>1, <3>2
  <2> QED
    BY <1>6, <2>1, <2>2
<1> QED
  BY <1>3, <1>4, <1>5, <1>6 DEF new, U

\* The place of an address in a list is where the blocks before it end.
LEMMA PlaceFound ==
  ASSUME NEW list \in Seq(Blocks), NEW addr \in Nat
  PROVE  LET k == Place(list, addr) IN
         /\ k \in 0..Len(list) /\ \A i \in 1..k : list[i].addr < addr
         /\ k < Len(list) => list[k + 1].addr >= addr
<1> DEFINE Fits(k) == /\ \A i \in 1..k : list[i].addr < addr
                      /\ k < Len(list) => list[k + 1].addr >= addr
           Behind == {i \in 1..Len(list) : list[i].addr >= addr}
<1>1. Len(list) \in Nat /\ \A i \in 1..Len(list) : list[i].addr \in Nat
  <2>1. \A i \in 1..Len(list) : list[i] \in Blocks
    BY ElementOfSeq
  <2> QED
    BY <2>1, LenProperties DEF Blocks
<1>2. \E k \in 0..Len(list) : Fits(k)
  <2>1. CASE Behind = {}
    <3>1. Fits(Len(list))
      BY <1>1, <2>1
    <3> QED
      BY <1>1, <3>1
  <2>2. CASE Behind # {}
    <3>1. Behind \subseteq Nat
      BY <1>1
    <3>2. PICK m \in Behind : \A i \in Behind : m <= i
      BY <2>2, <3>1, LeastNat
    <3>3. m \in 1..Len(list) /\ list[m].addr >= addr
      OBVIOUS
    <3>4. \A i \in 1..m - 1 : i \in 1..Len(list) /\ i \notin Behind
      BY <1>1, <3>2, <3>3
    <3>5. Fits(m - 1) /\ m - 1 \in 0..Len(list)
      BY <1>1, <3>3, <3>4
    <3> QED
      BY <3>5
  <2> QED
    BY <2>1, <2>2
<1>3. Place(list, addr) = CHOOSE k \in 0..Len(list) : Fits(k)
  BY DEF Place
<1> HIDE DEF Fits
<1>4. Place(list, addr) \in 0..Len(list) /\ Fits(Place(list, addr))
  BY <1>2, <1>3
<1> QED
  BY <1>4 DEF Fits

\* A free block keeps the list in order, and adds its units to it.
LEMMA InsertKeeps ==
  ASSUME NEW list, FreeList(list), NEW block \in Blocks,
         \A u \in Units(block.addr, block.size) : u \notin Covered(list)
  PROVE  /\ FreeList(Insert(list, block))
         /\ Covered(Insert(list, block)) = Covered(list) \cup Units(block.addr, block.size)
<1> DEFINE n == Len(list)
           k == Place(list, block.addr)
           joins == k > 0 /\ Ends(list[k]) = block.addr
           joined == IF joins THEN [list[k] EXCEPT !.size = @ + block.size] ELSE block
           merges == k < n /\ Ends(joined) = list[k + 1].addr
           whole == IF merges THEN [joined EXCEPT !.size = @ + list[k + 1].size] ELSE joined
           p == IF joins THEN k - 1 ELSE k
           q == IF merges THEN k + 2 ELSE k + 1
<1>1. /\ list \in Seq(Blocks) /\ n \in Nat /\ DOMAIN list = 1..n
      /\ \A i \in 1..n : list[i] \in Blocks
      /\ \A i, j \in 1..n : i < j => Ends(list[i]) < list[j].addr
  BY LenProperties, ElementOfSeq DEF FreeList, Apart, Ends
<1>2. /\ block.addr \in Nat \ {0} /\ block.size \in Nat \ {0}
      /\ \A i \in 1..n : list[i].addr \in Nat \ {0} /\ list[i].size \in Nat \ {0}
  BY <1>1 DEF Blocks
<1>3. /\ k \in 0..n /\ \A i \in 1..k : list[i].addr < block.addr
      /\ k < n => list[k + 1].addr >= block.addr
  BY <1>1, <1>2, PlaceFound
<1> HIDE DEF n, k
<1>4. ASSUME NEW i \in 1..n, NEW u \in Int, list[i].addr <= u, u < Ends(list[i])
      PROVE  ~(block.addr <= u /\ u < Ends(block))
  <2>1. u \in Units(list[i].addr, list[i].size)
    BY <1>2, <1>4, UnitsOf DEF Ends
  <2>2. u \notin Units(block.addr, block.size)
    BY <1>1, <2>1, CoveredBy
  <2> QED
    BY <1>2, <2>2, UnitsOf DEF Ends
\* The blocks before the place end before the block, those behind it start behind it.
<1>5. ASSUME NEW i \in 1..k PROVE Ends(list[i]) <= block.addr
  <2>1. i \in 1..n /\ list[i].addr < block.addr
    BY <1>1, <1>3
  <2>2. block.addr < Ends(block) /\ block.addr \in Int
    BY <1>2 DEF Ends
  <2>3. Ends(list[i]) \in Int /\ list[i].addr \in Int
    BY <1>2, <2>1 DEF Ends
  <2> QED
    BY <1>2, <1>4, <2>1, <2>2, <2>3
<1>6. ASSUME NEW i \in k + 1..n PROVE Ends(block) <= list[i].addr
  <2>1. i \in 1..n /\ k + 1 \in 1..n
    BY <1>1, <1>3
  <2>2. list[k + 1].addr <= list[i].addr
    <3>1. CASE i = k + 1
      BY <1>2, <2>1, <3>1
    <3>2. CASE i > k + 1
      <4>1. Ends(list[k + 1]) < list[i].addr
        BY <1>1, <2>1, <3>2
      <4> QED
        BY <1>2, <2>1, <4>1 DEF Ends
    <3> QED
      BY <1>3, <2>1, <3>1, <3>2
  <2>3. list[k + 1].addr >= block.addr
    BY <1>1, <1>3, <2>1
  <2>4. list[i].addr < Ends(list[i]) /\ list[i].addr \in Int
    BY <1>2, <2>1 DEF Ends
  <2>5. list[k + 1].addr \in Int /\ block.addr \in Int /\ Ends(block) \in Int
    BY <1>2, <2>1 DEF Ends
  <2>6. block.addr <= list[i].addr
    BY <2>2, <2>3, <2>4, <2>5
  <2> QED
    BY <1>4, <2>1, <2>4, <2>5, <2>6
<1>7. joins => k \in 1..n /\ list[k].addr + list[k].size = block.addr
  BY <1>1, <1>3 DEF Ends
<1>8. /\ joined \in Blocks /\ Ends(joined) = Ends(block)
      /\ joined = IF joins THEN [addr |-> list[k].addr, size |-> list[k].size + block.size]
                           ELSE block
  <2>1. CASE joins
    <3>1. list[k] \in Blocks
      BY <1>1, <1>7, <2>1
    <3>2. joined = [list[k] EXCEPT !.size = list[k].size + block.size]
      BY <2>1
    <3>3. joined = [addr |-> list[k].addr, size |-> list[k].size + block.size]
      BY <3>1, <3>2 DEF Blocks
    <3>4. list[k].addr \in Nat \ {0} /\ list[k].size + block.size \in Nat \ {0}
      BY <1>2, <1>7, <2>1
    <3>5. joined \in Blocks
      BY <3>3, <3>4 DEF Blocks
    <3>6. joined.addr = list[k].addr /\ joined.size = list[k].size + block.size
      BY <3>3
    <3>7. Ends(joined) = Ends(block)
      BY <1>2, <1>7, <2>1, <3>6 DEF Ends
    <3> QED
      BY <2>1, <3>3, <3>5, <3>7
  <2>2. CASE ~joins
    BY <2>2
  <2> QED
    BY <2>1, <2>2
<1> HIDE DEF joined
<1>9. merges => k + 1 \in 1..n /\ Ends(block) = list[k + 1].addr
  BY <1>1, <1>3, <1>8
<1>10. /\ whole \in Blocks /\ whole.addr = joined.addr
       /\ Ends(whole) = IF merges THEN Ends(list[k + 1]) ELSE Ends(block)
  <2>1. CASE merges
    <3>1. whole = [joined EXCEPT !.size = joined.size + list[k + 1].size]
      BY <2>1
    <3>2. whole = [addr |-> joined.addr, size |-> joined.size + list[k + 1].size]
      BY <1>8, <3>1 DEF Blocks
    <3>3. joined.addr \in Nat \ {0} /\ joined.size \in Nat \ {0}
      BY <1>8 DEF Blocks
    <3>4. list[k + 1].size \in Nat \ {0} /\ list[k + 1].addr \in Nat
      BY <1>2, <1>9, <2>1
    <3>5. joined.size + list[k + 1].size \in Nat \ {0}
      BY <3>3, <3>4
    <3>6. whole \in Blocks
      BY <3>2, <3>3, <3>5 DEF Blocks
    <3>7. whole.addr = joined.addr /\ whole.size = joined.size + list[k + 1].size
      BY <3>2
    <3>8. joined.addr + joined.size = list[k + 1].addr
      BY <1>8, <1>9, <2>1 DEF Ends
    <3>9. Ends(whole) = Ends(list[k + 1])
      BY <3>3, <3>4, <3>7, <3>8 DEF Ends
    <3> QED
      BY <2>1, <3>6, <3>7, <3>9
  <2>2. CASE ~merges
    BY <1>8, <2>2
  <2> QED
    BY <2>1, <2>2
<1> HIDE DEF whole, joins, merges
<1>11. p \in Nat /\ q \in Nat /\ p < q /\ q <= n + 1
  BY <1>1, <1>3, <1>7, <1>9
<1>12. ASSUME NEW i \in 1..p PROVE Ends(list[i]) < whole.addr
  <2>1. i \in 1..k /\ i \in 1..n
    BY <1>1, <1>3
  <2>2. Ends(list[i]) <= block.addr /\ Ends(list[i]) \in Int
    BY <1>2, <1>5, <2>1 DEF Ends
  <2>3. CASE joins
    <3>1. i < k /\ k \in 1..n
      BY <1>3, <1>7, <2>1, <2>3
    <3>2. whole.addr = list[k].addr
      BY <1>8, <1>10, <2>3
    <3> QED
      BY <1>1, <2>1, <3>1, <3>2
  <2>4. CASE ~joins
    <3>1. whole.addr = block.addr
      BY <1>8, <1>10, <2>4
    <3>2. CASE i = k
      <4>1. Ends(list[k]) # block.addr
        BY <1>3, <2>1, <2>4, <3>2 DEF joins
      <4> QED
        BY <1>2, <2>2, <3>1, <3>2, <4>1
    <3>3. CASE i < k
      <4>1. k \in 1..n /\ Ends(list[i]) < list[k].addr /\ list[k].addr < block.addr
        BY <1>1, <1>3, <2>1, <3>3
      <4>2. list[k].addr \in Int
        BY <1>2, <4>1
      <4> QED
        BY <1>2, <2>2, <3>1, <4>1, <4>2
    <3> QED
      BY <1>3, <2>1, <3>2, <3>3
  <2> QED
    BY <2>3, <2>4
<1>13. ASSUME NEW i \in q..n PROVE Ends(whole) < list[i].addr
  <2>1. i \in k + 1..n /\ i \in 1..n
    BY <1>1, <1>3, <1>11
  <2>2. CASE merges
    <3>1. k + 1 \in 1..n /\ k + 1 < i
      BY <1>1, <1>3, <1>9, <2>1, <2>2
    <3> QED
      BY <1>1, <1>10, <2>1, <2>2, <3>1
  <2>3. CASE ~merges
    <3>1. Ends(whole) = Ends(block) /\ Ends(block) <= list[i].addr
      BY <1>6, <1>10, <2>1, <2>3
    <3>2. Ends(block) \in Int /\ list[i].addr \in Int
      BY <1>2, <2>1 DEF Ends
    <3>3. CASE i = k + 1
      <4>1. Ends(block) # list[k + 1].addr
        BY <1>1, <1>3, <1>8, <2>1, <2>3, <3>3 DEF merges
      <4> QED
        BY <3>1, <3>2, <3>3, <4>1
    <3>4. CASE i > k + 1
      <4>1. k + 1 \in 1..n /\ k + 1 \in k + 1..n
        BY <1>1, <1>3, <2>1, <3>4
      <4>2. Ends(list[k + 1]) < list[i].addr /\ Ends(block) <= list[k + 1].addr
        BY <1>1, <1>6, <2>1, <3>4, <4>1
      <4>3. list[k + 1].addr < Ends(list[k + 1]) /\ list[k + 1].addr \in Int /\ Ends(list[k + 1]) \in Int
        BY <1>2, <4>1 DEF Ends
      <4> QED
        BY <3>1, <3>2, <4>2, <4>3
    <3> QED
      BY <1>3, <2>1, <3>3, <3>4
  <2> QED
    BY <2>2, <2>3
<1>14. Insert(list, block) = Splice(list, p, whole, q)
  BY DEF Insert, n, k, joins, joined, merges, whole
<1>15. FreeList(Insert(list, block))
  <2>1. Splice(list, p, whole, q) \in Seq(Blocks)
    BY <1>1, <1>10, <1>11, Spliced DEF n
  <2>2. Apart(list)
    BY DEF FreeList
  <2>3. Apart(Splice(list, p, whole, q))
    BY <1>1, <1>10, <1>11, <1>12, <1>13, <2>2, SplicedApart DEF n
  <2> QED
    BY <1>14, <2>1, <2>3 DEF FreeList
<1>16. ASSUME NEW u
       PROVE  u \in Covered(Insert(list, block)) <=>
                u \in Covered(list) \/ u \in Units(block.addr, block.size)
  <2> DEFINE In(i) == u \in Units(list[i].addr, list[i].size)
  <2>1. u \in Covered(Insert(list, block)) <=>
          u \in Units(whole.addr, whole.size) \/ \E i \in 1..n : (i <= p \/ i >= q) /\ In(i)
    BY <1>1, <1>10, <1>11, <1>14, SplicedCovers DEF n
  <2>2. u \in Covered(list) <=> \E i \in 1..n : In(i)
    BY <1>1, CoveredBy
  <2>3. u \in Units(whole.addr, whole.size) <=>
          u \in Units(block.addr, block.size) \/ (joins /\ In(k)) \/ (merges /\ In(k + 1))
    <3>1. /\ whole.addr \in Int /\ whole.size \in Int /\ block.addr \in Int /\ block.size \in Int
          /\ block.size > 0
      BY <1>2, <1>10 DEF Blocks
    <3>2. u \in Units(whole.addr, whole.size) <=> u \in Int /\ whole.addr <= u /\ u < Ends(whole)
      BY <3>1, UnitsOf DEF Ends
    <3>3. u \in Units(block.addr, block.size) <=> u \in Int /\ block.addr <= u /\ u < Ends(block)
      BY <3>1, UnitsOf DEF Ends
    <3>4. joins => /\ In(k) <=> u \in Int /\ list[k].addr <= u /\ u < block.addr
                   /\ whole.addr = list[k].addr /\ list[k].addr \in Int /\ list[k].addr < block.addr
      <4> SUFFICES ASSUME joins
                   PROVE  /\ In(k) <=> u \in Int /\ list[k].addr <= u /\ u < block.addr
                          /\ whole.addr = list[k].addr /\ list[k].addr \in Int
                          /\ list[k].addr < block.addr
        OBVIOUS
      <4>1. /\ list[k].addr \in Int /\ list[k].size \in Int /\ list[k].size > 0
            /\ list[k].addr + list[k].size = block.addr
        BY <1>2, <1>7
      <4>2. In(k) <=> u \in Int /\ list[k].addr <= u /\ u < list[k].addr + list[k].size
        BY <4>1, UnitsOf
      <4>3. whole.addr = list[k].addr
        BY <1>8, <1>10
      <4> QED
        BY <3>1, <4>1, <4>2, <4>3
    <3>5. merges => /\ In(k + 1) <=> u \in Int /\ Ends(block) <= u /\ u < Ends(whole)
                    /\ Ends(whole) \in Int /\ Ends(block) < Ends(whole)
      <4> SUFFICES ASSUME merges
                   PROVE  /\ In(k + 1) <=> u \in Int /\ Ends(block) <= u /\ u < Ends(whole)
                          /\ Ends(whole) \in Int /\ Ends(block) < Ends(whole)
        OBVIOUS
      <4>1. /\ list[k + 1].addr \in Int /\ list[k + 1].size \in Int /\ list[k + 1].size > 0
            /\ Ends(block) = list[k + 1].addr
        BY <1>2, <1>9
      <4>2. In(k + 1) <=> u \in Int /\ list[k + 1].addr <= u /\ u < list[k + 1].addr + list[k + 1].size
        BY <4>1, UnitsOf
      <4>3. Ends(whole) = list[k + 1].addr + list[k + 1].size
        BY <1>10 DEF Ends
      <4> QED
        BY <4>1, <4>2, <4>3
    <3>6. (~joins => whole.addr = block.addr) /\ (~merges => Ends(whole) = Ends(block))
      BY <1>8, <1>10
    <3>7. Ends(block) \in Int /\ block.addr < Ends(block)
      BY <3>1 DEF Ends
    <3> HIDE DEF In
    <3> QED
      BY <3>1, <3>2, <3>3, <3>4, <3>5, <3>6, <3>7
  <2>4. ASSUME NEW i \in 1..n
        PROVE  i <= p \/ i >= q \/ (joins /\ i = k) \/ (merges /\ i = k + 1)
    BY <1>1, <1>3
  <2>5. (joins => k \in 1..n) /\ (merges => k + 1 \in 1..n)
    BY <1>7, <1>9
  <2> HIDE DEF In, p, q
  <2> QED
    BY <2>1, <2>2, <2>3, <2>4, <2>5
<1> QED
  BY <1>15, <1>16

\* A list without one of its blocks
LEMMA Removal ==
  ASSUME NEW list \in Seq(Blocks), NEW i \in 1..Len(list)
  PROVE  /\ Removed(list, i) \in Seq(Blocks)
         /\ DOMAIN Removed(list, i) = 1..Len(list) - 1
         /\ \A j \in 1..Len(list) - 1 :
              Removed(list, i)[j] = IF j < i THEN list[j] ELSE list[j + 1]
<1> DEFINE s == SubSeq(list, 1, i - 1)
           t == SubSeq(list, i + 1, Len(list))
           v == s \o t
<1>1. Len(list) \in Nat /\ i \in Nat /\ \A j \in 1..Len(list) : list[j] \in Blocks
  BY LenProperties, ElementOfSeq
<1>2. s \in Seq(Blocks) /\ Len(s) = i - 1 /\ \A j \in 1..i - 1 : s[j] = list[j]
  <2>1. i - 1 \in Int /\ \A j \in 1..i - 1 : list[j] \in Blocks
    BY <1>1
  <2>2. /\ s \in Seq(Blocks) /\ Len(s) = IF 1 <= i - 1 THEN i - 1 - 1 + 1 ELSE 0
        /\ \A j \in 1..i - 1 - 1 + 1 : s[j] = list[1 + j - 1]
    BY <2>1, SubSeqProperties
  <2> QED
    BY <1>1, <2>2
<1>3. t \in Seq(Blocks) /\ Len(t) = Len(list) - i /\ \A j \in 1..Len(list) - i : t[j] = list[i + j]
  <2>1. i + 1 \in Int /\ \A j \in i + 1..Len(list) : list[j] \in Blocks
    BY <1>1
  <2>2. /\ t \in Seq(Blocks) /\ Len(t) = IF i + 1 <= Len(list) THEN Len(list) - (i + 1) + 1 ELSE 0
        /\ \A j \in 1..Len(list) - (i + 1) + 1 : t[j] = list[(i + 1) + j - 1]
    BY <1>1, <2>1, SubSeqProperties
  <2> QED
    BY <1>1, <2>2
<1> HIDE DEF s, t
<1>4. /\ v \in Seq(Blocks) /\ Len(v) = Len(s) + Len(t)
      /\ \A j \in 1..Len(s) + Len(t) : v[j] = IF j <= Len(s) THEN s[j] ELSE t[j - Len(s)]
  <2>1. s \in Seq(Blocks) /\ t \in Seq(Blocks)
    BY <1>2, <1>3
  <2> QED
    BY <2>1, ConcatProperties
<1>5. DOMAIN v = 1..Len(v)
  BY <1>4, LenProperties
<1> HIDE DEF v
<1>6. Len(s) + Len(t) = Len(list) - 1
  BY <1>1, <1>2, <1>3
<1>7. ASSUME NEW j \in 1..Len(list) - 1
      PROVE  v[j] = IF j < i THEN list[j] ELSE list[j + 1]
  <2>1. v[j] = IF j <= Len(s) THEN s[j] ELSE t[j - Len(s)]
    BY <1>4, <1>6
  <2>2. CASE j < i
    BY <1>1, <1>2, <2>1, <2>2
  <2>3. CASE ~(j < i)
    <3>1. ~(j <= Len(s)) /\ j - Len(s) \in 1..Len(list) - i /\ i + (j - Len(s)) = j + 1
      BY <1>1, <1>2, <2>3
    <3> QED
      BY <1>3, <2>1, <2>3, <3>1
  <2> QED
    BY <2>2, <2>3
<1>8. v = Removed(list, i)
  BY DEF s, t, v, Removed
<1> QED
  BY <1>4, <1>5, <1>6, <1>7, <1>8

\* A block that is taken off the list leaves it in order, with the units of the others.
LEMMA RemovedKeeps ==
  ASSUME NEW list, FreeList(list), NEW i \in DOMAIN list
  PROVE  /\ FreeList(Removed(list, i))
         /\ Covered(Removed(list, i)) = Covered(list) \ Units(list[i].addr, list[i].size)
<1> DEFINE n == Len(list)
           new == Removed(list, i)
           In(u, b) == u \in Units(b.addr, b.size)
<1>1. /\ list \in Seq(Blocks) /\ n \in Nat /\ DOMAIN list = 1..n
      /\ \A j \in 1..n : list[j] \in Blocks
      /\ \A j, k \in 1..n : j < k => Ends(list[j]) < list[k].addr
  BY LenProperties, ElementOfSeq DEF FreeList, Apart, Ends
<1>2. \A j \in 1..n : list[j].addr \in Nat \ {0} /\ list[j].size \in Nat \ {0}
  BY <1>1 DEF Blocks
<1>3. /\ new \in Seq(Blocks) /\ DOMAIN new = 1..n - 1
      /\ \A j \in 1..n - 1 : new[j] = IF j < i THEN list[j] ELSE list[j + 1]
  BY <1>1, Removal
<1> HIDE DEF n, new
<1>4. Apart(new)
  <2> SUFFICES ASSUME NEW j \in 1..n - 1, NEW k \in 1..n - 1, j < k
               PROVE  Ends(new[j]) < new[k].addr
    BY <1>3 DEF Apart, Ends
  <2> DEFINE a == IF j < i THEN j ELSE j + 1
             b == IF k < i THEN k ELSE k + 1
  <2>1. new[j] = list[a] /\ new[k] = list[b]
    BY <1>3
  <2>2. a \in 1..n /\ b \in 1..n /\ a < b
    BY <1>1
  <2> HIDE DEF a, b
  <2> QED
    BY <1>1, <2>1, <2>2
<1>5. ASSUME NEW u, NEW j \in 1..n, j # i, In(u, list[j]) PROVE ~In(u, list[i])
  <2>1. /\ u \in Int /\ list[j].addr <= u /\ u < Ends(list[j])
        /\ In(u, list[i]) => list[i].addr <= u /\ u < Ends(list[i])
    BY <1>1, <1>2, <1>5, UnitsOf DEF Ends
  <2>2. Ends(list[j]) < list[i].addr \/ Ends(list[i]) < list[j].addr
    <3>1. j < i \/ i < j
      BY <1>1, <1>5
    <3> QED
      BY <1>1, <3>1
  <2>3. /\ list[i].addr \in Int /\ list[j].addr \in Int /\ Ends(list[i]) \in Int /\ Ends(list[j]) \in Int
    BY <1>1, <1>2 DEF Ends
  <2> HIDE DEF In
  <2> QED
    BY <2>1, <2>2, <2>3
<1>6. ASSUME NEW u
      PROVE  u \in Covered(new) <=> u \in Covered(list) /\ ~In(u, list[i])
  <2>1. u \in Covered(new) <=> \E j \in 1..n - 1 : In(u, new[j])
    BY <1>3, CoveredBy
  <2>2. u \in Covered(list) <=> \E j \in 1..n : In(u, list[j])
    BY <1>1, CoveredBy
  <2> HIDE DEF In
  <2>3. ASSUME NEW j \in 1..n - 1, In(u, new[j])
        PROVE  (\E k \in 1..n : In(u, list[k])) /\ ~In(u, list[i])
    <3> DEFINE k == IF j < i THEN j ELSE j + 1
    <3>1. k \in 1..n /\ k # i /\ new[j] = list[k]
      BY <1>1, <1>3
    <3> HIDE DEF k
    <3>2. In(u, list[k])
      BY <2>3, <3>1
    <3> QED
      BY <1>5, <3>1, <3>2
  <2>4. ASSUME NEW k \in 1..n, In(u, list[k]), ~In(u, list[i])
        PROVE  \E j \in 1..n - 1 : In(u, new[j])
    <3> DEFINE j == IF k < i THEN k ELSE k - 1
    <3>1. k # i
      BY <2>4
    <3>2. j \in 1..n - 1 /\ k = IF j < i THEN j ELSE j + 1
      BY <1>1, <3>1
    <3>3. new[j] = list[k]
      BY <1>3, <3>2
    <3> HIDE DEF j
    <3> QED
      BY <2>4, <3>2, <3>3
  <2> QED
    BY <2>1, <2>2, <2>3, <2>4
<1> QED
  BY <1>3, <1>4, <1>6 DEF FreeList, new

\* The units of the blocks the program holds
Held(taken) == UNION {Units(a, taken[a]) : a \in DOMAIN taken}

\* A heap every unit of which is in one block, as HeapSound says it of the program's
GoodHeap(h) ==
  /\ FreeList(h.free)
  /\ \A a \in DOMAIN h.taken : a \in Nat \ {0} /\ h.taken[a] \in Nat \ {0}
  /\ Covered(h.free) \cup Held(h.taken) = 1..HeapSize
  /\ Covered(h.free) \cap Held(h.taken) = {}
  /\ \A a, b \in DOMAIN h.taken : a # b => Units(a, h.taken[a]) \cap Units(b, h.taken[b]) = {}
  /\ h.remaining = Cardinality(Covered(h.free))

\* A unit is held if it is one of some block's.
LEMMA HeldBy ==
  ASSUME NEW taken, NEW u
  PROVE  u \in Held(taken) <=> \E a \in DOMAIN taken : u \in Units(a, taken[a])
BY DEF Held

\* A block has as many units as its size says.
LEMMA UnitsCount ==
  ASSUME NEW a \in Nat, NEW n \in Nat \ {0}
  PROVE  IsFiniteSet(Units(a, n)) /\ Cardinality(Units(a, n)) = n /\ a \in Units(a, n)
<1>1. a \in Int /\ a + n - 1 \in Int
  OBVIOUS
<1>2. /\ IsFiniteSet(a..a + n - 1)
      /\ Cardinality(a..a + n - 1) = IF a > a + n - 1 THEN 0 ELSE (a + n - 1) - a + 1
  BY <1>1, FS_Interval
<1> QED
  BY <1>2 DEF Units

\* The free units of a heap are finitely many, and so are those of any part of them.
LEMMA FreeFinite ==
  ASSUME NEW h, GoodHeap(h), NEW S, S \subseteq Covered(h.free) \cup Held(h.taken)
  PROVE  IsFiniteSet(S)
<1>1. 1 \in Int /\ HeapSize \in Int
  BY HeapAssumption
<1>2. IsFiniteSet(1..HeapSize)
  BY <1>1, FS_Interval
<1>3. S \subseteq 1..HeapSize
  BY DEF GoodHeap
<1> QED
  BY <1>2, <1>3, FS_Subset

\* Memory that is taken off the free list becomes a block the program holds.
LEMMA Taking ==
  ASSUME NEW h, GoodHeap(h), NEW free, FreeList(free),
         NEW a \in Nat \ {0}, NEW n \in Nat \ {0}, Units(a, n) \subseteq Covered(h.free),
         Covered(free) = Covered(h.free) \ Units(a, n)
  PROVE  GoodHeap([free |-> free,
                   taken |-> [b \in DOMAIN h.taken \cup {a} |-> IF b = a THEN n ELSE h.taken[b]],
                   remaining |-> h.remaining - n])
<1> DEFINE taken == [b \in DOMAIN h.taken \cup {a} |-> IF b = a THEN n ELSE h.taken[b]]
           m == [free |-> free, taken |-> taken, remaining |-> h.remaining - n]
<1>1. IsFiniteSet(Units(a, n)) /\ Cardinality(Units(a, n)) = n /\ a \in Units(a, n)
  BY UnitsCount
<1>2. a \notin DOMAIN h.taken
  <2>1. a \in Covered(h.free) /\ a \notin Held(h.taken)
    BY <1>1 DEF GoodHeap
  <2>2. SUFFICES ASSUME a \in DOMAIN h.taken PROVE FALSE
    OBVIOUS
  <2>3. h.taken[a] \in Nat \ {0}
    BY <2>2 DEF GoodHeap
  <2>4. a \in Units(a, h.taken[a])
    BY <2>3, UnitsCount
  <2> QED
    BY <2>1, <2>2, <2>4, HeldBy
<1>3. /\ DOMAIN taken = DOMAIN h.taken \cup {a} /\ taken[a] = n
      /\ \A b \in DOMAIN h.taken : taken[b] = h.taken[b]
  BY <1>2
<1> HIDE DEF taken
<1>4. \A u : u \in Held(taken) <=> u \in Held(h.taken) \/ u \in Units(a, n)
  BY <1>3, HeldBy
<1>5. Covered(free) \cup Held(taken) = 1..HeapSize /\ Covered(free) \cap Held(taken) = {}
  BY <1>4 DEF GoodHeap
<1>6. \A b, c \in DOMAIN taken : b # c => Units(b, taken[b]) \cap Units(c, taken[c]) = {}
  <2>1. ASSUME NEW b \in DOMAIN h.taken PROVE Units(b, h.taken[b]) \cap Units(a, n) = {}
    <3>1. Units(b, h.taken[b]) \subseteq Held(h.taken)
      BY HeldBy
    <3> QED
      BY <3>1 DEF GoodHeap
  <2> QED
    BY <1>3, <2>1 DEF GoodHeap
<1>7. h.remaining - n = Cardinality(Covered(free))
  <2>1. IsFiniteSet(Covered(h.free))
    BY FreeFinite
  <2>2. /\ Cardinality(Covered(h.free) \ Units(a, n)) =
             Cardinality(Covered(h.free)) - Cardinality(Covered(h.free) \cap Units(a, n))
    BY <1>1, <2>1, FS_Difference
  <2>3. Covered(h.free) \cap Units(a, n) = Units(a, n)
    OBVIOUS
  <2> QED
    BY <1>1, <2>2, <2>3 DEF GoodHeap
<1>8. \A b \in DOMAIN taken : b \in Nat \ {0} /\ taken[b] \in Nat \ {0}
  BY <1>3 DEF GoodHeap
<1>9. m.free = free /\ m.taken = taken /\ m.remaining = h.remaining - n
  OBVIOUS
<1> HIDE DEF m
<1>10. GoodHeap(m)
  BY <1>5, <1>6, <1>7, <1>8, <1>9 DEF GoodHeap
<1> QED
  BY <1>10 DEF m, taken

\* multiRegionMalloc keeps the heap in order, and every block the program holds.
LEMMA MallocKeeps ==
  ASSUME NEW h, GoodHeap(h), NEW payload \in Nat
  PROVE  /\ GoodHeap(Malloc(h, payload).heap)
         /\ Malloc(h, payload).at = NULL => Malloc(h, payload).heap = h
         /\ Malloc(h, payload).at # NULL =>
              DOMAIN Malloc(h, payload).heap.taken = DOMAIN h.taken \cup {Malloc(h, payload).at}
<1> DEFINE size == payload + 1
           fit == {i \in DOMAIN h.free : h.free[i].size >= size}
           i == CHOOSE j \in fit : \A k \in fit : j <= k
           block == h.free[i]
           split == block.size - size > MinimumBlock
           got == IF split THEN size ELSE block.size
           others == Removed(h.free, i)
           rest == [addr |-> block.addr + size, size |-> block.size - size]
           free == IF split THEN Insert(others, rest) ELSE others
           m == Malloc(h, payload)
<1>1. CASE payload = 0 \/ size > h.remaining \/ fit = {}
  <2>1. m = [heap |-> h, at |-> NULL]
    BY <1>1 DEF Malloc
  <2> QED
    BY <2>1
<1>2. CASE ~(payload = 0 \/ size > h.remaining \/ fit = {})
  <2>1. m = [at |-> block.addr,
             heap |-> [free |-> free,
                       taken |-> [a \in DOMAIN h.taken \cup {block.addr} |->
                                    IF a = block.addr THEN got ELSE h.taken[a]],
                       remaining |-> h.remaining - got]]
    BY <1>2 DEF Malloc
  <2>2. h.free \in Seq(Blocks) /\ FreeList(h.free)
    BY DEF GoodHeap, FreeList
  <2>3. i \in fit
    <3>1. fit \subseteq Nat /\ fit # {}
      BY <1>2, <2>2, LenProperties
    <3>2. \E j \in fit : \A k \in fit : j <= k
      BY <3>1, LeastNat
    <3> HIDE DEF fit
    <3> QED
      BY <3>2
  <2>4. i \in DOMAIN h.free /\ block.size >= size
    BY <2>3
  <2> HIDE DEF i
  <2>5. block \in Blocks /\ block.addr \in Nat \ {0} /\ block.size \in Nat \ {0}
    <3>1. block \in Blocks
      BY <2>2, <2>4, LenProperties, ElementOfSeq
    <3> QED
      BY <3>1 DEF Blocks
  <2>6. FreeList(others) /\ Covered(others) = Covered(h.free) \ Units(block.addr, block.size)
    BY <2>2, <2>4, RemovedKeeps
  <2>7. Units(block.addr, block.size) \subseteq Covered(h.free)
    BY <2>4, CoveredBy
  <2> HIDE DEF others, block
  <2>8. size \in Nat \ {0} /\ MinimumBlock = 2
    BY DEF MinimumBlock
  <2>9. /\ got \in Nat \ {0} /\ Units(block.addr, got) \subseteq Covered(h.free)
        /\ FreeList(free) /\ Covered(free) = Covered(h.free) \ Units(block.addr, got)
    <3>1. CASE ~split
      BY <2>5, <2>6, <2>7, <3>1
    <3>2. CASE split
      <4>1. got = size /\ free = Insert(others, rest)
        BY <3>2
      <4>2. /\ rest.addr = block.addr + size /\ rest.size = block.size - size
            /\ rest.addr \in Nat \ {0} /\ rest.size \in Nat \ {0} /\ rest \in Blocks
        BY <2>4, <2>5, <2>8, <3>2 DEF Blocks
      <4> HIDE DEF rest
      <4>3. ASSUME NEW u
            PROVE  /\ u \in Units(block.addr, block.size) <=>
                        u \in Units(block.addr, size) \/ u \in Units(rest.addr, rest.size)
                   /\ ~(u \in Units(block.addr, size) /\ u \in Units(rest.addr, rest.size))
        <5>1. u \in Units(block.addr, block.size) <=>
                u \in Int /\ block.addr <= u /\ u < block.addr + block.size
          BY <2>5, UnitsOf
        <5>2. u \in Units(block.addr, size) <=>
                u \in Int /\ block.addr <= u /\ u < block.addr + size
          BY <2>5, <2>8, UnitsOf
        <5>3. u \in Units(rest.addr, rest.size) <=>
                u \in Int /\ rest.addr <= u /\ u < rest.addr + rest.size
          BY <4>2, UnitsOf
        <5> QED
          BY <2>4, <2>5, <2>8, <4>2, <5>1, <5>2, <5>3
      <4>4. /\ FreeList(Insert(others, rest))
            /\ Covered(Insert(others, rest)) = Covered(others) \cup Units(rest.addr, rest.size)
        <5>1. \A u \in Units(rest.addr, rest.size) : u \notin Covered(others)
          BY <2>6, <4>3
        <5> QED
          BY <2>6, <4>2, <5>1, InsertKeeps
      <4>5. Covered(Insert(others, rest)) = Covered(h.free) \ Units(block.addr, size)
        <5> HIDE DEF size
        <5> QED
          BY <2>6, <2>7, <4>3, <4>4
      <4>6. Units(block.addr, size) \subseteq Covered(h.free)
        BY <2>7, <4>3
      <4> QED
        BY <2>8, <4>1, <4>4, <4>5, <4>6
    <3> QED
      BY <3>1, <3>2
  <2> HIDE DEF got, free
  <2>10. GoodHeap(m.heap)
    BY <2>1, <2>5, <2>9, Taking
  <2>11. m.at = block.addr /\ DOMAIN m.heap.taken = DOMAIN h.taken \cup {block.addr}
    BY <2>1
  <2> QED
    BY <2>5, <2>10, <2>11
<1> QED
  BY <1>1, <1>2

\* multiRegionFree keeps the heap in order, and all other blocks the program holds.
LEMMA FreeKeeps ==
  ASSUME NEW h, GoodHeap(h), NEW addr \in DOMAIN h.taken
  PROVE  GoodHeap(Free(h, addr)) /\ DOMAIN Free(h, addr).taken = DOMAIN h.taken \ {addr}
<1> DEFINE n == h.taken[addr]
           block == [addr |-> addr, size |-> n]
           free == Insert(h.free, block)
           taken == [a \in DOMAIN h.taken \ {addr} |-> h.taken[a]]
           m == Free(h, addr)
<1>1. m = [free |-> free, taken |-> taken, remaining |-> h.remaining + n]
  BY DEF Free
<1>2. addr \in Nat \ {0} /\ n \in Nat \ {0} /\ block \in Blocks
  BY DEF GoodHeap, Blocks
<1>3. Units(addr, n) \subseteq Held(h.taken) /\ Units(addr, n) \cap Covered(h.free) = {}
  <2>1. Units(addr, n) \subseteq Held(h.taken)
    BY HeldBy
  <2> QED
    BY <2>1 DEF GoodHeap
<1>4. FreeList(free) /\ Covered(free) = Covered(h.free) \cup Units(addr, n)
  <2>1. /\ FreeList(h.free) /\ block.addr = addr /\ block.size = n
        /\ \A u \in Units(block.addr, block.size) : u \notin Covered(h.free)
    BY <1>3 DEF GoodHeap
  <2> HIDE DEF block
  <2> QED
    BY <1>2, <2>1, InsertKeeps
<1>5. /\ DOMAIN taken = DOMAIN h.taken \ {addr}
      /\ \A a \in DOMAIN taken : taken[a] = h.taken[a]
  OBVIOUS
<1> HIDE DEF free, taken, n
<1>6. ASSUME NEW u
      PROVE  u \in Held(taken) <=> u \in Held(h.taken) /\ u \notin Units(addr, n)
  <2>1. \A a \in DOMAIN taken : Units(a, h.taken[a]) \cap Units(addr, h.taken[addr]) = {}
    BY <1>5 DEF GoodHeap
  <2>2. u \in Held(taken) <=> \E a \in DOMAIN taken : u \in Units(a, taken[a])
    BY HeldBy
  <2>3. u \in Held(h.taken) <=> \E a \in DOMAIN h.taken : u \in Units(a, h.taken[a])
    BY HeldBy
  <2> QED
    BY <1>5, <2>1, <2>2, <2>3 DEF n
<1>7. Covered(free) \cup Held(taken) = 1..HeapSize /\ Covered(free) \cap Held(taken) = {}
  BY <1>3, <1>4, <1>6 DEF GoodHeap
<1>8. h.remaining + n = Cardinality(Covered(free))
  <2>1. IsFiniteSet(Covered(h.free))
    BY FreeFinite
  <2>2. IsFiniteSet(Units(addr, n)) /\ Cardinality(Units(addr, n)) = n
    BY <1>2, UnitsCount
  <2>3. Cardinality(Covered(h.free) \cup Units(addr, n)) =
          Cardinality(Covered(h.free)) + Cardinality(Units(addr, n)) -
          Cardinality(Covered(h.free) \cap Units(addr, n))
    BY <2>1, <2>2, FS_Union
  <2>4. Covered(h.free) \cap Units(addr, n) = {} /\ Cardinality({}) = 0
    BY <1>3, FS_EmptySet
  <2>5. Cardinality(Covered(h.free)) \in Nat
    BY <2>1, FS_CardinalityType
  <2>6. Cardinality(Covered(h.free) \cap Units(addr, n)) = 0
    BY <2>4
  <2>7. Cardinality(Covered(h.free) \cup Units(addr, n)) = Cardinality(Covered(h.free)) + n
    BY <1>2, <2>2, <2>3, <2>5, <2>6
  <2>8. h.remaining = Cardinality(Covered(h.free))
    BY DEF GoodHeap
  <2> QED
    BY <1>4, <2>7, <2>8
<1>9. /\ \A a \in DOMAIN taken : a \in Nat \ {0} /\ taken[a] \in Nat \ {0}
      /\ \A a, b \in DOMAIN taken : a # b => Units(a, taken[a]) \cap Units(b, taken[b]) = {}
  BY <1>5 DEF GoodHeap
<1>10. m.free = free /\ m.taken = taken /\ m.remaining = h.remaining + n
  BY <1>1
<1> HIDE DEF m
<1>11. GoodHeap(m)
  BY <1>4, <1>7, <1>8, <1>9, <1>10 DEF GoodHeap
<1> QED
  BY <1>5, <1>10, <1>11 DEF m

\* The heap is in order, and the program holds the data of every buffer.
HeapInv == GoodHeap(heap) /\ data \subseteq DOMAIN heap.taken

\* All of the region is one free block at first.
LEMMA HeapInitially == Init => HeapInv
<1> SUFFICES ASSUME Init PROVE HeapInv
  OBVIOUS
<1> DEFINE first == [addr |-> 1, size |-> HeapSize]
           list == <<first>>
<1>1. heap.free = list /\ DOMAIN heap.taken = {} /\ heap.remaining = HeapSize /\ data = {}
  BY DEF Init, HeapInit
<1>2. first \in Blocks /\ first.addr = 1 /\ first.size = HeapSize
  BY HeapAssumption DEF Blocks
<1> HIDE DEF first
<1>3. list \in Seq(Blocks) /\ DOMAIN list = {1} /\ list[1] = first
  BY <1>2
<1> HIDE DEF list
<1>4. FreeList(list)
  BY <1>3 DEF FreeList, Apart
<1>5. Covered(list) = Units(1, HeapSize)
  BY <1>2, <1>3 DEF Covered
<1>6. Units(1, HeapSize) = 1..HeapSize /\ Cardinality(Units(1, HeapSize)) = HeapSize
  BY HeapAssumption, UnitsCount DEF Units
<1>7. Held(heap.taken) = {}
  BY <1>1 DEF Held
<1>8. GoodHeap(heap)
  BY <1>1, <1>4, <1>5, <1>6, <1>7 DEF GoodHeap
<1> QED
  BY <1>1, <1>8 DEF HeapInv

\* A page takes its descriptor and its memory; data of buffers stay where they are.
LEMMA AddPageHeap ==
  ASSUME HeapInv, NEW o \in Owners, AddPage(o)
  PROVE  GoodHeap(heap') /\ DOMAIN heap.taken \subseteq DOMAIN heap'.taken
<1>1. HeaderSize \in Nat /\ PageSize \in Nat
  BY PoolAssumption
<1>2. GoodHeap(Descriptor.heap) /\ DOMAIN heap.taken \subseteq DOMAIN Descriptor.heap.taken
  <2>1. CASE pages = <<>>
    <3>1. Descriptor.heap = heap
      BY <2>1 DEF Descriptor
    <3> QED
      BY <3>1 DEF HeapInv
  <2>2. CASE pages # <<>>
    <3>1. Descriptor = Malloc(heap, HeaderSize)
      BY <2>2 DEF Descriptor
    <3> QED
      BY <1>1, <3>1, MallocKeeps DEF HeapInv
  <2> QED
    BY <2>1, <2>2
<1> DEFINE given == Descriptor.heap
<1>3. heap' = Malloc(given, PageSize).heap
  BY DEF AddPage
<1> HIDE DEF given
<1>4. GoodHeap(given) /\ DOMAIN heap.taken \subseteq DOMAIN given.taken
  BY <1>2 DEF given
<1>5. GoodHeap(Malloc(given, PageSize).heap) /\ DOMAIN given.taken \subseteq DOMAIN Malloc(given, PageSize).heap.taken
  BY <1>1, <1>4, MallocKeeps
<1> QED
  BY <1>3, <1>4, <1>5

\* Every step of the program keeps the heap in order.
LEMMA HeapStep == HeapInv /\ [Next]_vars => HeapInv'
<1> SUFFICES ASSUME HeapInv, [Next]_vars PROVE HeapInv'
  OBVIOUS
<1>1. GoodHeap(heap) /\ data \subseteq DOMAIN heap.taken /\ DataSizes \subseteq Nat
  BY PoolAssumption DEF HeapInv
<1>2. ASSUME heap' = heap, data' = data PROVE HeapInv'
  BY <1>1, <1>2 DEF HeapInv
<1>3. ASSUME NEW o \in Owners, Allocate(o) PROVE HeapInv'
  <2>1. data' = data
    BY <1>3 DEF Allocate
  <2>2. CASE FindCell(o)
    BY <1>2, <2>1, <2>2 DEF FindCell
  <2>3. CASE AddPage(o)
    BY <1>1, <2>1, <2>3, AddPageHeap DEF HeapInv
  <2>4. CASE ReadNull
    BY <1>2, <2>1, <2>4 DEF ReadNull
  <2> QED
    BY <1>3, <2>2, <2>3, <2>4 DEF Allocate
<1>4. ASSUME NEW o \in Owners, Store(o) PROVE HeapInv'
  BY <1>2, <1>4 DEF Store
<1>5. ASSUME NEW o \in Owners, Finish(o) PROVE HeapInv'
  BY <1>2, <1>5 DEF Finish
<1>6. ASSUME TakeData PROVE HeapInv'
  <2>1. PICK size \in DataSizes :
          /\ Malloc(heap, size).at # NULL /\ heap' = Malloc(heap, size).heap
          /\ data' = data \cup {Malloc(heap, size).at}
    BY <1>6 DEF TakeData
  <2>2. size \in Nat
    BY <1>1, <2>1
  <2>3. /\ GoodHeap(Malloc(heap, size).heap)
        /\ DOMAIN Malloc(heap, size).heap.taken = DOMAIN heap.taken \cup {Malloc(heap, size).at}
    BY <1>1, <2>1, <2>2, MallocKeeps
  <2> QED
    BY <1>1, <2>1, <2>3 DEF HeapInv
<1>7. ASSUME FreeData PROVE HeapInv'
  <2>1. PICK a \in data : heap' = Free(heap, a) /\ data' = data \ {a}
    BY <1>7 DEF FreeData
  <2>2. GoodHeap(Free(heap, a)) /\ DOMAIN Free(heap, a).taken = DOMAIN heap.taken \ {a}
    BY <1>1, <2>1, FreeKeeps
  <2> QED
    BY <1>1, <2>1, <2>2 DEF HeapInv
<1>8. ASSUME GrowData PROVE HeapInv'
  <2>1. PICK a \in data, size \in DataSizes :
          LET new == Realloc(heap, a, size) IN
          /\ heap' = new.heap
          /\ data' = IF new.faults THEN data \cup {new.at} ELSE data \ {a}
    BY <1>8 DEF GrowData
  <2>2. size \in Nat /\ a \in DOMAIN heap.taken
    BY <1>1, <2>1
  <2>3. CASE Malloc(heap, size).at = NULL
    <3>1. Realloc(heap, a, size) = [heap |-> Free(heap, a), at |-> NULL, faults |-> FALSE]
      BY <2>3 DEF Realloc
    <3>2. heap' = Free(heap, a) /\ data' = data \ {a}
      BY <2>1, <3>1
    <3>3. GoodHeap(Free(heap, a)) /\ DOMAIN Free(heap, a).taken = DOMAIN heap.taken \ {a}
      BY <1>1, <2>2, FreeKeeps
    <3> QED
      BY <1>1, <3>2, <3>3 DEF HeapInv
  <2>4. CASE Malloc(heap, size).at # NULL
    <3>1. Realloc(heap, a, size) =
            [heap |-> Malloc(heap, size).heap, at |-> Malloc(heap, size).at, faults |-> TRUE]
      BY <2>4 DEF Realloc
    <3>2. heap' = Malloc(heap, size).heap /\ data' = data \cup {Malloc(heap, size).at}
      BY <2>1, <3>1
    <3>3. /\ GoodHeap(Malloc(heap, size).heap)
          /\ DOMAIN Malloc(heap, size).heap.taken = DOMAIN heap.taken \cup {Malloc(heap, size).at}
      BY <1>1, <2>2, <2>4, MallocKeeps
    <3> QED
      BY <1>1, <3>2, <3>3 DEF HeapInv
  <2> QED
    BY <2>3, <2>4
<1>9. ASSUME UNCHANGED vars PROVE HeapInv'
  BY <1>2, <1>9 DEF vars
<1> QED
  BY <1>3, <1>4, <1>5, <1>6, <1>7, <1>8, <1>9 DEF Next

\* In every state each unit of the region is in exactly one block, free or held by the
\* program, the free blocks are in order and merged, and xFreeBytesRemaining counts what is
\* left: no malloc, free or realloc of the pool or of a buffer loses memory or gives it twice.
THEOREM HeapStaysSound == Spec => []HeapSound
<1>1. HeapInv => HeapSound
  <2> SUFFICES ASSUME HeapInv PROVE HeapSound
    OBVIOUS
  <2>1. GoodHeap(heap) /\ heap.free \in Seq(Blocks) /\ Apart(heap.free)
    BY DEF HeapInv, GoodHeap, FreeList
  <2>2. FreeUnits = Covered(heap.free) /\ TakenUnits = Held(heap.taken)
    BY DEF FreeUnits, TakenUnits, Covered, Held
  <2>3. \A i \in 1..Len(heap.free) - 1 :
          heap.free[i].addr + heap.free[i].size < heap.free[i + 1].addr
    <3>1. Len(heap.free) \in Nat /\ DOMAIN heap.free = 1..Len(heap.free)
      BY <2>1, LenProperties
    <3>2. \A i \in 1..Len(heap.free) - 1 :
            i \in DOMAIN heap.free /\ i + 1 \in DOMAIN heap.free /\ i < i + 1
      BY <3>1
    <3> QED
      BY <2>1, <3>2 DEF Apart
  <2> QED
    BY <2>1, <2>2, <2>3 DEF GoodHeap, HeapSound
<1> QED
  BY <1>1, HeapInitially, HeapStep, PTL DEF Spec
=============================================================================
