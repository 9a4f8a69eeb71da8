------------------------------- MODULE Memory -------------------------------
(***************************************************************************)
(* src/core/qd_memory.c: qd_malloc and qd_free over one slab cache of the  *)
(* size classes and the heap, with initialisation and shutdown of the      *)
(* subsystem, and the slab calls on that cache.  An object of a slab is    *)
(* <<slab, i>>, a block of the heap <<"heap", i>>.  Work under cache->lock *)
(* is one step; what a thread read before it took the lock is in `seen`.   *)
(***************************************************************************)
EXTENDS Integers, Sequences, FiniteSets, SequencesExt

CONSTANTS
  Slabs,      \* the slabs the system has pages for
  Total,      \* objs_per_slab
  HeapBlocks, \* number of heap blocks
  MemThreads

\* slab_size is at least four objects, whatever the size of the object.
ASSUME TotalAssumption == Total \in Nat /\ Total >= 2

VARIABLES
  memReady,     \* g_memory.initialized
  cache,        \* g_memory.caches[i]: "live", "freed" (dangling) or "null"
  full, partial, empty,   \* the three lists of slabs, head first
  freelist, inuse,        \* fields of each slab
  held,         \* objects the application has
  seen,         \* per thread: the cache pointer its qd_malloc has read
  mpc,          \* per thread: idle, malloc, shutdown
  memBad,       \* history: a freed cache or slab was used
  early         \* history: shutdown while objects or calls were outstanding

memVars == <<memReady, cache, full, partial, empty, freelist, inuse,
             held, seen, mpc, memBad, early>>
slabVars == <<full, partial, empty, freelist, inuse>>

Objects(s) == {<<s, i>> : i \in 1 .. Total}
Mapped     == Range(full) \cup Range(partial) \cup Range(empty)
Heap       == {<<"heap", i>> : i \in 1 .. HeapBlocks}
Without(list, s) == SelectSeq(list, LAMBDA x : x # s)

MemInit ==
  /\ memReady = FALSE /\ cache = "null"
  /\ full = <<>> /\ partial = <<>> /\ empty = <<>>
  /\ freelist = [s \in Slabs |-> <<>>] /\ inuse = [s \in Slabs |-> 0]
  /\ held = {}
  /\ seen = [t \in MemThreads |-> "null"]
  /\ mpc = [t \in MemThreads |-> "idle"]
  /\ memBad = FALSE /\ early = FALSE

-----------------------------------------------------------------------------
(* Slabs *)

\* slab_create: the freelist is built by pushing, so the last object is first.
SlabCreate(s) == Reverse([i \in 1 .. Total |-> <<s, i>>])

\* The part of qd_slab_alloc_internal after a slab has been found or created.
SlabAlloc(s) ==
  LET free == IF s \in Mapped THEN freelist[s] ELSE SlabCreate(s)
      n    == IF s \in Mapped THEN inuse[s] + 1 ELSE 1
  IN
  /\ freelist' = [freelist EXCEPT ![s] = Tail(free)]
  /\ inuse' = [inuse EXCEPT ![s] = n]
  /\ held' = held \cup {Head(free)}
  /\ IF n = 1 /\ (partial = <<>> \/ Head(partial) # s)
     THEN /\ empty' = Without(empty, s) /\ partial' = <<s>> \o partial
          /\ UNCHANGED full
     ELSE IF n = Total
     THEN /\ partial' = Without(partial, s) /\ full' = <<s>> \o full
          /\ UNCHANGED empty
     ELSE UNCHANGED <<full, partial, empty>>

\* The slab that is taken: the head of partial, of empty, or a new one.
Choice == IF partial # <<>> THEN {Head(partial)}
          ELSE IF empty # <<>> THEN {Head(empty)} ELSE Slabs \ Mapped

\* Defect: the first object given back to a full slab is not linked.
SlabFreeLost(s, obj) ==
  LET n == inuse[s] - 1 IN
  /\ freelist' = [freelist EXCEPT ![s] = IF n = Total - 1 THEN <<>> ELSE <<obj>> \o @]
  /\ inuse' = [inuse EXCEPT ![s] = n]
  /\ IF n = 0
     THEN /\ partial' = Without(partial, s) /\ empty' = <<s>> \o empty
          /\ UNCHANGED full
     ELSE IF n = Total - 1
     THEN /\ full' = Without(full, s) /\ partial' = <<s>> \o partial
          /\ UNCHANGED empty
     ELSE UNCHANGED <<full, partial, empty>>

\* slab_free_locked
SlabFreeLocked(s, obj) ==
  LET n == inuse[s] - 1 IN
  /\ freelist' = [freelist EXCEPT ![s] = <<obj>> \o @]
  /\ inuse' = [inuse EXCEPT ![s] = n]
  /\ IF n = 0
     THEN /\ partial' = Without(partial, s) /\ empty' = <<s>> \o empty
          /\ UNCHANGED full
     ELSE IF n = Total - 1
     THEN /\ full' = Without(full, s) /\ partial' = <<s>> \o partial
          /\ UNCHANGED empty
     ELSE UNCHANGED <<full, partial, empty>>

\* qd_slab_cache_shrink: the empty slabs are unmapped.
Shrink ==
  /\ cache = "live" /\ empty # <<>>
  /\ empty' = <<>>
  /\ freelist' = [s \in Slabs |-> IF s \in Range(empty) THEN <<>> ELSE freelist[s]]
  /\ UNCHANGED <<memReady, cache, full, partial, inuse, held,
                 seen, mpc, memBad, early>>

-----------------------------------------------------------------------------
(* The subsystem *)

Idle(t) == mpc[t] = "idle"

\* qd_memory_init, explicitly or by pthread_once, under g_memory.lock.
MemoryInit(t) ==
  /\ ~early                                  \* bound: not after an early shutdown
  /\ Idle(t) /\ ~memReady /\ \A u \in MemThreads : mpc[u] # "shutdown"
  /\ memReady' = TRUE /\ cache' = "live"
  /\ UNCHANGED <<full, partial, empty, freelist, inuse, held, seen, mpc, memBad, early>>

\* qd_memory_shutdown: every slab is unmapped and the cache freed while
\* caches[i] still points to it; then the pointer and the flag are reset.
ShutdownDestroy(t) ==
  /\ Idle(t) /\ memReady /\ cache = "live"
  /\ cache' = "freed" /\ mpc' = [mpc EXCEPT ![t] = "shutdown"]
  /\ full' = <<>> /\ partial' = <<>> /\ empty' = <<>>
  /\ freelist' = [s \in Slabs |-> <<>>] /\ inuse' = [s \in Slabs |-> 0]
  /\ early' = (early \/ held \ Heap # {} \/ \E u \in MemThreads : mpc[u] = "malloc")
  /\ UNCHANGED <<memReady, held, seen, memBad>>

MemShutdownDone(t) ==
  /\ mpc[t] = "shutdown" /\ mpc' = [mpc EXCEPT ![t] = "idle"]
  /\ cache' = "null" /\ memReady' = FALSE
  /\ UNCHANGED <<slabVars, held, seen, memBad, early>>

\* qd_malloc reads the flag and the pointer without a lock.
MallocRead(t) ==
  /\ Idle(t) /\ mpc' = [mpc EXCEPT ![t] = "malloc"]
  /\ seen' = [seen EXCEPT ![t] = IF memReady THEN cache ELSE "null"]
  /\ early' = (early \/ \E u \in MemThreads : mpc[u] = "shutdown")
  /\ UNCHANGED <<memReady, cache, slabVars, held, memBad>>

\* The slab allocator, or the heap when there is no cache or no page.
MallocTake(t) ==
  /\ mpc[t] = "malloc" /\ mpc' = [mpc EXCEPT ![t] = "idle"]
  /\ \/ /\ seen[t] # "null" /\ cache = "live"
        /\ \/ /\ \E s \in Choice : SlabAlloc(s)
              /\ UNCHANGED memBad
           \/ /\ Choice = {} /\ Heap \ held # {}
              /\ \E b \in Heap \ held : held' = held \cup {b}
              /\ UNCHANGED <<slabVars, memBad>>
     \/ /\ seen[t] # "null" /\ cache # "live"
        /\ memBad' = TRUE /\ UNCHANGED <<slabVars, held>>
     \/ /\ seen[t] = "null" /\ Heap \ held # {}
        /\ \E b \in Heap \ held : held' = held \cup {b}
        /\ UNCHANGED <<slabVars, memBad>>
  /\ UNCHANGED <<memReady, cache, seen, early>>

\* qd_free goes by the header of the object: its cache and its slab.
Free(t, obj) ==
  /\ Idle(t) /\ obj \in held /\ held' = held \ {obj}
  /\ \/ obj[1] = "heap" /\ UNCHANGED <<slabVars, memBad>>
     \/ /\ obj[1] # "heap" /\ obj[1] \in Mapped /\ cache = "live"
        /\ SlabFreeLocked(obj[1], obj) /\ UNCHANGED memBad
     \/ /\ obj[1] # "heap" /\ ~(obj[1] \in Mapped /\ cache = "live")
        /\ memBad' = TRUE /\ UNCHANGED slabVars
  /\ UNCHANGED <<memReady, cache, seen, mpc, early>>

\* slab_find_by_ptr: the slab whose range holds the address
SlabFind(obj) == {s \in Mapped : obj \in Objects(s)}

\* qd_slab_free looks for the slab; an address of no slab is ignored.
SlabFreeCall(t, obj) ==
  /\ Idle(t) /\ cache = "live"
  /\ \E s \in SlabFind(obj) : SlabFreeLocked(s, obj)
  /\ held' = held \ {obj}
  /\ UNCHANGED <<memReady, cache, seen, mpc, memBad, early>>

MemNext ==
  /\ ~memBad
  /\ \/ \E t \in MemThreads : \/ MemoryInit(t) \/ ShutdownDestroy(t) \/ MemShutdownDone(t)
                              \/ MallocRead(t) \/ MallocTake(t)
                              \/ \E obj \in held : Free(t, obj) \/ SlabFreeCall(t, obj)
     \/ Shrink

MemSpec == MemInit /\ [][MemNext]_memVars

-----------------------------------------------------------------------------

\* Every object of a mapped slab is held or on the freelist of its slab, and
\* not both: none is handed out twice, none is lost, none outlives its slab.
ObjectOnce ==
  (cache = "live" /\ ~early) =>
    \A s \in Mapped :
      /\ IsInjective(freelist[s])
      /\ Range(freelist[s]) \cap held = {}
      /\ Range(freelist[s]) \cup (held \cap Objects(s)) = Objects(s)

\* When shutdown waits for the last object and the last call, no call after it
\* meets the freed cache: qd_malloc then takes the heap, or a new cache.
NoFreedCache == ~early => ~memBad

\* A slab is on exactly the list its inuse counter says.
SlabLists ==
  /\ IsInjective(full \o partial \o empty)
  /\ \A s \in Slabs : /\ s \in Range(full) <=> (inuse[s] = Total)
                      /\ s \in Range(partial) <=> (inuse[s] \in 1 .. Total - 1)

-----------------------------------------------------------------------------
(* The arena, a chain of blocks of which the last is the current one, and  *)
(* the pool.  An allocation is a range of offsets in a block; sizes are    *)
(* small numbers of bytes.                                                 *)

CONSTANTS
  InitialSize, MinSize,   \* size of the first block, QD_ARENA_MIN_SIZE
  Sizes, Aligns,          \* what is asked for
  MaxBlocks,              \* blocks malloc can give
  PoolSize                \* objects of the pool

VARIABLES
  blocks,     \* the chain: records [size, offset, peak]
  ranges,     \* allocations since the last reset: [block, from, to]
  poolFree, poolCount, poolHeld   \* the pool: freelist, count, objects given out

arenaVars == <<blocks, ranges>>
poolVars  == <<poolFree, poolCount, poolHeld>>

AlignUp(n, a) == ((n + a - 1) \div a) * a

\* qd_arena_create and qd_mempool_create
ArenaInit ==
  /\ blocks = <<[size |-> InitialSize, offset |-> 0, peak |-> 0]>> /\ ranges = {}
  /\ poolFree = Reverse([i \in 1 .. PoolSize |-> i]) /\ poolCount = PoolSize
  /\ poolHeld = {}

\* arena_alloc_internal
ArenaAlloc(size, align) ==
  LET n    == Len(blocks)
      a    == blocks[n]
      from == AlignUp(a.offset, align)
      big  == IF blocks[1].size * 2 < size + align THEN size + align + MinSize
              ELSE blocks[1].size * 2
  IN
  \/ /\ from + size <= a.size
     /\ blocks' = [blocks EXCEPT ![n] =
                     [a EXCEPT !.offset = from + size,
                               !.peak = IF from + size > @ THEN from + size ELSE @]]
     /\ ranges' = ranges \cup {[block |-> n, from |-> from, to |-> from + size]}
  \/ /\ from + size > a.size /\ n < MaxBlocks
     /\ blocks' = Append(blocks, [size |-> big, offset |-> size, peak |-> size])
     /\ ranges' = ranges \cup {[block |-> n + 1, from |-> 0, to |-> size]}

\* qd_arena_reset: every block but the first is freed; its peak is kept.
ArenaReset ==
  /\ blocks' = <<[blocks[1] EXCEPT !.offset = 0]>> /\ ranges' = {}

PoolAlloc ==
  /\ poolFree # <<>>
  /\ poolFree' = Tail(poolFree) /\ poolCount' = poolCount - 1
  /\ poolHeld' = poolHeld \cup {Head(poolFree)}

PoolFree(obj) ==
  /\ poolFree' = <<obj>> \o poolFree /\ poolCount' = poolCount + 1
  /\ poolHeld' = poolHeld \ {obj}

ArenaNext == ArenaReset \/ \E s \in Sizes, a \in Aligns : ArenaAlloc(s, a)
PoolNext  == PoolAlloc \/ \E obj \in poolHeld : PoolFree(obj)

-----------------------------------------------------------------------------

\* Allocations made since the last reset do not overlap, and each lies inside
\* its block, also when it needed a block larger than twice the first.
ArenaDisjoint ==
  /\ \A r \in ranges : r.to <= blocks[r.block].offset
                         /\ blocks[r.block].offset <= blocks[r.block].size
  /\ \A r, q \in ranges : r # q => r.block # q.block \/ r.to <= q.from \/ q.to <= r.from

\* Every object of the pool is either held or on the freelist, once, and the
\* counter is the length of the list.
PoolExact ==
  /\ poolCount = Len(poolFree) /\ IsInjective(poolFree)
  /\ Range(poolFree) \cup poolHeld = 1 .. PoolSize
  /\ Range(poolFree) \cap poolHeld = {}

\* The allocators give out no byte twice, lose none, and keep their books.
HeapExact == ObjectOnce /\ SlabLists /\ NoFreedCache /\ ArenaDisjoint /\ PoolExact
=============================================================================
