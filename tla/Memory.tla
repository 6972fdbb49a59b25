------------------------------- MODULE Memory -------------------------------
(***************************************************************************)
(* User memory: kernel/vm.c, kernel/kalloc.c, growproc() of kernel/proc.c. *)
(* The free list of kalloc() is the number of free pages. The memory m of  *)
(* a process is                                                            *)
(*   sz     p->sz, in units; PGSIZE units make a page                      *)
(*   guard  the page below the stack, mapped without PTE_U, or -1          *)
(*   pt     page-table pages below the root that serve user addresses      *)
(* Every page below PGROUNDUP(sz) is mapped, which is what uvmunmap() and  *)
(* freewalk() insist on; what the pages hold is left out.                  *)
(***************************************************************************)
EXTENDS Integers, Sequences, FiniteSets, FiniteSetsExt, SequencesExt

CONSTANTS PGSIZE,   \* units of a page
          PTSPAN,   \* pages one last-level table maps
          MAXVA,    \* one beyond the highest virtual address
          WORD,     \* sizes are unsigned integers modulo WORD
          IMAGE     \* pages of text and data of every program

ASSUME MemoryAssumption ==
  /\ {PGSIZE, PTSPAN, MAXVA, IMAGE} \subseteq Nat \ {0}
  /\ WORD \in Nat /\ WORD > MAXVA

PGROUNDUP(n) == ((n + PGSIZE - 1) \div PGSIZE) * PGSIZE
Npages(m)    == PGROUNDUP(m.sz) \div PGSIZE

\* The trapframe, and the root with the two tables that map it and the trampoline.
TRAPFRAMEPAGE == 1
ROOTPAGES     == 3
proc_pagetable == [sz |-> 0, guard |-> -1, pt |-> 0]

\* Pages the allocator gets back from proc_freepagetable().
Held(m) == ROOTPAGES + m.pt + Npages(m)

\* Tables below the root once page pg is mapped: the middle one and the last-level ones.
walk(pg) == 2 + pg \div PTSPAN

----------------------------------------------------------------------------
(* Growing and shrinking: s is [free, m, ok].                              *)

\* One page of uvmalloc(): the page, then the tables mappages() has to add.
\* Tables added before memory runs out stay with the page table.
AddPage(s, pg) ==
  LET miss == Max({0, walk(pg) - s.m.pt})
  IN  IF ~s.ok \/ s.free = 0 THEN [s EXCEPT !.ok = FALSE]
      ELSE IF s.free > miss
        THEN [s EXCEPT !.free = @ - 1 - miss,
                       !.m = [s.m EXCEPT !.pt = @ + miss, !.sz = (pg + 1) * PGSIZE]]
      ELSE [s EXCEPT !.free = 1, !.m.pt = @ + s.free - 1, !.ok = FALSE]

\* Mutant of uvmdealloc: PGROUNDDOWN of the new size.
uvmdeallocDown(free, m, new) ==
  IF new >= m.sz THEN [free |-> free, m |-> m, ok |-> TRUE]
  ELSE [free |-> free + Npages(m) - new \div PGSIZE, m |-> [m EXCEPT !.sz = new], ok |-> TRUE]

uvmdealloc(free, m, new) ==
  IF new >= m.sz THEN [free |-> free, m |-> m, ok |-> TRUE]
  ELSE [free |-> free + Npages(m) - PGROUNDUP(new) \div PGSIZE,
        m |-> [m EXCEPT !.sz = new], ok |-> TRUE]

uvmalloc(free, m, new) ==
  LET first == Npages(m)
      grown[n \in Nat] == IF n = 0 THEN [free |-> free, m |-> m, ok |-> TRUE]
                          ELSE AddPage(grown[n - 1], first + n - 1)
      got   == grown[PGROUNDUP(new) \div PGSIZE - first]
      back  == uvmdealloc(got.free, got.m, PGROUNDUP(m.sz))
  IN  IF new < m.sz THEN [free |-> free, m |-> m, ok |-> TRUE]
      ELSE IF got.ok THEN [got EXCEPT !.m.sz = new]
      ELSE [free |-> back.free, m |-> [back.m EXCEPT !.sz = m.sz], ok |-> FALSE]

\* The arithmetic is that of an unsigned word: a size beyond it, or below
\* zero, comes out on the other side, and the two functions then do nothing.
growproc(free, m, n) ==
  LET new == (m.sz + n) % WORD
  IN  CASE n > 0 -> uvmalloc(free, m, new)
        [] n < 0 -> uvmdealloc(free, m, new)
        [] OTHER -> [free |-> free, m |-> m, ok |-> TRUE]

----------------------------------------------------------------------------
(* A child's memory and a new image. A failure gives back what it took.    *)

uvmcopy(free, m) ==
  LET copy == [m EXCEPT !.pt = IF m.sz = 0 THEN 0 ELSE walk(Npages(m) - 1)]
      cost == TRAPFRAMEPAGE + Held(copy)
  IN  IF free < cost THEN [free |-> free, m |-> m, ok |-> FALSE]
                     ELSE [free |-> free - cost, m |-> copy, ok |-> TRUE]

\* exec() has the old and the new image at once: text and data, the guard
\* page, the stack. The old one goes when nothing can fail any more.
TEXT   == (IMAGE + 2) * PGSIZE                    \* the size exec() gives a program
Loaded == [sz |-> TEXT, guard |-> IMAGE, pt |-> walk(IMAGE + 1)]

execimage(free, m) ==
  IF free < Held(Loaded) THEN [free |-> free, m |-> m, ok |-> FALSE]
  ELSE [free |-> free - Held(Loaded) + Held(m), m |-> Loaded, ok |-> TRUE]

----------------------------------------------------------------------------
(* The kernel's access to user memory.                                     *)

\* Mutant of walkaddr: PTE_U is not looked at.
walkaddrNoU(m, va) == va < MAXVA /\ va \div PGSIZE < Npages(m)

walkaddr(m, va) == va < MAXVA /\ va \div PGSIZE < Npages(m) /\ va \div PGSIZE # m.guard

\* copyin() and copyout() of len units, none of them when len = 0.
copyin(m, va, len)  == \A a \in va .. va + len - 1 : walkaddr(m, a)
copyout(m, va, len) == copyin(m, va, len)

\* A string of len units, its nul among them, is copied if the nul comes in time.
copyinstr(m, va, len, max) == len <= max /\ copyin(m, va, len)
=============================================================================
