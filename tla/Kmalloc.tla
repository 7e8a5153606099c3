------------------------------ MODULE Kmalloc ------------------------------
(***************************************************************************)
(* The kernel heap (vm/kmalloc.c) over dumbvm's page allocator.  Blocks of *)
(* a page form a free list kept in the page itself; a page reference       *)
(* (pageref) describes the page and is on two lists.  Page references live *)
(* in pages of their own, one for each root.  kmalloc_spinlock is dropped  *)
(* around every alloc_kpages, so that an allocation is up to five steps    *)
(* between which other threads allocate and free.                          *)
(***************************************************************************)
EXTENDS Integers, Sequences, FiniteSets, SequencesExt

CONSTANTS Allocators,           \* threads that call kmalloc and kfree
          PAGE_SIZE, sizes,     \* sizes: block sizes of the block types, ascending
          NPAGEREFS_PER_PAGE, NUM_PAGEREFPAGES,
          lastpage,             \* the end of memory
          Requests,             \* sizes asked for
          MaxBlocks             \* blocks held at once, a bound

NSIZES == Len(sizes)
LARGEST_SUBPAGE_SIZE == sizes[NSIZES]
Refs   == 1 .. NPAGEREFS_PER_PAGE
Roots  == 1 .. NUM_PAGEREFPAGES
NoPage == 0                     \* page 0 is the kernel's own and never stolen

\* Fewer threads are inside kmalloc at once than a page has page references.
ASSUME KmallocAssumption ==
    /\ \A i \in 1 .. NSIZES : PAGE_SIZE % sizes[i] = 0
    /\ Cardinality(Allocators) <= NPAGEREFS_PER_PAGE

VARIABLES
    firstpage,  \* the next page ram_stealmem gives away
    root,       \* kheaproots: the page, and the set of references in use
    ref,        \* pageref -> its page, block type, free list and nfree
    sizebases, allbase,
    block,      \* what callers hold: address, and the size they may use
    km,         \* where each thread is in kmalloc
    kbad        \* an assertion of kmalloc.c failed

heapVars == <<firstpage, root, ref, sizebases, allbase, block, km, kbad>>

NoCall == [pc |-> "idle", blk |-> 0, page |-> NoPage, r |-> 0, i |-> 0, va |-> NoPage]

KmallocInit ==
    /\ firstpage = 1
    /\ root = [r \in Roots |-> [page |-> NoPage, inuse |-> {}]]
    /\ ref = <<>> /\ sizebases = [b \in 1 .. NSIZES |-> <<>>] /\ allbase = <<>>
    /\ block = {} /\ km = [t \in Allocators |-> NoCall] /\ kbad = FALSE

-----------------------------------------------------------------------------
\* Pages are only ever stolen: free_kpages does nothing.
alloc_kpages(npages) == IF firstpage + npages > lastpage THEN NoPage ELSE firstpage
ram_stealmem(npages) ==
    firstpage' = IF firstpage + npages > lastpage THEN firstpage ELSE firstpage + npages

blocktype(sz) == CHOOSE b \in 1 .. NSIZES :
                    sz <= sizes[b] /\ \A c \in 1 .. b - 1 : sz > sizes[c]
Blocks(b) == PAGE_SIZE \div sizes[b]

\* A page reference is known by the page it is in and its place there.
Pr(page, i) == <<page, i>>

\* Take the first block of pr's free list for thread t.  refs: ref, with pr.
doalloc(refs, pr, t) ==
    LET p == refs[pr]
    IN  /\ kbad' = (kbad \/ p.free = <<>> \/ p.nfree # Len(p.free))
        /\ ref' = [refs EXCEPT ![pr].free = Tail(@), ![pr].nfree = @ - 1]
        /\ block' = block \cup {[page |-> p.page, off |-> Head(p.free), len |-> sizes[p.blk]]}
        /\ km' = [km EXCEPT ![t] = NoCall]

\* A fresh page of blocks: the free list runs from its last block down.
NewPage(page, b) ==
    [page |-> page, blk |-> b, nfree |-> Blocks(b),
     free |-> [n \in 1 .. Blocks(b) |-> (Blocks(b) - n) * sizes[b]]]
SetUp(pr, t) ==
    LET b == km[t].blk
    IN  /\ sizebases' = [sizebases EXCEPT ![b] = <<pr>> \o @]
        /\ allbase' = <<pr>> \o allbase
        /\ doalloc([q \in DOMAIN ref \cup {pr} |->
                        IF q = pr THEN NewPage(km[t].page, b) ELSE ref[q]], pr, t)

\* kmalloc of half a page or more: whole pages.
kmalloc_pages(t, sz) ==
    /\ km[t].pc = "idle" /\ Cardinality(block) < MaxBlocks /\ sz >= LARGEST_SUBPAGE_SIZE
    /\ LET npages == (sz + PAGE_SIZE - 1) \div PAGE_SIZE
           page == alloc_kpages(npages)
       IN  /\ ram_stealmem(npages)
           /\ block' = IF page = NoPage THEN block
                       ELSE block \cup {[page |-> page, off |-> 0, len |-> npages * PAGE_SIZE]}
    /\ UNCHANGED <<root, ref, sizebases, allbase, km, kbad>>

\* subpage_kmalloc up to the point where the lock is dropped.
subpage_search(t, sz) ==
    /\ km[t].pc = "idle" /\ Cardinality(block) < MaxBlocks /\ sz < LARGEST_SUBPAGE_SIZE
    /\ LET b == blocktype(sz)
           room == SelectSeq(sizebases[b], LAMBDA pr : ref[pr].nfree > 0)
       IN  IF room # <<>> THEN doalloc(ref, Head(room), t)
           ELSE /\ km' = [km EXCEPT ![t] = [NoCall EXCEPT !.pc = "page", !.blk = b]]
                /\ UNCHANGED <<ref, block, kbad>>
    /\ UNCHANGED <<firstpage, root, sizebases, allbase>>

subpage_getpage(t) ==
    /\ km[t].pc = "page"
    /\ km' = [km EXCEPT ![t] = IF alloc_kpages(1) = NoPage THEN NoCall
                               ELSE [@ EXCEPT !.pc = "ref", !.page = alloc_kpages(1)]]
    /\ ram_stealmem(1)
    /\ UNCHANGED <<root, ref, sizebases, allbase, block, kbad>>

\* No page reference: the page is given back, which leaks it.
GiveUp(t) ==
    /\ km' = [km EXCEPT ![t] = NoCall]
    /\ UNCHANGED <<ref, sizebases, allbase, block, kbad>>

\* The first root with room, and its first reference not in use.  Without a
\* page for the root the lock is dropped again to get one.
allocpageref(t) ==
    /\ km[t].pc = "ref"
    /\ LET open == {r \in Roots : Cardinality(root[r].inuse) < NPAGEREFS_PER_PAGE}
           r == Min(open)
           i == Min(Refs \ root[r].inuse)
       IN  IF open = {} THEN GiveUp(t) /\ UNCHANGED root
           ELSE /\ root' = [root EXCEPT ![r].inuse = @ \cup {i}]
                /\ IF root[r].page # NoPage THEN SetUp(Pr(root[r].page, i), t)
                   ELSE /\ km' = [km EXCEPT ![t].pc = "refpage", ![t].r = r, ![t].i = i]
                        /\ UNCHANGED <<ref, sizebases, allbase, block, kbad>>
    /\ UNCHANGED firstpage

allocpagerefpage(t) ==
    /\ km[t].pc = "refpage"
    /\ km' = [km EXCEPT ![t].pc = "refgot", ![t].va = alloc_kpages(1)]
    /\ ram_stealmem(1)
    /\ UNCHANGED <<root, ref, sizebases, allbase, block, kbad>>

\* Bug for the checks: the root's page is replaced without a second look.
NoSecondLook(r, va) == va

\* The page the root has afterwards: somebody else may have allocated it.
PagerefPage(r, va) == IF root[r].page # NoPage \/ va = NoPage THEN root[r].page ELSE va

\* Back under the lock.  Without a page the reference stays marked in use; a
\* page not needed is given back with the lock dropped once more.
allocpagerefpage_locked(t) ==
    /\ km[t].pc = "refgot"
    /\ LET r == km[t].r
           page == PagerefPage(r, km[t].va)
       IN  /\ root' = [root EXCEPT ![r].page = page]
           /\ IF page = NoPage THEN GiveUp(t)
              ELSE IF km[t].va \notin {NoPage, page}
              THEN /\ km' = [km EXCEPT ![t].pc = "refback"]
                   /\ UNCHANGED <<ref, sizebases, allbase, block, kbad>>
              ELSE SetUp(Pr(page, km[t].i), t)
    /\ UNCHANGED firstpage

allocpageref_return(t) ==
    /\ km[t].pc = "refback"
    /\ SetUp(Pr(root[km[t].r].page, km[t].i), t)
    /\ UNCHANGED <<firstpage, root>>

-----------------------------------------------------------------------------
remove_lists(pr, b) ==
    /\ sizebases' = [sizebases EXCEPT ![b] = SelectSeq(@, LAMBDA q : q # pr)]
    /\ allbase' = SelectSeq(allbase, LAMBDA q : q # pr)

\* The roots are searched in order; one without a page must have none in use.
freepageref(pr) ==
    LET home == {r \in Roots : root[r].page # NoPage /\ root[r].page = pr[1]}
    IN  /\ root' = [r \in Roots |-> IF r \in home THEN [root[r] EXCEPT !.inuse = @ \ {pr[2]}]
                                     ELSE root[r]]
        /\ kbad' = (\/ kbad \/ home = {}
                    \/ \E r \in home : \/ pr[2] \notin root[r].inuse
                                       \/ \E q \in 1 .. r - 1 : root[q].page = NoPage /\ root[q].inuse # {})

\* kfree of a block somebody holds: one locked section.  On a page of ours it
\* is a subpage block; otherwise it is pages, which free_kpages leaks.
kfree(b) ==
    /\ b \in block
    /\ block' = block \ {b}
    /\ LET on == {n \in 1 .. Len(allbase) : ref[allbase[n]].page = b.page}
           pr == allbase[Min(on)]
           p  == ref[pr]
           fl == <<b.off>> \o p.free
       IN  IF on = {} THEN /\ kbad' = (kbad \/ b.off # 0)
                           /\ UNCHANGED <<root, ref, sizebases, allbase>>
           ELSE IF p.nfree + 1 = Blocks(p.blk)
           THEN /\ remove_lists(pr, p.blk)
                /\ freepageref(pr)
                /\ ref' = [q \in DOMAIN ref \ {pr} |-> ref[q]]
           ELSE /\ ref' = [ref EXCEPT ![pr].free = fl, ![pr].nfree = @ + 1]
                /\ kbad' = (\/ kbad \/ b.off % sizes[p.blk] # 0
                            \/ p.free # <<>> /\ Head(p.free) = b.off)
                /\ UNCHANGED <<root, sizebases, allbase>>
    /\ UNCHANGED <<firstpage, km>>

KmallocNext ==
    \/ \E t \in Allocators :
          \/ \E sz \in Requests : kmalloc_pages(t, sz) \/ subpage_search(t, sz)
          \/ subpage_getpage(t) \/ allocpageref(t) \/ allocpagerefpage(t)
          \/ allocpagerefpage_locked(t) \/ allocpageref_return(t)
    \/ \E b \in block : kfree(b)

-----------------------------------------------------------------------------
Bytes(page, off, len) == page * PAGE_SIZE + off .. page * PAGE_SIZE + off + len - 1

\* Every piece of memory with its one use: a page of references, a page on
\* its way into the heap, a free block, a block somebody holds.
Uses ==
    {<<"refs", Bytes(root[r].page, 0, PAGE_SIZE)>> : r \in {r \in Roots : root[r].page # NoPage}}
    \cup {<<"new", Bytes(km[t].page, 0, PAGE_SIZE)>> : t \in {t \in Allocators : km[t].page # NoPage}}
    \cup {<<"va", Bytes(km[t].va, 0, PAGE_SIZE)>> :
              t \in {t \in Allocators : km[t].pc = "refgot" /\ km[t].va # NoPage}}
    \cup UNION {{<<"free", Bytes(ref[pr].page, ref[pr].free[n], sizes[ref[pr].blk])>> :
                   n \in 1 .. Len(ref[pr].free)} : pr \in DOMAIN ref}
    \cup {<<"held", Bytes(b.page, b.off, b.len)>> : b \in block}

\* The references a root has handed out, to pages or to threads under way.
Out(r) == {pr[2] : pr \in {pr \in DOMAIN ref : pr[1] = root[r].page}}
Pending(r) == {t \in Allocators : km[t].r = r}

(***************************************************************************)
(* The heap is sound after any interleaving of allocations and frees, with *)
(* memory running out at any alloc_kpages: no two uses of memory overlap   *)
(* (a block is never given out twice, nor a page of blocks as pages), a    *)
(* heap page is exactly its free blocks and the held ones, both lists have *)
(* every page reference once, a reference handed out is marked in use and  *)
(* handed out once, and no assertion of kmalloc.c fails.                   *)
(***************************************************************************)
HeapSound ==
    /\ ~kbad
    /\ \A u, v \in Uses : u # v => u[2] \cap v[2] = {}
    /\ \A u \in Uses : u[2] \subseteq PAGE_SIZE .. firstpage * PAGE_SIZE - 1
    /\ \A pr \in DOMAIN ref :
         LET p == ref[pr]
         IN  /\ p.nfree = Len(p.free) /\ IsInjective(p.free)
             /\ p.nfree + Cardinality({b \in block : b.page = p.page}) = Blocks(p.blk)
    /\ ToSet(allbase) = DOMAIN ref /\ IsInjective(allbase)
    /\ \A b \in 1 .. NSIZES :
         /\ ToSet(sizebases[b]) = {pr \in DOMAIN ref : ref[pr].blk = b}
         /\ IsInjective(sizebases[b])
    /\ \A r \in Roots :
         /\ Out(r) \cup {km[t].i : t \in Pending(r)} \subseteq root[r].inuse
         /\ \A t \in Pending(r) : km[t].i \notin Out(r)
                                  /\ \A s \in Pending(r) \ {t} : km[s].i # km[t].i

KmallocSpec == KmallocInit /\ [][KmallocNext]_heapVars
=============================================================================
