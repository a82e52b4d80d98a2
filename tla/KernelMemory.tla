---------------------------- MODULE KernelMemory ----------------------------
(***************************************************************************)
(* The kernel's allocators on the memory above the image: the page bump    *)
(* allocator (src/mm/vm.c), the slabs on top of it (src/freelib/slab.c)    *)
(* and the first-fit heap (src/freelib/kalloc.c); and the page tables that *)
(* vm_map_page builds from such pages.                                     *)
(*                                                                         *)
(* Memory is a function from word addresses (8 bytes) to words, and the    *)
(* block headers, slab headers and free-list links live in it, so that an  *)
(* allocator that writes where it should not destroys what is there.  A    *)
(* slab header is one word, a heap header three: size, is_free, next; a    *)
(* page table is a page of entries of one word.                            *)
(* Nothing runs concurrently here: ring 0 is not interrupted.              *)
(***************************************************************************)
EXTENDS Integers, Sequences, FiniteSets

CONSTANTS
    KernelEnd,    \* the address of _kernel_end
    MaxAddr,      \* bound: the last address of the modelled memory
    MaxHeap,      \* bound: the last address the heap may use
    MaxPages,     \* bound: the pages vm_alloc_page hands out, for each of Uses
    VM_PAGE_SIZE,
    PDS,          \* the tables of kernel_pd, 4 in the code
    Virts,        \* the virtual addresses passed to vm_map_page, in words
    Physes,       \* and the physical ones
    ClassSizes,   \* class_sizes, in words
    Sizes,        \* the sizes passed to kalloc
    Uses,         \* which allocators a boot uses, one of these sets
    Fills         \* the words clients write into their objects

ASSUME MemAssumption ==
    /\ MaxAddr \in Nat /\ MaxHeap \in 0 .. MaxAddr /\ MaxPages \in [Uses -> Nat]
    /\ VM_PAGE_SIZE \in Nat \ {0} /\ PDS \in 1 .. VM_PAGE_SIZE
    /\ KernelEnd \in Nat /\ KernelEnd >= (3 + PDS) * VM_PAGE_SIZE
    /\ Physes \subseteq Nat \ {0}
    /\ ClassSizes \in Seq(2 .. VM_PAGE_SIZE) /\ ClassSizes # <<>>
    /\ Sizes \subseteq Nat /\ Fills \subseteq Int
    /\ Uses \subseteq SUBSET {"page", "slab", "heap", "map"}

VARIABLES
    mem,
    page_bump,
    heap_end,     \* history: the end of the highest block of the heap, heap_start before the first
    free_lists,
    live,         \* the objects handed out and not freed: pages and kalloc'ed
    slabs,        \* the pages refill has carved up, with their classes
    mapped,       \* the pages mapped by vm_map_page, with their physical addresses
    uses          \* the element of Uses of this boot

vars == <<mem, page_bump, heap_end, free_lists, live, slabs, mapped, uses>>

NULL == 0

Addr == 1 .. MaxAddr

Classes == 1 .. Len(ClassSizes)

SLAB_MAGIC == 1000

\* The header's value is no multiple of 8, so it is the address of no word; here it
\* is a negative number.
SlabHeader(ci) == -(SLAB_MAGIC + ci)

\* The largest class, 1024 bytes in the code: kalloc's limit for slabs.
SmallLimit == ClassSizes[Len(ClassSizes)]

align_up(v, a) == ((v + a - 1) \div a) * a

\* kalloc_init aligns to 16 bytes, two words.
heap_start == align_up(KernelEnd, 2)

HDR == 3

\* vm_init aligns to a page.
FirstPage == align_up(KernelEnd, VM_PAGE_SIZE)

\* The tables in the kernel image.
kernel_pml4 == VM_PAGE_SIZE

kernel_pdpt == 2 * VM_PAGE_SIZE

kernel_pd(i) == (3 + i) * VM_PAGE_SIZE

\* An entry keeps an address and, of the flags, VM_FLAG_HUGE and VM_FLAG_PRESENT.
Entry(addr, huge) == 4 * addr + (IF huge THEN 2 ELSE 0) + 1

Present(e) == e % 2 = 1

Huge(e) == (e \div 2) % 2 = 1

AddrOf(e) == e \div 4

\* The words below PDS * PdSpan are mapped to themselves, PtSpan by entry.
PtSpan == VM_PAGE_SIZE * VM_PAGE_SIZE

PdSpan == VM_PAGE_SIZE * PtSpan

\* The words that an entry of a table stands for, by level: 4 in kernel_pml4, 1 in a
\* page table.
Span == <<VM_PAGE_SIZE, PtSpan, PdSpan, VM_PAGE_SIZE * PdSpan>>

\* A virtual address has an index in the tables of each level, and the modelled
\* memory holds the pages and the heap's first header.
ASSUME RoomAssumption ==
    /\ Virts \subseteq 0 .. VM_PAGE_SIZE * Span[4] - 1
    /\ \A u \in Uses :
          FirstPage + MaxPages[u] * VM_PAGE_SIZE <= MaxAddr + 1
    /\ heap_start + HDR - 1 <= MaxHeap

\* The words of the static tables after vm_init.
vm_map_identity_2m(a) ==
    CASE a = kernel_pml4 -> Entry(kernel_pdpt, FALSE)
      [] a \in kernel_pdpt .. kernel_pdpt + PDS - 1 -> Entry(kernel_pd(a - kernel_pdpt), FALSE)
      [] a \in kernel_pd(0) .. kernel_pd(PDS) - 1 -> Entry((a - kernel_pd(0)) * PtSpan, TRUE)
      [] OTHER -> 0

\* The state after vm_init, slab_init and kalloc_init; the rest of the memory
\* holds what was there before.
Init ==
    /\ page_bump = FirstPage
    /\ heap_end = heap_start
    /\ free_lists = [ci \in Classes |-> NULL]
    /\ mem = [a \in Addr |-> IF a < kernel_pd(PDS) THEN vm_map_identity_2m(a)
                             ELSE IF a = heap_start + 1 THEN 1
                             ELSE IF a \in {heap_start, heap_start + 2} THEN 0 ELSE -1]
    /\ mapped = [v \in {} |-> 0]
    /\ live = {}
    /\ slabs = {}
    /\ uses \in Uses

Object(kind, ptr, size) == [kind |-> kind, ptr |-> ptr, size |-> size]

----------------------------------------------------------------------------
(* Pages.                                                                  *)

LastBump == FirstPage + MaxPages[uses] * VM_PAGE_SIZE

PageLeft == page_bump < LastBump

Zeroed(m, page) ==
    [a \in Addr |-> IF a \in page .. page + VM_PAGE_SIZE - 1 THEN 0 ELSE m[a]]

\* Faulty variant: the bump pointer ends on the page's last word.
vm_alloc_page_Unaligned ==
    /\ "page" \in uses
    /\ PageLeft
    /\ mem' = Zeroed(mem, page_bump)
    /\ live' = live \cup {Object("page", page_bump, VM_PAGE_SIZE)}
    /\ page_bump' = page_bump + VM_PAGE_SIZE - 1
    /\ UNCHANGED <<heap_end, free_lists, slabs, mapped, uses>>

\* A driver takes a page (xHCI rings, HDA buffers); pages are never freed.
vm_alloc_page ==
    /\ "page" \in uses
    /\ PageLeft
    /\ mem' = Zeroed(mem, page_bump)
    /\ live' = live \cup {Object("page", page_bump, VM_PAGE_SIZE)}
    /\ page_bump' = page_bump + VM_PAGE_SIZE
    /\ UNCHANGED <<heap_end, free_lists, slabs, mapped, uses>>

----------------------------------------------------------------------------
(* The page tables.                                                        *)

\* The index of an address in the tables of a level.
Index(virt, level) == (virt \div Span[level]) % VM_PAGE_SIZE

\* Faulty variant: a table is allocated for every call.
Descend_AlwaysNew(w, i) ==
    [mem |-> [Zeroed(w.mem, w.bump) EXCEPT ![w.table + i] = Entry(w.bump, FALSE)],
     bump |-> w.bump + VM_PAGE_SIZE, table |-> w.bump]

\* The table behind entry i of the table reached, a new one if the entry is not
\* present.
Descend(w, i) ==
    IF Present(w.mem[w.table + i])
    THEN [w EXCEPT !.table = AddrOf(w.mem[w.table + i])]
    ELSE [mem |-> [Zeroed(w.mem, w.bump) EXCEPT ![w.table + i] = Entry(w.bump, FALSE)],
          bump |-> w.bump + VM_PAGE_SIZE, table |-> w.bump]

\* What vm_map_page leaves; ok is FALSE where it returns -1.
MapPage(virt, phys) ==
    LET start == [mem |-> mem, bump |-> page_bump, table |-> kernel_pml4]
        pd    == Descend(Descend(start, Index(virt, 4)), Index(virt, 3))
        pt    == Descend(pd, Index(virt, 2))
    IN  IF virt % VM_PAGE_SIZE # 0 \/ phys % VM_PAGE_SIZE # 0
        THEN [ok |-> FALSE, mem |-> mem, bump |-> page_bump]
        ELSE IF Huge(pd.mem[pd.table + Index(virt, 2)])
        THEN [ok |-> FALSE, mem |-> pd.mem, bump |-> pd.bump]
        ELSE [ok |-> TRUE, bump |-> pt.bump,
              mem |-> [pt.mem EXCEPT ![pt.table + Index(virt, 1)] = Entry(phys, FALSE)]]

vm_map_page(virt, phys) ==
    /\ "map" \in uses
    /\ page_bump + 3 * VM_PAGE_SIZE <= LastBump
    /\ LET done == MapPage(virt, phys)
       IN  /\ mem' = done.mem
           /\ page_bump' = done.bump
           /\ live' = live \cup {Object("table", a, VM_PAGE_SIZE) :
                                    a \in {b \in page_bump .. done.bump - 1 : b % VM_PAGE_SIZE = 0}}
           /\ mapped' = IF done.ok
                        THEN [v \in DOMAIN mapped \cup {virt} |->
                                 IF v = virt THEN phys ELSE mapped[v]]
                        ELSE mapped
    /\ UNCHANGED <<heap_end, free_lists, slabs, uses>>

\* The physical address of a virtual one, 0 if there is none.
vm_virt_to_phys(virt) ==
    LET pml4e == mem[kernel_pml4 + Index(virt, 4)]
        pdpte == mem[AddrOf(pml4e) + Index(virt, 3)]
        pde   == mem[AddrOf(pdpte) + Index(virt, 2)]
        pte   == mem[AddrOf(pde) + Index(virt, 1)]
    IN  IF ~Present(pml4e) \/ ~Present(pdpte) \/ ~Present(pde) THEN 0
        ELSE IF Huge(pde) THEN AddrOf(pde) + (virt % PtSpan)
        ELSE IF ~Present(pte) THEN 0
        ELSE AddrOf(pte) + (virt % VM_PAGE_SIZE)

----------------------------------------------------------------------------
(* The slabs.                                                              *)

\* Faulty variant: the room for the header is forgotten.
class_for_NoHeader(size, ci) ==
    /\ size <= ClassSizes[ci]
    /\ \A c \in Classes : size <= ClassSizes[c] => ci <= c

\* ci is the smallest class that holds size words and the header.
class_for(size, ci) ==
    /\ size + 1 <= ClassSizes[ci]
    /\ \A c \in Classes : size + 1 <= ClassSizes[c] => ci <= c

SlotsPerPage(ci) == VM_PAGE_SIZE \div ClassSizes[ci]

\* The k-th slot's object (after its header), k from 0.
SlotObject(page, ci, k) == page + k * ClassSizes[ci] + 1

\* The memory after refill(ci) has carved up the next page: every slot has its
\* header and a link to the slot before it, the first one ends the list.
refill(ci) ==
    LET page == page_bump
        zero == Zeroed(mem, page)
        off(a) == (a - page) % ClassSizes[ci]
        k(a)   == (a - page) \div ClassSizes[ci]
    IN  [a \in Addr |->
            IF a < page \/ k(a) >= SlotsPerPage(ci) THEN zero[a]
            ELSE IF off(a) = 0 THEN SlabHeader(ci)
            ELSE IF off(a) = 1 /\ k(a) > 0 THEN SlotObject(page, ci, k(a) - 1)
            ELSE zero[a]]

slab_alloc(size, ci) ==
    /\ "slab" \in uses
    /\ class_for(size, ci)
    /\ \/ /\ free_lists[ci] # NULL
          /\ live' = live \cup {Object("slab", free_lists[ci], size)}
          /\ free_lists' = [free_lists EXCEPT ![ci] = mem[@]]
          /\ UNCHANGED <<mem, page_bump, slabs>>
       \/ /\ free_lists[ci] = NULL
          /\ PageLeft
          /\ LET head == SlotObject(page_bump, ci, SlotsPerPage(ci) - 1)
             IN  /\ mem' = refill(ci)
                 /\ live' = live \cup {Object("slab", head, size)}
                 /\ free_lists' = [free_lists EXCEPT ![ci] = mem'[head]]
          /\ slabs' = slabs \cup {<<page_bump, ci>>}
          /\ page_bump' = page_bump + VM_PAGE_SIZE
    /\ UNCHANGED <<heap_end, mapped, uses>>

----------------------------------------------------------------------------
(* The heap.                                                               *)

\* The n-th block of the list from heap_start, or NULL past its end.
Block[n \in Nat] ==
    IF n = 0 THEN heap_start
    ELSE LET prev == Block[n - 1]
         IN  IF prev = NULL \/ mem[prev] = 0 THEN NULL ELSE mem[prev + 2]

\* Bound: no more blocks fit into the heap.
MaxBlocks == (MaxHeap + 1 - heap_start) \div HDR

BlockSize(b) == mem[b]

IsFree(b) == mem[b + 1] = 1

\* kalloc can take block n.
Fits(n, size) ==
    LET b == Block[n]
    IN  b # NULL /\ BlockSize(b) # 0 /\ IsFree(b) /\ BlockSize(b) >= size

Higher(a, b) == IF a >= b THEN a ELSE b

\* The first block that fits, reused whole.
heap_reuse(size, request) ==
    /\ \E n \in 0 .. MaxBlocks :
          /\ Fits(n, size) /\ \A j \in 0 .. n - 1 : ~Fits(j, size)
          /\ mem' = [mem EXCEPT ![Block[n] + 1] = 0]
          /\ live' = live \cup {Object("heap", Block[n] + HDR, request)}
    /\ heap_end' = Higher(heap_end, heap_start + HDR)

\* Faulty variant: the new block starts where the last payload starts.
heap_extend_NoHeader(size, request) ==
    /\ \A n \in 0 .. MaxBlocks : ~Fits(n, size)
    /\ \E n \in 0 .. MaxBlocks :
          /\ Block[n] # NULL /\ Block[n + 1] = NULL
          /\ LET last == Block[n]
                 new == IF BlockSize(last) = 0 THEN heap_start ELSE last + BlockSize(last)
             IN  /\ new \in heap_start .. MaxHeap + 1 - HDR - size
                 /\ mem' = [mem EXCEPT ![new] = size, ![new + 1] = 0, ![new + 2] = 0,
                                        ![last + 2] = IF last = new THEN 0 ELSE new]
                 /\ live' = live \cup {Object("heap", new + HDR, request)}
                 /\ heap_end' = Higher(heap_end, new + HDR + size)

\* No block fits: a new one after the last, or the first of all.
heap_extend(size, request) ==
    /\ \A n \in 0 .. MaxBlocks : ~Fits(n, size)
    /\ \E n \in 0 .. MaxBlocks :
          /\ Block[n] # NULL /\ Block[n + 1] = NULL
          /\ LET last == Block[n]
                 new == IF BlockSize(last) = 0 THEN heap_start ELSE last + HDR + BlockSize(last)
             IN  /\ new \in heap_start .. MaxHeap + 1 - HDR - size
                 /\ mem' = [mem EXCEPT ![new] = size, ![new + 1] = 0, ![new + 2] = 0,
                                        ![last + 2] = IF last = new THEN 0 ELSE new]
                 /\ live' = live \cup {Object("heap", new + HDR, request)}
                 /\ heap_end' = Higher(heap_end, new + HDR + size)

\* Sizes up to the limit try the slabs first; the largest ones of them do not
\* fit there with their header and go to the heap as well.
kalloc(size) ==
    \/ size <= SmallLimit /\ \E ci \in Classes : slab_alloc(size, ci)
    \/ /\ "heap" \in uses
       /\ size > SmallLimit \/ \A ci \in Classes : ~class_for(size, ci)
       /\ heap_reuse(align_up(size, 2), size) \/ heap_extend(align_up(size, 2), size)
       /\ UNCHANGED <<page_bump, free_lists, slabs, mapped, uses>>

\* Faulty variant: the list head is not linked behind the freed object.
slab_free_LosesList(ptr) ==
    \E ci \in Classes :
        /\ mem[ptr - 1] = SlabHeader(ci)
        /\ mem' = [mem EXCEPT ![ptr] = NULL]
        /\ free_lists' = [free_lists EXCEPT ![ci] = ptr]

slab_free(ptr) ==
    \E ci \in Classes :
        /\ mem[ptr - 1] = SlabHeader(ci)
        /\ mem' = [mem EXCEPT ![ptr] = free_lists[ci]]
        /\ free_lists' = [free_lists EXCEPT ![ci] = ptr]

kfree_large(ptr) ==
    /\ \A ci \in Classes : mem[ptr - 1] # SlabHeader(ci)
    /\ mem' = [mem EXCEPT ![ptr - HDR + 1] = 1]
    /\ UNCHANGED free_lists

kfree(o) ==
    /\ o.kind \in {"slab", "heap"}
    /\ slab_free(o.ptr) \/ kfree_large(o.ptr)
    /\ live' = live \ {o}
    /\ UNCHANGED <<page_bump, heap_end, slabs, mapped, uses>>

\* The owner of an object fills it.
ClientWrite(o, w) ==
    /\ o.kind # "table"
    /\ mem' = [a \in Addr |-> IF a \in o.ptr .. o.ptr + o.size - 1 THEN w ELSE mem[a]]
    /\ UNCHANGED <<page_bump, heap_end, free_lists, live, slabs, mapped, uses>>

Next ==
    \/ vm_alloc_page
    \/ \E virt \in Virts, phys \in Physes : vm_map_page(virt, phys)
    \/ \E size \in Sizes : kalloc(size)
    \/ \E o \in live : kfree(o)
    \/ \E o \in live, w \in Fills : ClientWrite(o, w)

Spec == Init /\ [][Next]_vars

----------------------------------------------------------------------------
(* Properties.                                                             *)

\* The heap has not grown into the pages: it has all the memory to itself, or it ends
\* below the first page.  Nothing in the code sees to this (vm_init and kalloc_init
\* start at the same address), and once it is false it stays so.
RegionsApart == page_bump = FirstPage \/ heap_end <= FirstPage

\* Every variable has its type; what is kept in memory has it until the heap and the
\* pages meet.
TypeOK ==
    /\ page_bump \in Nat /\ page_bump % VM_PAGE_SIZE = 0 /\ heap_end \in Nat
    /\ RegionsApart =>
          /\ mem \in [Addr -> Int]
          /\ free_lists \in [Classes -> Addr \cup {NULL}]
          /\ live \subseteq [kind : {"page", "table", "slab", "heap"}, ptr : Addr, size : Nat]

Words(o) == o.ptr .. o.ptr + o.size - 1

\* No two objects share a word: what one client writes never shows up in the
\* object of another (docs/KERNEL_ABI.md presents two allocators).
LiveDisjoint ==
    \A o, p \in live : o # p => Words(o) \cap Words(p) = {}

\* The pages handed out, to drivers, as page tables and to the slabs.
PagesOut == {o.ptr : o \in {p \in live : p.kind \in {"page", "table"}}} \cup {s[1] : s \in slabs}

\* vm_alloc_page hands out no page twice, whatever has happened to the memory: the next
\* one is above all of them.  And until the heap and the pages meet, no two objects
\* share a word.
ObjectsApart ==
    /\ \A p \in PagesOut : p + VM_PAGE_SIZE <= page_bump
    /\ RegionsApart => LiveDisjoint

\* Until the heap and the pages meet, the page tables say what vm_map_page was told: an
\* address is where it was mapped last, one of the first PDS * PdSpan is where vm_init
\* put it, and no other is mapped; whatever tables the mappings share, in which order
\* they are made, which calls fail and what the owners of other pages write
\* (vm_virt_to_phys).
TranslatesAsMapped ==
    RegionsApart => \A v \in Virts :
        vm_virt_to_phys(v) =
            LET page == v - (v % VM_PAGE_SIZE)
            IN  IF page \in DOMAIN mapped THEN mapped[page] + (v % VM_PAGE_SIZE)
                ELSE IF v < PDS * PdSpan THEN v ELSE 0

\* The objects on the free list of a class, numbered from 0, and NULL behind them.
FreeNode(ci) ==
    LET node[n \in Nat] ==
          IF n = 0 THEN free_lists[ci]
          ELSE LET prev == node[n - 1] IN IF prev = NULL THEN NULL ELSE mem[prev]
    IN  node

SlabObjects(ci) ==
    {SlotObject(s[1], ci, k) : s \in {t \in slabs : t[2] = ci}, k \in 0 .. SlotsPerPage(ci) - 1}

\* Slab memory is conserved until the heap and the pages meet: every slot of a class is
\* in use or on the free list of the class, never both, and the list ends, whatever the
\* order of frees and whatever clients write into their objects.
SlabsConserved ==
    RegionsApart => \A ci \in Classes :
        LET used == {o.ptr : o \in {p \in live : p.kind = "slab"}}
            slots == Cardinality(SlabObjects(ci))
        IN  /\ {FreeNode(ci)[n] : n \in 0 .. slots - 1} \ {NULL} = SlabObjects(ci) \ used
            /\ FreeNode(ci)[slots] = NULL
            /\ \A x \in SlabObjects(ci) : mem[x - 1] = SlabHeader(ci)

\* Until the heap and the pages meet, the heap list tiles the heap: each block starts
\* where the one before it ends, and the blocks not free are exactly those that back a
\* live object, which they are large enough for.
HeapTiled ==
    RegionsApart /\ heap_end > heap_start =>
        \A n \in {m \in 0 .. MaxBlocks : Block[m] # NULL /\ BlockSize(Block[m]) # 0} :
            LET b == Block[n]
            IN  /\ Block[n + 1] \in {NULL, b + HDR + BlockSize(b)}
                /\ IsFree(b) <=> \A o \in live : o.ptr # b + HDR
                /\ \A o \in live : o.ptr \in b + HDR .. b + HDR + BlockSize(b) - 1 =>
                      o.ptr = b + HDR /\ o.size <= BlockSize(b)
=============================================================================
