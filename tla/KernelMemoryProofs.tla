------------------------ MODULE KernelMemoryProofs ------------------------
(***************************************************************************)
(* Proofs about KernelMemory, third part: the steps of the heap, kfree,    *)
(* the writes of the clients, and the theorems.                            *)
(***************************************************************************)
EXTENDS KernelAllocProofs

\* The solver gets more time than by default, as the obligations have long contexts; the
\* steps that are first-order reasoning cite Zenon.
USE SMTT(30), ZenonT(30), SMTT(31)

----------------------------------------------------------------------------
(* Writes in the heap.                                                     *)

\* A new heap object counts for no other allocator.
LEMMA HeapObject ==
  ASSUME NEW lv, NEW x, NEW size \in Nat, NEW o, o = Object("heap", x, size)
  PROVE /\ o.kind = "heap" /\ o.ptr = x /\ o.size = size /\ (x \in Addr => o \in Objects)
        /\ Slabbed(lv \cup {o}) = Slabbed(lv) /\ Paged(lv \cup {o}) = Paged(lv)
<1>1. o.kind = "heap" /\ o.ptr = x /\ o.size = size /\ (x \in Addr => o \in Objects)
  BY DEF Object, Objects
<1>2. \A p \in {o} : p.kind \in {"heap"}
  BY <1>1
<1>3. "slab" \notin {"heap"} /\ "page" \notin {"heap"} /\ "table" \notin {"heap"}
  OBVIOUS
<1>4. Slabbed(lv \cup {o}) = Slabbed(lv) /\ Paged(lv \cup {o}) = Paged(lv)
  BY <1>2, <1>3, Kinds, ZenonT(40)
<1> QED BY <1>1, <1>4

\* Blocks that end by h end by any word above it.
LEMMA Wider ==
  ASSUME NEW m, NEW lv, NEW h \in Nat, NEW h2 \in Nat, h <= h2, HeapOk(m, lv, h)
  PROVE HeapOk(m, lv, h2)
<1>1. PICK n, B : Blocks(m, lv, n, B, h)
  BY DEF HeapOk
<1>2. n \in Nat \ {0} /\ B \in [0 .. n -> Int] /\ HDR = 3
      /\ \A i \in 0 .. n - 1 : m[B[i]] \in Nat /\ B[i] + HDR + m[B[i]] <= h + 1
  BY <1>1 DEF Blocks, HDR
<1>3. \A i \in 0 .. n - 1 : B[i] + HDR + m[B[i]] <= h2 + 1
  BY <1>2
<1>4. Blocks(m, lv, n, B, h2)
  BY ZenonT(40), <1>1, <1>3 DEF Blocks
<1> QED BY <1>4 DEF HeapOk

\* The last word of the heap moves up with its end.
LEMMA LastWordUp ==
  ASSUME NEW top \in Nat, top # heap_start => heap_start + 3 <= top,
         NEW h \in Nat, top <= h + 1, heap_start + 2 <= h
  PROVE LastWord(top) \in Nat /\ LastWord(top) <= h
<1>1. heap_start \in Nat /\ LastWord(top) = IF top = heap_start THEN heap_start + 2 ELSE top - 1
  BY Layout DEF LastWord, HDR
<1> QED BY <1>1

\* Where the last word is of a heap that has a block and ends at top.
LEMMA TopWord ==
  ASSUME NEW top \in Nat, heap_start + 3 <= top, top <= MaxHeap + 1, NEW bump, bump = FirstPage \/ top <= FirstPage
  PROVE \E h \in Nat : /\ heap_start + 2 <= h /\ h <= MaxHeap /\ h <= MaxAddr /\ top = h + 1
                       /\ bump = FirstPage \/ h < FirstPage
<1>1. heap_start \in Nat /\ MaxHeap \in Nat /\ MaxHeap <= MaxAddr /\ MaxAddr \in Nat /\ FirstPage \in Nat
  BY Layout, PageFacts
<1>2. top - 1 \in Nat
  BY <1>1
<1> WITNESS top - 1 \in Nat
<1> QED BY <1>1

\* A step that writes in the heap only, up to its last word h after the step, keeps the
\* invariant if it keeps the blocks.
LEMMA HeapStep ==
  ASSUME Inv, NEW h \in Nat, heap_start + 2 <= h, h <= MaxHeap, page_bump = FirstPage \/ h < FirstPage,
         NEW m2 \in [Addr -> Int], NEW lv2 \in SUBSET Objects, HeapOk(m2, lv2, h),
         Paged(lv2) = Paged(live), Slabbed(lv2) = Slabbed(live),
         \A a \in Addr : a \notin heap_start .. h => m2[a] = mem[a],
         mem' = m2, live' = lv2, heap_end' = h + 1, UNCHANGED <<page_bump, free_lists, slabs, mapped, uses>>
  PROVE Inv'
<1>1. /\ free_lists \in [Classes -> Int] /\ uses \in Uses /\ page_bump <= LastBump
      /\ Parts(mem, page_bump, free_lists, live, slabs, mapped, heap_end)
  BY DEF Inv
<1>2. /\ PagesOk(page_bump, lv2, slabs) /\ SlotsOk(m2, lv2, slabs) /\ ListsOk(m2, free_lists, lv2, slabs)
      /\ TablesPart(m2, page_bump, lv2, mapped)
  BY <1>1, HeapWrite, ZenonT(40)
<1>3. HeapPart(m2, page_bump, lv2, h + 1)
  <2>1. heap_start \in Nat /\ MaxHeap \in Nat /\ FirstPage \in Nat /\ HDR = 3
    BY Layout DEF HDR
  <2>2. HeapEnd(h + 1) /\ h + 1 # heap_start /\ (page_bump = FirstPage \/ h + 1 <= FirstPage)
    BY <2>1 DEF HeapEnd
  <2>3. LastWord(h + 1) = h
    BY <2>2 DEF LastWord
  <2> QED BY <2>2, <2>3 DEF HeapPart
<1>4. Parts(m2, page_bump, free_lists, lv2, slabs, mapped, h + 1)
  BY <1>2, <1>3 DEF Parts
<1>5. page_bump' <= LastBump'
  BY <1>1 DEF LastBump
<1> QED BY <1>1, <1>4, <1>5 DEF Inv

\* Where heap objects are live, no page covers the heap, and it ends behind its first
\* header.
LEMMA HeapInUse ==
  ASSUME Inv, Heaped(live) # {}
  PROVE LET h == LastWord(heap_end)
        IN  /\ h \in Nat /\ heap_start + 2 <= h /\ h <= MaxHeap /\ h <= MaxAddr
            /\ page_bump = FirstPage \/ h < FirstPage
            /\ heap_end = h + 1 /\ HeapOk(mem, live, h) /\ Kept(page_bump, heap_end)
<1>1. HeapPart(mem, page_bump, live, heap_end)
  BY DEF Inv, Parts
<1>2. Kept(page_bump, heap_end)
  BY <1>1, HeapFacts
<1>3. HeapOk(mem, live, LastWord(heap_end)) /\ heap_end \in Nat /\ heap_end # heap_start
  BY <1>1, <1>2 DEF HeapPart, HeapEnd
<1>4. heap_end = LastWord(heap_end) + 1
  BY <1>3 DEF LastWord
<1> QED BY <1>1, <1>2, <1>3, <1>4, HeapFacts DEF Kept

\* The headers tell the classes apart, and no link is one.
LEMMA HeaderFacts ==
  ASSUME NEW c \in Classes, NEW d \in Classes
  PROVE SlabHeader(c) < 0 /\ SlabHeader(c) \in Int /\ (SlabHeader(c) = SlabHeader(d) => c = d)
<1>1. c \in Nat /\ d \in Nat
  BY DEF Classes
<1> QED BY <1>1 DEF SlabHeader, SLAB_MAGIC

\* Slab object o is in a slot of class ci, inside the slab page p.
SlabHome(o, ci, p, bump, lv, sl) ==
    /\ o.ptr \in Slots(sl, ci) /\ o.size + 1 <= ClassSizes[ci] /\ o.ptr \in UsedSlots(lv)
    /\ IsPage(p, bump) /\ \A q \in Paged(lv) : q.ptr # p
    /\ o.ptr \in p .. p + VM_PAGE_SIZE - 1
    /\ \A a \in o.ptr .. o.ptr + o.size - 1 : a \in p .. p + VM_PAGE_SIZE - 1

\* The words of a slab object lie in its slot, in a slab's page.
LEMMA SlabObject ==
  ASSUME NEW m, NEW bump, NEW lv, NEW sl, PagesOk(bump, lv, sl), SlotsOk(m, lv, sl), lv \subseteq Objects,
         NEW o \in lv, o.kind = "slab"
  PROVE \E ci \in Classes, p \in Nat : SlabHome(o, ci, p, bump, lv, sl)
<1>1. o \in Slabbed(lv) /\ o.ptr \in Int /\ o.size \in Nat
  BY DEF Slabbed, Objects, Addr
<1>2. PICK ci \in Classes : o.ptr \in Slots(sl, ci) /\ o.size + 1 <= ClassSizes[ci]
  BY <1>1 DEF SlotsOk
<1> DEFINE x == o.ptr
<1>3. PICK s \in sl : /\ IsPage(s[1], bump)
                      /\ \A a \in x - 1 .. x - 1 + ClassSizes[ci] - 1 : a \in s[1] .. s[1] + VM_PAGE_SIZE - 1
                      /\ x \in s[1] .. s[1] + VM_PAGE_SIZE - 1
  BY <1>2, SlotWords, ZenonT(40)
<1>4. \A q \in Paged(lv) : q.ptr # s[1]
  BY DEF PagesOk
<1>5. x \in UsedSlots(lv)
  BY <1>1 DEF UsedSlots
<1>6. ClassSizes[ci] \in Nat
  BY ClassFacts
<1>7. \A a \in x .. x + o.size - 1 : a \in x - 1 .. x - 1 + ClassSizes[ci] - 1
  BY <1>1, <1>2, <1>6
<1> HIDE DEF x
<1>8. \A a \in x .. x + o.size - 1 : a \in s[1] .. s[1] + VM_PAGE_SIZE - 1
  BY <1>3, <1>7, ZenonT(40)
<1>9. SlabHome(o, ci, s[1], bump, lv, sl)
  BY <1>2, <1>3, <1>4, <1>5, <1>8, ZenonT(40) DEF x, SlabHome
<1>10. s[1] \in Nat
  BY <1>3, PageEnd
<1> QED BY <1>9, <1>10, ZenonT(40)

\* The words of a heap object lie in its block.
LEMMA HeapWords ==
  ASSUME NEW m, NEW lv, NEW n, NEW B, NEW h \in Nat, h <= MaxAddr, Blocks(m, lv, n, B, h), lv \subseteq Objects,
         NEW o \in lv, o.kind = "heap"
  PROVE \E i \in 0 .. n - 1 :
          /\ o.ptr = B[i] + HDR /\ o.size <= m[B[i]]
          /\ \A a \in o.ptr .. o.ptr + o.size - 1 : a \in heap_start .. h /\ a >= B[i] + 3 /\ a < B[i] + 3 + m[B[i]]
<1>1. o \in Heaped(lv) /\ o.size \in Nat
  BY DEF Heaped, Objects
<1>2. PICK i \in 0 .. n - 1 : o.ptr = B[i] + HDR /\ o.size <= m[B[i]]
  BY <1>1 DEF Blocks
<1>3. B[i] \in Nat /\ B[i] >= heap_start /\ m[B[i]] \in Nat /\ B[i] + 3 + m[B[i]] <= h + 1 /\ HDR = 3
  BY Headers
<1>4. heap_start \in Nat
  BY Layout
<1>5. \A a \in o.ptr .. o.ptr + o.size - 1 : a \in heap_start .. h /\ a >= B[i] + 3 /\ a < B[i] + 3 + m[B[i]]
  BY <1>1, <1>2, <1>3, <1>4
<1> QED BY <1>2, <1>5

\* kfree returns the object to the allocator it comes from.
LEMMA Free == ASSUME Inv, NEW o \in live, kfree(o) PROVE Inv'
<1>1. /\ o.kind \in {"slab", "heap"} /\ (slab_free(o.ptr) \/ kfree_large(o.ptr)) /\ live' = live \ {o}
      /\ page_bump' = page_bump /\ heap_end' = heap_end /\ slabs' = slabs /\ mapped' = mapped /\ uses' = uses
  BY DEF kfree
<1>2. /\ mem \in [Addr -> Int] /\ free_lists \in [Classes -> Int] /\ live \subseteq Objects
      /\ uses \in Uses /\ page_bump <= LastBump
      /\ Parts(mem, page_bump, free_lists, live, slabs, mapped, heap_end)
      /\ PagesOk(page_bump, live, slabs) /\ SlotsOk(mem, live, slabs) /\ ListsOk(mem, free_lists, live, slabs)
      /\ HeapPart(mem, page_bump, live, heap_end)
  BY DEF Inv, Parts
<1>3. CASE o.kind = "slab"
  <2> DEFINE x == o.ptr
             lv2 == live \ {o}
  <2>0. PICK ci \in Classes, p \in Nat : SlabHome(o, ci, p, page_bump, live, slabs)
    BY <1>2, <1>3, SlabObject, ZenonT(40)
  <2>1. /\ x \in Slots(slabs, ci) /\ IsPage(p, page_bump) /\ (\A q \in Paged(live) : q.ptr # p)
        /\ x \in p .. p + VM_PAGE_SIZE - 1
    BY <2>0, ZenonT(40) DEF SlabHome
  <2>2. mem[x - 1] = SlabHeader(ci)
    BY <1>2, <2>1 DEF SlotsOk
  <2>3. x \in Addr
    BY <1>2, <2>1, SlotAddress
  <2> DEFINE m2 == [mem EXCEPT ![x] = free_lists[ci]]
             fl2 == [free_lists EXCEPT ![ci] = x]
  <2>4. mem' = m2 /\ free_lists' = fl2
    <3>1. slab_free(x)
      BY <1>1, <2>2 DEF kfree_large
    <3>2. PICK d \in Classes : /\ mem[x - 1] = SlabHeader(d) /\ mem' = [mem EXCEPT ![x] = free_lists[d]]
                               /\ free_lists' = [free_lists EXCEPT ![d] = x]
      BY Zenon, <3>1 DEF slab_free
    <3>3. d = ci
      BY ZenonT(40), <2>2, <3>2, HeaderFacts
    <3> QED BY <3>2, <3>3
  <2>5. SlotsOk(m2, lv2, slabs) /\ ListsOk(m2, fl2, lv2, slabs)
    BY <1>2, <1>3, <2>1, Push, ZenonT(40)
  <2>6. Heaped(lv2) = Heaped(live) /\ Paged(lv2) = Paged(live)
    <3>1. \A q \in {o} : q.kind \in {"slab"}
      BY <1>3
    <3>2. "heap" \notin {"slab"} /\ "page" \notin {"slab"} /\ "table" \notin {"slab"}
      OBVIOUS
    <3> QED BY <3>1, <3>2, Kinds, ZenonT(40)
  <2>7. PagesOk(page_bump, lv2, slabs)
    BY <1>2, <2>6, ZenonT(40) DEF PagesOk
  <2>8. m2 \in [Addr -> Int] /\ fl2 \in [Classes -> Int]
    BY <1>2, <2>3 DEF Addr
  <2>9. \A a \in Addr : a \notin p .. p + VM_PAGE_SIZE - 1 => m2[a] = mem[a]
    BY <1>2, <2>1
  <2>10. \A q \in live : q.kind = "table" => q.ptr # p /\ q \in lv2
    BY <1>3, <2>1 DEF Paged
  <2> HIDE DEF m2, lv2, fl2
  <2>11. HeapPart(m2, page_bump, lv2, heap_end) /\ TablesPart(m2, page_bump, lv2, mapped)
    <3>1. PageStep(mem, m2, live, lv2, p)
      BY <2>6, <2>9, <2>10, ZenonT(40) DEF PageStep
    <3> QED BY <1>2, <2>1, <2>8, <3>1, PageWrite, ZenonT(40)
  <2>12. live' = lv2 /\ lv2 \subseteq Objects
    BY <1>1, <1>2 DEF lv2
  <2>13. page_bump' <= LastBump'
    BY <1>1, <1>2 DEF LastBump
  <2> QED BY <1>1, <1>2, <2>4, <2>5, <2>7, <2>8, <2>11, <2>12, <2>13 DEF Inv, Parts
<1>4. CASE o.kind = "heap"
  <2> DEFINE h == LastWord(heap_end)
  <2>0. o \in Heaped(live)
    BY <1>4 DEF Heaped
  <2>1. /\ h \in Nat /\ heap_start + 2 <= h /\ h <= MaxHeap /\ h <= MaxAddr /\ heap_end = h + 1
        /\ page_bump = FirstPage \/ h < FirstPage
        /\ HeapOk(mem, live, h)
    BY ZenonT(40), <2>0, HeapInUse
  <2> HIDE DEF h
  <2>2. PICK n, B : Blocks(mem, live, n, B, h)
    BY <2>1 DEF HeapOk
  <2>3. PICK i \in 0 .. n - 1 : o.ptr = B[i] + HDR
    BY <2>0, <2>2 DEF Blocks
  <2>4. B[i] \in Nat /\ HDR = 3 /\ n \in Nat \ {0} /\ B[n] = NULL /\ \A j \in 0 .. n - 1 : B[j] \in Nat
    BY <2>1, <2>2, Headers
  <2>5. mem[o.ptr - 1] \in Nat
    <3>1. o.ptr - 1 = B[i] + 2
      BY <2>3, <2>4
    <3>2. mem[B[i] + 2] = B[i + 1]
      BY <2>2 DEF Blocks
    <3>3. i + 1 = n \/ i + 1 \in 0 .. n - 1
      BY <2>4
    <3> QED BY <2>4, <3>1, <3>2, <3>3 DEF NULL
  <2>6. \A ci \in Classes : mem[o.ptr - 1] # SlabHeader(ci)
    BY <2>5, HeaderFacts
  <2>7. mem' = [mem EXCEPT ![o.ptr - HDR + 1] = 1] /\ free_lists' = free_lists
    BY <1>1, <2>6 DEF slab_free, kfree_large
  <2>8. o.ptr - HDR + 1 = B[i] + 1
    BY <2>3, <2>4
  <2> DEFINE m2 == [mem EXCEPT ![B[i] + 1] = 1]
             lv2 == live \ {o}
  <2>9. Blocks(m2, lv2, n, B, h)
    BY ZenonT(40), <1>2, <2>0, <2>1, <2>2, <2>3, Freed
  <2>10. m2 \in [Addr -> Int] /\ \A a \in Addr : a \notin heap_start .. h => m2[a] = mem[a]
    BY <1>2, <2>1, <2>2, FlagWords
  <2>11. Slabbed(lv2) = Slabbed(live) /\ Paged(lv2) = Paged(live)
    <3>1. \A p \in {o} : p.kind \in {"heap"}
      BY <1>4
    <3>2. "slab" \notin {"heap"} /\ "page" \notin {"heap"} /\ "table" \notin {"heap"}
      OBVIOUS
    <3> QED BY <3>1, <3>2, Kinds, ZenonT(40)
  <2>12. HeapOk(m2, lv2, h) /\ lv2 \in SUBSET Objects /\ mem' = m2 /\ live' = lv2
    BY ZenonT(40), <1>1, <1>2, <2>7, <2>8, <2>9 DEF HeapOk
  <2> HIDE DEF m2, lv2
  <2> QED BY <1>1, <2>1, <2>7, <2>10, <2>11, <2>12, HeapStep
<1> QED BY <1>1, <1>3, <1>4

\* What a client writes stays in its object.
LEMMA Write == ASSUME Inv, NEW o \in live, NEW w \in Fills, ClientWrite(o, w) PROVE Inv'
<1> DEFINE m2 == [a \in Addr |-> IF a \in o.ptr .. o.ptr + o.size - 1 THEN w ELSE mem[a]]
<1>1. /\ o.kind # "table" /\ mem' = m2
      /\ UNCHANGED <<page_bump, heap_end, free_lists, live, slabs, mapped, uses>>
  BY DEF ClientWrite
<1>2. /\ mem \in [Addr -> Int] /\ free_lists \in [Classes -> Int] /\ live \subseteq Objects
      /\ uses \in Uses /\ page_bump <= LastBump
      /\ Parts(mem, page_bump, free_lists, live, slabs, mapped, heap_end)
      /\ PagesOk(page_bump, live, slabs) /\ SlotsOk(mem, live, slabs) /\ ListsOk(mem, free_lists, live, slabs)
      /\ HeapPart(mem, page_bump, live, heap_end)
  BY DEF Inv, Parts
<1>3. m2 \in [Addr -> Int] /\ \A a \in Addr : a \notin o.ptr .. o.ptr + o.size - 1 => m2[a] = mem[a]
  BY <1>2, MemAssumption
<1> HIDE DEF m2
<1>4. o.ptr \in Addr /\ o.ptr \in Nat /\ o.size \in Nat /\ o.kind \in {"page", "slab", "heap"}
  BY <1>1, <1>2 DEF Objects, Addr
<1>5. ASSUME NEW p, IsPage(p, page_bump), \A q \in live : q.kind = "table" => q.ptr # p,
             \A a \in o.ptr .. o.ptr + o.size - 1 : a \in p .. p + VM_PAGE_SIZE - 1,
             SameSlots(mem, m2, live, slabs)
      PROVE Inv'
  <2>1. \A a \in Addr : a \notin p .. p + VM_PAGE_SIZE - 1 => m2[a] = mem[a]
    BY <1>3, <1>5, ZenonT(40)
  <2>2. \A q \in live : q.kind = "table" => q.ptr # p /\ q \in live
    BY <1>5, Zenon
  <2>6. PageStep(mem, m2, live, live, p)
    BY <2>1, <2>2, ZenonT(40) DEF PageStep
  <2>3. HeapPart(m2, page_bump, live, heap_end) /\ TablesPart(m2, page_bump, live, mapped)
    BY <1>2, <1>3, <1>5, <2>6, PageWrite, ZenonT(40)
  <2>4. SlotsOk(m2, live, slabs) /\ ListsOk(m2, free_lists, live, slabs)
    BY <1>2, <1>5, SlabFrame, ZenonT(40)
  <2>5. page_bump' <= LastBump'
    BY <1>1, <1>2 DEF LastBump
  <2> QED BY <1>1, <1>2, <1>3, <2>3, <2>4, <2>5 DEF Inv, Parts
<1>6. CASE o.kind = "page"
  <2>1. o \in Paged(live)
    BY <1>6 DEF Paged
  <2>2. IsPage(o.ptr, page_bump) /\ o.size = VM_PAGE_SIZE
    BY <1>2, <2>1 DEF PagesOk
  <2>3. \A q \in live : q.kind = "table" => q.ptr # o.ptr
    BY <1>2, <1>6, <2>1 DEF PagesOk, Paged
  <2>4. ASSUME NEW ci \in Classes, NEW x \in Slots(slabs, ci) PROVE m2[x - 1] = mem[x - 1] /\ m2[x] = mem[x]
    <3>1. PICK s \in slabs : /\ IsPage(s[1], page_bump)
                             /\ x - 1 \in s[1] .. s[1] + VM_PAGE_SIZE - 1
                             /\ x \in s[1] .. s[1] + VM_PAGE_SIZE - 1
      BY <1>2, SlotWords, ZenonT(40)
    <3>2. s[1] # o.ptr
      BY <1>2, <2>1 DEF PagesOk
    <3>3. \A a \in s[1] .. s[1] + VM_PAGE_SIZE - 1 : a \notin o.ptr .. o.ptr + VM_PAGE_SIZE - 1
      BY <1>2, <2>2, <3>1, <3>2, PageOnly, ZenonT(40)
    <3>4. x \in Addr /\ x - 1 \in Addr
      BY <1>2, SlotAddress
    <3> QED BY <1>3, <2>2, <3>1, <3>3, <3>4
  <2>5. SameSlots(mem, m2, live, slabs)
    BY ZenonT(40), <2>4 DEF SameSlots
  <2> QED BY <1>5, <2>2, <2>3, <2>5
<1>7. CASE o.kind = "slab"
  <2>0. PICK ci \in Classes, p \in Nat : SlabHome(o, ci, p, page_bump, live, slabs)
    BY <1>2, <1>7, SlabObject, ZenonT(40)
  <2>1. /\ o.ptr \in Slots(slabs, ci) /\ o.size + 1 <= ClassSizes[ci] /\ o.ptr \in UsedSlots(live)
        /\ IsPage(p, page_bump) /\ (\A q \in Paged(live) : q.ptr # p)
        /\ \A a \in o.ptr .. o.ptr + o.size - 1 : a \in p .. p + VM_PAGE_SIZE - 1
    BY <2>0, ZenonT(40) DEF SlabHome
  <2>2. \A q \in live : q.kind = "table" => q.ptr # p
    BY <2>1 DEF Paged
  <2>3. ASSUME NEW d \in Classes, NEW y \in Slots(slabs, d)
        PROVE m2[y - 1] = mem[y - 1] /\ (y \notin UsedSlots(live) => m2[y] = mem[y])
    <3>1. y \in Addr /\ y - 1 \in Addr /\ y \in Nat
      BY <1>2, SlotAddress DEF Addr
    <3>2. y # o.ptr => o.ptr + ClassSizes[ci] <= y \/ y + ClassSizes[d] <= o.ptr
      BY <1>2, <2>1, SlotsApart
    <3>3. ClassSizes[ci] \in Nat /\ ClassSizes[d] \in Nat
      BY ClassFacts
    <3>4. y - 1 \notin o.ptr .. o.ptr + o.size - 1 /\ (y # o.ptr => y \notin o.ptr .. o.ptr + o.size - 1)
      BY <1>4, <2>1, <3>1, <3>2, <3>3
    <3> QED BY <1>3, <2>1, <3>1, <3>4
  <2>4. SameSlots(mem, m2, live, slabs)
    BY <2>3 DEF SameSlots
  <2> QED BY <1>5, <2>1, <2>2, <2>4
<1>8. CASE o.kind = "heap"
  <2> DEFINE h == LastWord(heap_end)
  <2>0. o \in Heaped(live)
    BY <1>8 DEF Heaped
  <2>1. /\ h \in Nat /\ heap_start + 2 <= h /\ h <= MaxHeap /\ h <= MaxAddr /\ heap_end = h + 1
        /\ page_bump = FirstPage \/ h < FirstPage
        /\ HeapOk(mem, live, h)
    BY ZenonT(40), <2>0, HeapInUse
  <2> HIDE DEF h
  <2>2. PICK n, B : Blocks(mem, live, n, B, h)
    BY <2>1 DEF HeapOk
  <2>3. PICK i \in 0 .. n - 1 :
          /\ o.ptr = B[i] + HDR /\ o.size <= mem[B[i]]
          /\ \A a \in o.ptr .. o.ptr + o.size - 1 :
                a \in heap_start .. h /\ a >= B[i] + 3 /\ a < B[i] + 3 + mem[B[i]]
    <3>1. live \subseteq Objects /\ o \in live /\ h \in Nat /\ h <= MaxAddr
      BY <1>2, <2>1
    <3> QED BY ONLY SMTT(30), <1>8, <2>2, <3>1, HeapWords
  <2>4. ASSUME NEW j \in 0 .. n - 1
        PROVE m2[B[j]] = mem[B[j]] /\ m2[B[j] + 1] = mem[B[j] + 1] /\ m2[B[j] + 2] = mem[B[j] + 2]
    <3>1. /\ B[j] \in Nat /\ B[j] \in Addr /\ B[j] + 1 \in Addr /\ B[j] + 2 \in Addr /\ mem[B[j]] \in Nat
          /\ B[i] \in Nat /\ mem[B[i]] \in Nat /\ HDR = 3 /\ n \in Nat
      BY <2>1, <2>2, Headers
    <3>2. /\ i < j => B[i] + 3 + mem[B[i]] <= B[j]
          /\ j < i => B[j] + 3 + mem[B[j]] <= B[i]
      BY ZenonT(40), <2>2, <3>1 DEF Blocks
    <3>3. \A a \in o.ptr .. o.ptr + o.size - 1 : a # B[j] /\ a # B[j] + 1 /\ a # B[j] + 2
      <4>1. i < j \/ j < i \/ i = j
        BY <3>1
      <4>2. CASE i < j
        BY <2>3, <3>1, <3>2, <4>2
      <4>3. CASE j < i
        BY <2>3, <3>1, <3>2, <4>3
      <4>4. CASE i = j
        BY <2>3, <3>1, <4>4
      <4> QED BY <4>1, <4>2, <4>3, <4>4
    <3> QED BY <1>3, <3>1, <3>3
  <2>5. Blocks(m2, live, n, B, h)
    BY <2>2, <2>4, HeaderFrame
  <2>6. HeapOk(m2, live, h)
    BY <2>5 DEF HeapOk
  <2>7. \A a \in Addr : a \notin heap_start .. h => m2[a] = mem[a]
    BY <1>3, <2>3
  <2> QED BY <1>1, <1>2, <1>3, <2>1, <2>6, <2>7, HeapStep
<1> QED BY <1>4, <1>6, <1>7, <1>8

----------------------------------------------------------------------------
(* The first state, and where the objects are.                             *)

\* After kalloc_init the heap is one free block of size 0, which the first
\* allocation overwrites.
LEMMA EmptyHeap ==
  ASSUME NEW m, m[heap_start] = 0, m[heap_start + 1] = 1, m[heap_start + 2] = 0
  PROVE HeapOk(m, {}, heap_start + 2)
<1> DEFINE B == [i \in 0 .. 1 |-> IF i = 0 THEN heap_start ELSE NULL]
<1>1. heap_start \in Nat /\ HDR = 3 /\ NULL = 0
  BY Layout DEF HDR, NULL
<1>2. B \in [0 .. 1 -> Int] /\ B[0] = heap_start /\ B[1] = NULL
  BY <1>1
<1>3. \A i \in 0 .. 1 - 1 : i = 0
  OBVIOUS
<1>4. Heaped({}) = {}
  BY DEF Heaped
<1> HIDE DEF B
<1>5. Blocks(m, {}, 1, B, heap_start + 2)
  BY <1>1, <1>2, <1>3, <1>4 DEF Blocks
<1> QED BY <1>5 DEF HeapOk

\* The first state: vm_init has filled the static tables, kalloc_init has made the
\* heap's first block, no page is taken.
LEMMA InitInv == Init => Inv
<1> SUFFICES ASSUME Init PROVE Inv
  OBVIOUS
<1>1. /\ page_bump = FirstPage /\ heap_end = heap_start /\ free_lists = [ci \in Classes |-> NULL]
      /\ mem = [a \in Addr |-> IF a < kernel_pd(PDS) THEN vm_map_identity_2m(a)
                               ELSE IF a = heap_start + 1 THEN 1
                               ELSE IF a \in {heap_start, heap_start + 2} THEN 0 ELSE -1]
      /\ mapped = [v \in {} |-> 0] /\ live = {} /\ slabs = {} /\ uses \in Uses
  BY DEF Init
<1>2. /\ FirstPage \in Nat /\ FirstPage % VM_PAGE_SIZE = 0 /\ FirstPage >= kernel_pd(PDS) /\ kernel_pd(PDS) \in Nat
      /\ heap_start \in Nat /\ heap_start >= kernel_pd(PDS) /\ heap_start # 0
      /\ MaxHeap \in Nat /\ MaxHeap <= MaxAddr /\ heap_start + 2 <= MaxHeap /\ MaxAddr \in Nat
  BY Layout, PageFacts
<1>3. LastBump \in Nat /\ LastBump <= MaxAddr + 1 /\ FirstPage <= LastBump
  BY <1>1, LastBumpFacts
<1>4. mem \in [Addr -> Int]
  <2>1. \A a \in Addr : a < kernel_pd(PDS) => vm_map_identity_2m(a) \in Int
    BY IdentityWord
  <2> QED BY <1>1, <2>1
<1>5. free_lists \in [Classes -> Int]
  BY <1>1 DEF NULL
<1>6. PagesOk(page_bump, live, slabs)
  BY <1>1, <1>2, <1>3 DEF PagesOk, Paged
<1>7. Slabbed(live) = {} /\ UsedSlots(live) = {} /\ Heaped(live) = {} /\ \A ci \in Classes : Slots(slabs, ci) = {}
  BY <1>1 DEF Slabbed, UsedSlots, Heaped, Slots
<1>8. SlotsOk(mem, live, slabs)
  BY <1>7 DEF SlotsOk
<1>9. ListsOk(mem, free_lists, live, slabs)
  <2> SUFFICES ASSUME NEW ci \in Classes PROVE ListOk(mem, free_lists, live, slabs, ci)
    BY DEF ListsOk
  <2> DEFINE L == [i \in 0 .. 0 |-> NULL]
  <2>1. L \in [0 .. 0 -> Int] /\ L[0] = NULL /\ free_lists[ci] = L[0]
    BY <1>1 DEF NULL
  <2>2. Slots(slabs, ci) \ UsedSlots(live) = {}
    BY <1>7
  <2> HIDE DEF L
  <2>3. List(mem, free_lists[ci], {}, 0, L)
    BY <2>1 DEF List
  <2> QED BY <2>2, <2>3 DEF ListOk
<1>10. HeapPart(mem, page_bump, live, heap_end)
  <2>1. heap_start \in Addr /\ heap_start + 1 \in Addr /\ heap_start + 2 \in Addr
    BY <1>2 DEF Addr
  <2>2. mem[heap_start] = 0 /\ mem[heap_start + 1] = 1 /\ mem[heap_start + 2] = 0
    BY <1>1, <1>2, <2>1
  <2>3. LastWord(heap_end) = heap_start + 2
    BY <1>1, <1>2 DEF LastWord, HDR
  <2>4. HeapOk(mem, live, LastWord(heap_end))
    BY <1>1, <2>2, <2>3, EmptyHeap
  <2>5. HeapEnd(heap_end)
    BY <1>1, <1>2 DEF HeapEnd
  <2> QED BY <1>1, <1>7, <2>4, <2>5 DEF HeapPart
<1>11. TablesPart(mem, page_bump, live, mapped)
  <2>1. \A a \in Addr : a < kernel_pd(PDS) => mem[a] = vm_map_identity_2m(a)
    BY <1>1
  <2>2. kernel_pd(PDS) <= MaxAddr + 1
    BY <1>2, <1>3
  <2>3. Mapping(mem, page_bump, StaticTables, mapped)
    BY <1>1, <1>2, <1>4, <2>1, <2>2, MappingInit
  <2>4. Owned(StaticTables, live)
    <3> SUFFICES ASSUME NEW k \in DOMAIN StaticTables
                 PROVE StaticTables[k] + VM_PAGE_SIZE <= kernel_pd(PDS)
      BY DEF Owned
    <3>1. k = <<4, 0>> \/ k = <<3, 0>> \/ \E i \in 0 .. PDS - 1 : k = <<2, i>>
      BY DEF StaticTables
    <3>2. VM_PAGE_SIZE \in Nat /\ kernel_pd(0) \in Nat /\ kernel_pd(PDS) \in Nat /\ PDS \in Nat
      BY PageFacts, StaticPlaces
    <3>3. CASE k = <<4, 0>>
      <4>1. StaticTables[k] = kernel_pml4
        BY <3>3 DEF StaticTables
      <4> QED BY <3>2, <4>1, StaticPlaces
    <3>4. CASE k = <<3, 0>>
      <4>1. StaticTables[k] = kernel_pdpt
        BY <3>4 DEF StaticTables
      <4> QED BY <3>2, <4>1, StaticPlaces
    <3>5. CASE \E i \in 0 .. PDS - 1 : k = <<2, i>>
      <4>1. PICK i \in 0 .. PDS - 1 : k = <<2, i>>
        BY <3>5
      <4>2. StaticTables[k] = kernel_pd(i)
        BY <4>1 DEF StaticTables
      <4> QED BY <4>2, StaticPlaces
    <3> QED BY <3>1, <3>3, <3>4, <3>5
  <2> QED BY <2>3, <2>4 DEF TablesPart
<1>12. live \subseteq Objects /\ page_bump <= LastBump
  BY <1>1, <1>3
<1> QED BY <1>1, <1>4, <1>5, <1>6, <1>8, <1>9, <1>10, <1>11, <1>12 DEF Inv, Parts

\* Objects of one kind share no word, nor objects of two.
LEMMA Disjoint == ASSUME Inv PROVE LiveDisjoint
<1>1. /\ live \subseteq Objects
      /\ PagesOk(page_bump, live, slabs) /\ SlotsOk(mem, live, slabs)
      /\ HeapPart(mem, page_bump, live, heap_end)
  BY DEF Inv, Parts
<1>2. ASSUME NEW o \in live
      PROVE /\ o.ptr \in Nat /\ o.size \in Nat
            /\ o.kind = "heap" \/ o \in Paged(live) \/ o.kind = "slab"
  BY <1>1 DEF Objects, Addr, Paged
<1>3. ASSUME NEW o \in Paged(live)
      PROVE o \in live /\ IsPage(o.ptr, page_bump) /\ Words(o) = o.ptr .. o.ptr + VM_PAGE_SIZE - 1
  BY <1>1 DEF PagesOk, Paged, Words
<1>4. ASSUME NEW o \in live, o.kind = "slab"
      PROVE \E ci \in Classes, p \in Nat : SlabHome(o, ci, p, page_bump, live, slabs)
  BY <1>1, <1>4, SlabObject, ZenonT(40)
<1>5. ASSUME NEW o \in live, NEW p \in live, o.kind # "heap", p.kind = "heap" PROVE Words(o) \cap Words(p) = {}
  <2> DEFINE h == LastWord(heap_end)
  <2>1. h \in Nat /\ h <= MaxAddr /\ HeapOk(mem, live, h) /\ Kept(page_bump, heap_end)
    <3>1. Heaped(live) # {}
      BY <1>5 DEF Heaped
    <3> QED BY ZenonT(40), <3>1, HeapInUse
  <2>2. PICK n, B : Blocks(mem, live, n, B, h)
    BY <2>1 DEF HeapOk
  <2>3. \A a \in Words(p) : a \in heap_start .. h
    BY <1>1, <1>5, <2>1, <2>2, HeapWords DEF Words
  <2>4. PICK q : IsPage(q, page_bump) /\ \A a \in Words(o) : a \in q .. q + VM_PAGE_SIZE - 1
    <3>1. CASE o \in Paged(live)
      BY ZenonT(40), <1>3, <3>1
    <3>2. CASE o.kind = "slab"
      BY <1>4, <3>2 DEF SlabHome, Words
    <3> QED BY <1>2, <1>5, <3>1, <3>2
  <2>5. \A a \in q .. q + VM_PAGE_SIZE - 1 : a \in Addr /\ a > h
    BY <1>1, <2>1, <2>4, PageWords
  <2>6. heap_start \in Nat
    BY Layout
  <2>7. \A a \in Addr : a > h => a \notin heap_start .. h
    BY <2>1, <2>6 DEF Addr
  <2> QED BY <2>3, <2>4, <2>5, <2>7
<1>6. ASSUME NEW o \in live, NEW p \in live, o # p, o.kind = "heap", p.kind = "heap" PROVE Words(o) \cap Words(p) = {}
  <2> DEFINE h == LastWord(heap_end)
  <2>1. h \in Nat /\ h <= MaxAddr /\ HeapOk(mem, live, h)
    <3>1. Heaped(live) # {}
      BY <1>6 DEF Heaped
    <3> QED BY ZenonT(40), <3>1, HeapInUse
  <2> HIDE DEF h
  <2>2. PICK n, B : Blocks(mem, live, n, B, h)
    BY <2>1 DEF HeapOk
  <2>3. PICK i \in 0 .. n - 1 :
          /\ o.ptr = B[i] + HDR
          /\ \A a \in Words(o) : a \in heap_start .. h /\ a >= B[i] + 3 /\ a < B[i] + 3 + mem[B[i]]
    BY <1>1, <1>6, <2>1, <2>2, HeapWords DEF Words
  <2>4. PICK j \in 0 .. n - 1 :
          /\ p.ptr = B[j] + HDR
          /\ \A a \in Words(p) : a \in heap_start .. h /\ a >= B[j] + 3 /\ a < B[j] + 3 + mem[B[j]]
    BY <1>1, <1>6, <2>1, <2>2, HeapWords DEF Words
  <2>5. i # j
    BY <1>6, <2>2, <2>3, <2>4 DEF Blocks, Heaped
  <2>6. n \in Nat /\ B[i] \in Nat /\ B[j] \in Nat /\ mem[B[i]] \in Nat /\ mem[B[j]] \in Nat /\ HDR = 3
    BY <2>1, <2>2, Headers
  <2>7. B[i] + 3 + mem[B[i]] <= B[j] \/ B[j] + 3 + mem[B[j]] <= B[i]
    BY <2>2, <2>5, <2>6 DEF Blocks
  <2>8. heap_start \in Nat
    BY Layout
  <2>9. ASSUME NEW a \in Words(o), a \in Words(p) PROVE FALSE
    BY <2>1, <2>3, <2>4, <2>6, <2>7, <2>8, <2>9
  <2> QED BY <2>9
<1>7. ASSUME NEW o \in live, NEW p \in live, o # p, o \in Paged(live), p \in Paged(live) PROVE Words(o) \cap Words(p) = {}
  <2>1. o.ptr # p.ptr
    BY <1>1, <1>7 DEF PagesOk
  <2> QED BY ZenonT(40), <1>1, <1>3, <1>7, <2>1, PageOnly
<1>8. ASSUME NEW o \in live, NEW p \in live, o \in Paged(live), p.kind = "slab" PROVE Words(o) \cap Words(p) = {}
  <2>1. PICK ci \in Classes, q \in Nat : SlabHome(p, ci, q, page_bump, live, slabs)
    BY <1>4, <1>8
  <2>2. IsPage(q, page_bump) /\ o.ptr # q /\ \A a \in Words(p) : a \in q .. q + VM_PAGE_SIZE - 1
    BY <1>8, <2>1 DEF SlabHome, Words
  <2> QED BY ZenonT(40), <1>1, <1>3, <1>8, <2>2, PageOnly
<1>9. ASSUME NEW o \in live, NEW p \in live, o # p, o.kind = "slab", p.kind = "slab" PROVE Words(o) \cap Words(p) = {}
  <2>1. PICK c \in Classes : o.ptr \in Slots(slabs, c) /\ o.size + 1 <= ClassSizes[c]
    BY <1>4, <1>9 DEF SlabHome
  <2>2. PICK d \in Classes : p.ptr \in Slots(slabs, d) /\ p.size + 1 <= ClassSizes[d]
    BY <1>4, <1>9 DEF SlabHome
  <2>3. o.ptr # p.ptr
    BY <1>1, <1>9 DEF SlotsOk, Slabbed
  <2>4. o.ptr + ClassSizes[c] <= p.ptr \/ p.ptr + ClassSizes[d] <= o.ptr
    BY <1>1, <2>1, <2>2, <2>3, SlotsApart
  <2>5. ClassSizes[c] \in Nat /\ ClassSizes[d] \in Nat
    BY ClassFacts
  <2>6. o.ptr \in Nat /\ o.size \in Nat /\ p.ptr \in Nat /\ p.size \in Nat
    BY <1>2
  <2> QED BY <2>1, <2>2, <2>4, <2>5, <2>6 DEF Words
<1> SUFFICES ASSUME NEW o \in live, NEW p \in live, o # p PROVE Words(o) \cap Words(p) = {}
  BY DEF LiveDisjoint
<1>10. o.kind = "heap" \/ o \in Paged(live) \/ o.kind = "slab"
  BY <1>2
<1>11. p.kind = "heap" \/ p \in Paged(live) \/ p.kind = "slab"
  BY <1>2
<1>12. CASE o.kind = "heap"
  BY <1>5, <1>6, <1>12
<1>13. CASE p.kind = "heap"
  BY <1>5, <1>6, <1>13
<1>14. CASE o.kind # "heap" /\ p.kind # "heap"
  BY <1>7, <1>8, <1>9, <1>10, <1>11, <1>14
<1> QED BY <1>12, <1>13, <1>14

\* Where no page covers the heap every other object lies above it.
LEMMA AboveHeap == ASSUME Inv, Kept(page_bump, heap_end), NEW o \in live, o.kind # "heap" PROVE o.ptr > LastWord(heap_end)
<1>1. /\ live \subseteq Objects
      /\ PagesOk(page_bump, live, slabs) /\ SlotsOk(mem, live, slabs)
      /\ HeapPart(mem, page_bump, live, heap_end)
  BY DEF Inv, Parts
<1>2. o \in Paged(live) \/ o.kind = "slab"
  BY <1>1 DEF Objects, Paged
<1>3. CASE o \in Paged(live)
  <2>1. IsPage(o.ptr, page_bump)
    BY <1>1, <1>3 DEF PagesOk
  <2>2. o.ptr \in o.ptr .. o.ptr + VM_PAGE_SIZE - 1
    BY <1>1, PageFacts DEF Objects, Addr
  <2> QED BY <1>1, <2>1, <2>2, PageWords
<1>4. CASE o.kind = "slab"
  <2>1. PICK ci \in Classes, p \in Nat : SlabHome(o, ci, p, page_bump, live, slabs)
    BY <1>1, <1>4, SlabObject, ZenonT(40)
  <2>2. IsPage(p, page_bump) /\ o.ptr \in p .. p + VM_PAGE_SIZE - 1
    BY <2>1 DEF SlabHome
  <2> QED BY <1>1, <2>2, PageWords
<1> QED BY <1>2, <1>3, <1>4

----------------------------------------------------------------------------
(* What walking the heap's list meets.                                     *)

INSTANCE WellFoundedInduction

\* A set of numbers has a least one.
LEMMA LeastNat == ASSUME NEW T \in SUBSET Nat, T # {}
  PROVE \E m \in T : \A k \in T : m <= k
<1>1. PICK m \in T : \A k \in T : <<k, m>> \notin OpToRel(<, Nat)
  BY Zenon, WFMin, NatLessThanWellFounded
<1>2. \A k \in T : ~(k < m)
  BY Zenon, <1>1 DEF OpToRel
<1> QED BY <1>2

\* Walking the heap's list meets its blocks in order, and then NULL.
LEMMA BlockList == ASSUME NEW lv, NEW n, NEW B, NEW h, Blocks(mem, lv, n, B, h)
  PROVE \A i \in Nat : Block[i] = IF i <= n THEN B[i] ELSE NULL
<1> DEFINE Body(g, i) == IF i = 0 THEN heap_start
                         ELSE IF g[i - 1] = NULL \/ mem[g[i - 1]] = 0 THEN NULL ELSE mem[g[i - 1] + 2]
           f == [i \in Nat |-> IF i <= n THEN B[i] ELSE NULL]
<1>1. Block = CHOOSE g : g = [i \in Nat |-> Body(g, i)]
  BY DEF Block
<1>2. /\ n \in Nat \ {0} /\ B \in [0 .. n -> Int] /\ B[0] = heap_start /\ B[n] = NULL
      /\ \A i \in 0 .. n - 1 : B[i] # NULL /\ mem[B[i] + 2] = B[i + 1] /\ (mem[B[i]] = 0 => i + 1 = n)
  BY Layout DEF Blocks, NULL
<1>3. ASSUME NEW i \in Nat PROVE f[i] = Body(f, i)
  <2>1. CASE i = 0
    BY <1>2, <2>1
  <2>2. CASE i # 0
    <3>1. i - 1 \in Nat /\ (i - 1) + 1 = i
      BY <2>2
    <3>2. CASE i <= n
      <4>1. i - 1 \in 0 .. n - 1
        BY <1>2, <3>1, <3>2
      <4>2. /\ f[i] = B[i] /\ f[i - 1] = B[i - 1] /\ B[i - 1] # NULL /\ mem[B[i - 1] + 2] = B[i]
            /\ (mem[B[i - 1]] = 0 => B[i] = NULL)
        BY <1>2, <3>1, <3>2, <4>1
      <4> QED BY <2>2, <4>2
    <3>3. CASE i = n + 1
      <4>1. f[i] = NULL /\ f[i - 1] = B[n] /\ B[n] = NULL
        BY <1>2, <3>1, <3>3
      <4> QED BY <2>2, <4>1
    <3>4. CASE i > n + 1
      <4>1. f[i] = NULL /\ f[i - 1] = NULL
        BY <1>2, <3>1, <3>4
      <4> QED BY <2>2, <4>1
    <3> QED BY <1>2, <3>2, <3>3, <3>4
  <2> QED BY <2>1, <2>2
<1>4. f = [i \in Nat |-> Body(f, i)]
  BY <1>3, Zenon
<1>5. Block = [i \in Nat |-> Body(Block, i)]
  <2> HIDE DEF f, Body
  <2> QED BY <1>1, <1>4, Zenon
<1>6. \A i \in Nat : Block[i] = Body(Block, i) /\ f[i] = Body(f, i)
  <2> HIDE DEF f, Body
  <2> QED BY <1>5, <1>4
<1> DEFINE T == {i \in Nat : Block[i] # f[i]}
<1>7. T = {}
  <2>1. SUFFICES ASSUME T # {} PROVE FALSE
    OBVIOUS
  <2>2. PICK k \in T : \A j \in T : k <= j
    BY Zenon, <2>1, LeastNat
  <2>3. k # 0
    BY ZenonT(40), <1>6
  <2>4. k - 1 \in Nat /\ k - 1 \notin T
    BY <2>2, <2>3
  <2>5. Block[k - 1] = f[k - 1]
    BY <2>4
  <2> HIDE DEF f
  <2>6. Block[k] = f[k]
    BY <1>6, <2>3, <2>5
  <2> QED BY <2>6
<1> QED BY Zenon, <1>7

\* The heap's part of the invariant is what HeapTiled asks for, where no other
\* object lies in the heap.
LEMMA Tiled ==
  ASSUME NEW h \in Nat, HeapOk(mem, live, h),
         live \subseteq [kind : {"page", "table", "slab", "heap"}, ptr : Int, size : Nat],
         \A o \in live : o.kind = "heap" \/ o.ptr > h
  PROVE \A n \in {m \in 0 .. MaxBlocks : Block[m] # NULL /\ BlockSize(Block[m]) # 0} :
            LET b == Block[n]
            IN  /\ Block[n + 1] \in {NULL, b + HDR + BlockSize(b)}
                /\ IsFree(b) <=> \A o \in live : o.ptr # b + HDR
                /\ \A o \in live : o.ptr \in b + HDR .. b + HDR + BlockSize(b) - 1 =>
                      o.ptr = b + HDR /\ o.size <= BlockSize(b)
<1>1. PICK n, B : Blocks(mem, live, n, B, h)
  BY DEF HeapOk
<1>2. \A i \in Nat : Block[i] = IF i <= n THEN B[i] ELSE NULL
  BY <1>1, BlockList
<1>3. /\ n \in Nat \ {0} /\ B \in [0 .. n -> Int] /\ B[n] = NULL
      /\ \A i \in 0 .. n - 1 :
            /\ mem[B[i]] \in Nat /\ B[i] + HDR + mem[B[i]] <= h + 1
            /\ mem[B[i] + 1] \in {0, 1}
            /\ i + 1 < n => B[i + 1] = B[i] + HDR + mem[B[i]]
      /\ \A i, j \in 0 .. n - 1 : i < j => B[i] + HDR + mem[B[i]] <= B[j]
      /\ \A o \in Heaped(live) : \E i \in 0 .. n - 1 :
            o.ptr = B[i] + HDR /\ o.size <= mem[B[i]] /\ mem[B[i] + 1] = 0
      /\ \A i \in 0 .. n - 1 : mem[B[i] + 1] = 0 => \E o \in Heaped(live) : o.ptr = B[i] + HDR
  BY <1>1 DEF Blocks
<1> SUFFICES ASSUME NEW i \in 0 .. MaxBlocks, Block[i] # NULL, BlockSize(Block[i]) # 0
             PROVE  LET b == Block[i]
                    IN  /\ Block[i + 1] \in {NULL, b + HDR + BlockSize(b)}
                        /\ IsFree(b) <=> \A o \in live : o.ptr # b + HDR
                        /\ \A o \in live : o.ptr \in b + HDR .. b + HDR + BlockSize(b) - 1 =>
                              o.ptr = b + HDR /\ o.size <= BlockSize(b)
  OBVIOUS
<1> DEFINE b == B[i]
<1>4. i \in Nat
  BY DEF MaxBlocks
<1>5. i \in 0 .. n - 1 /\ Block[i] = b
  BY <1>2, <1>3, <1>4
<1>6. b \in Int /\ mem[b] \in Nat \ {0} /\ b + HDR + mem[b] <= h + 1 /\ HDR = 3
      /\ mem[b + 1] \in {0, 1}
  BY <1>3, <1>5 DEF BlockSize, HDR
<1>7. Block[i + 1] \in {NULL, b + HDR + mem[b]}
  <2>1. CASE i + 1 < n
    BY <1>2, <1>3, <1>4, <1>5, <2>1
  <2>2. CASE i + 1 = n
    BY ZenonT(40), <1>2, <1>3, <1>4, <1>5, <2>2
  <2> QED BY <1>3, <1>5, <2>1, <2>2
<1>8. ASSUME NEW o \in live, o.ptr \in b + HDR .. b + HDR + mem[b] - 1
      PROVE  o.ptr = b + HDR /\ o.size <= mem[b] /\ mem[b + 1] = 0
  <2>1. o \in Heaped(live) /\ o.ptr \in Int /\ o.size \in Nat
    BY <1>6, <1>8 DEF Heaped
  <2>2. PICK j \in 0 .. n - 1 : o.ptr = B[j] + HDR /\ o.size <= mem[B[j]] /\ mem[B[j] + 1] = 0
    BY <1>3, <2>1
  <2>3. B[j] \in Int /\ mem[B[j]] \in Nat
    BY <1>3
  <2>4. /\ j < i => B[j] + HDR + mem[B[j]] <= b
        /\ i < j => b + HDR + mem[b] <= B[j]
    BY ZenonT(40), <1>3, <1>5
  <2>6. b <= B[j] /\ B[j] <= b + mem[b] - 1
    <3> HIDE DEF b
    <3> QED BY <1>6, <1>8, <2>2, <2>3
  <2>5. j = i
    <3> HIDE DEF b
    <3> QED BY <1>5, <1>6, <2>3, <2>4, <2>6
  <2> QED BY <2>2, <2>5
<1>9. mem[b + 1] = 1 <=> \A o \in live : o.ptr # b + HDR
  <2>1. ASSUME NEW o \in live, o.ptr = b + HDR PROVE mem[b + 1] = 0
    <3>1. o.ptr \in b + HDR .. b + HDR + mem[b] - 1
      BY <1>6, <2>1
    <3> QED BY <1>8, <3>1
  <2>2. mem[b + 1] = 0 => \E o \in live : o.ptr = b + HDR
    BY <1>3, <1>5 DEF Heaped
  <2> QED BY <1>6, <2>1, <2>2
<1> HIDE DEF b
<1> QED BY <1>5, <1>7, <1>8, <1>9 DEF BlockSize, IsFree

----------------------------------------------------------------------------
(* kalloc on the heap.                                                     *)

\* kalloc from the heap: the first block that fits, or a new one.
LEMMA HeapAlloc ==
  ASSUME Inv, RegionsApart', NEW size \in Sizes,
         size > SmallLimit \/ \A ci \in Classes : ~class_for(size, ci),
         heap_reuse(align_up(size, 2), size) \/ heap_extend(align_up(size, 2), size),
         UNCHANGED <<page_bump, free_lists, slabs, mapped, uses>>
  PROVE Inv'
<1> DEFINE s2 == align_up(size, 2)
<1>1. size \in Nat \ {0} /\ s2 \in Nat \ {0} /\ size <= s2
  BY HeapSize
<1>10. heap_start \in Nat \ {0} /\ MaxHeap \in Nat /\ MaxHeap <= MaxAddr /\ MaxAddr \in Nat /\ FirstPage \in Nat /\ HDR = 3
  BY Layout, PageFacts DEF HDR
<1>11. HeapPart(mem, page_bump, live, heap_end) /\ mem \in [Addr -> Int] /\ live \subseteq Objects
  BY DEF Inv, Parts
<1>12. /\ heap_end \in Nat /\ heap_end <= MaxHeap + 1 /\ heap_start <= heap_end
       /\ (heap_end # heap_start => heap_start + 3 <= heap_end)
  BY <1>10, <1>11 DEF HeapPart, HeapEnd
<1>13. heap_end' \in Nat /\ heap_end' >= heap_end /\ heap_end' >= heap_start + 3 /\ heap_end' <= MaxHeap + 1
  <2> HIDE DEF s2
  <2>1. CASE heap_reuse(s2, size)
    <3>1. heap_end' = Higher(heap_end, heap_start + 3)
      BY <1>10, <2>1 DEF heap_reuse
    <3>2. heap_start + 3 <= MaxHeap + 1
      BY Layout
    <3> QED BY <1>10, <1>12, <3>1, <3>2 DEF Higher
  <2>2. CASE heap_extend(s2, size)
    <3>1. PICK new : new \in heap_start .. MaxHeap + 1 - HDR - s2 /\ heap_end' = Higher(heap_end, new + HDR + s2)
      BY ZenonT(40), <2>2 DEF heap_extend
    <3> QED BY <1>1, <1>10, <1>12, <3>1 DEF Higher
  <2> QED BY <2>1, <2>2 DEF s2
<1>14. PICK h \in Nat : /\ heap_start + 2 <= h /\ h <= MaxHeap /\ h <= MaxAddr /\ heap_end' = h + 1
                        /\ page_bump = FirstPage \/ h < FirstPage
  <2>1. page_bump = FirstPage \/ heap_end' <= FirstPage
    BY ZenonT(40) DEF RegionsApart
  <2> QED BY ONLY SMTT(30), <1>13, <2>1, TopWord
<1>15. LastWord(heap_end) \in Nat /\ LastWord(heap_end) <= h
  <2>1. heap_end <= h + 1
    BY ZenonT(40), <1>13, <1>14
  <2> QED BY ZenonT(40), <1>10, <1>12, <1>14, <2>1, LastWordUp
<1>16. Kept(page_bump, heap_end)
  BY <1>10, <1>14, <1>15 DEF Kept
<1>2. mem \in [Addr -> Int] /\ live \subseteq Objects /\ HeapOk(mem, live, h)
  BY <1>11, <1>14, <1>15, <1>16, Wider DEF HeapPart
<1>3. PICK n, B : Blocks(mem, live, n, B, h)
  BY <1>2 DEF HeapOk
<1>4. \A i \in Nat : Block[i] = IF i <= n THEN B[i] ELSE NULL
  BY <1>3, BlockList
<1>5. /\ n \in Nat \ {0} /\ B \in [0 .. n -> Int] /\ B[0] = heap_start /\ B[n] = NULL
      /\ \A i \in 0 .. n - 1 :
              /\ B[i] \in Nat /\ B[i] # NULL /\ B[i] >= heap_start /\ mem[B[i]] \in Nat
              /\ B[i] + 3 + mem[B[i]] <= h + 1
              /\ B[i] \in Addr /\ B[i] + 1 \in Addr /\ B[i] + 2 \in Addr
      /\ \A i, j \in 0 .. n - 1 : i # j => B[i] + 3 <= B[j] \/ B[j] + 3 <= B[i]
      /\ HDR = 3
  BY ONLY SMTT(30), <1>3, <1>14, Headers
<1>6. \A i \in Nat : Block[i] # NULL => i \in 0 .. n - 1 /\ Block[i] = B[i]
  BY <1>4, <1>5
<1>7. heap_start \in Nat \ {0} /\ h \in Nat /\ h <= MaxAddr /\ MaxAddr \in Nat
  BY <1>10, <1>14
<1> HIDE DEF s2
<1>8. CASE heap_reuse(s2, size)
  <2>1. PICK k \in 0 .. MaxBlocks : /\ Fits(k, s2)
                                    /\ mem' = [mem EXCEPT ![Block[k] + 1] = 0]
                                    /\ live' = live \cup {Object("heap", Block[k] + HDR, size)}
    BY Zenon, <1>8 DEF heap_reuse
  <2>2. k \in Nat
    BY DEF MaxBlocks
  <2>3. k \in 0 .. n - 1 /\ Block[k] = B[k] /\ mem[B[k]] # 0 /\ mem[B[k] + 1] = 1 /\ mem[B[k]] >= s2
    BY <1>6, <2>1, <2>2 DEF Fits, BlockSize, IsFree
  <2> DEFINE o == Object("heap", B[k] + HDR, size)
             m2 == [mem EXCEPT ![B[k] + 1] = 0]
             lv2 == live \cup {o}
  <2>4. mem' = m2 /\ live' = lv2
    BY <2>1, <2>3
  <2>5. /\ o.kind = "heap" /\ o.ptr = B[k] + HDR /\ o.size = size /\ (B[k] + HDR \in Addr => o \in Objects)
        /\ Slabbed(lv2) = Slabbed(live) /\ Paged(lv2) = Paged(live)
    BY <1>1, HeapObject
  <2>6. B[k] + HDR \in Addr
    <3>1. B[k] \in Nat /\ mem[B[k]] \in Nat /\ B[k] + 3 + mem[B[k]] <= h + 1 /\ HDR = 3
      BY <1>5, <2>3
    <3> QED BY <1>7, <2>3, <3>1 DEF Addr
  <2>7. m2 \in [Addr -> Int] /\ \A a \in Addr : a \notin heap_start .. h => m2[a] = mem[a]
    BY <1>2, <1>3, <1>14, <2>3, FlagWords
  <2>8. o.size <= mem[B[k]]
    <3>1. mem[B[k]] \in Nat
      BY <1>5, <2>3
    <3> HIDE DEF o
    <3> QED BY <1>1, <2>3, <2>5, <3>1
  <2>9. Blocks(m2, lv2, n, B, h)
    <3> HIDE DEF o
    <3> QED BY ZenonT(40), <1>2, <1>3, <1>14, <2>3, <2>5, <2>8, Reused
  <2>10. HeapOk(m2, lv2, h) /\ lv2 \in SUBSET Objects
    BY <1>2, <2>5, <2>6, <2>9 DEF HeapOk
  <2> HIDE DEF m2, lv2
  <2> QED BY <1>14, <2>4, <2>5, <2>7, <2>10, HeapStep
<1>9. CASE heap_extend(s2, size)
  <2>1. PICK k \in 0 .. MaxBlocks :
          /\ Block[k] # NULL /\ Block[k + 1] = NULL
          /\ LET last == Block[k]
                 new == IF BlockSize(last) = 0 THEN heap_start ELSE last + HDR + BlockSize(last)
             IN  /\ mem' = [mem EXCEPT ![new] = s2, ![new + 1] = 0, ![new + 2] = 0,
                                        ![last + 2] = IF last = new THEN 0 ELSE new]
                 /\ live' = live \cup {Object("heap", new + HDR, size)}
                 /\ heap_end' = Higher(heap_end, new + HDR + s2)
    BY ZenonT(40), <1>9 DEF heap_extend
  <2>2. k \in Nat /\ k + 1 \in Nat
    BY DEF MaxBlocks
  <2>3. k = n - 1 /\ Block[k] = B[n - 1] /\ n - 1 \in 0 .. n - 1
    <3>1. k \in 0 .. n - 1 /\ Block[k] = B[k]
      BY <1>6, <2>1, <2>2
    <3>2. ~(k + 1 < n)
      <4>1. SUFFICES ASSUME k + 1 < n PROVE FALSE
        OBVIOUS
      <4>2. k + 1 \in 0 .. n - 1 /\ k + 1 <= n
        BY <1>5, <2>2, <4>1
      <4>3. Block[k + 1] = B[k + 1] /\ B[k + 1] # NULL
        BY <1>4, <1>5, <2>2, <4>2
      <4> QED BY <2>1, <4>3
    <3>3. n \in Nat \ {0}
      BY <1>5
    <3>4. k = n - 1 /\ n - 1 \in 0 .. n - 1
      BY <3>1, <3>2, <3>3
    <3> QED BY ZenonT(40), <3>1, <3>4
  <2> DEFINE last == Block[k]
             new == IF mem[last] = 0 THEN heap_start ELSE last + HDR + mem[last]
             o == Object("heap", new + HDR, size)
             lv2 == live \cup {o}
             m2 == [mem EXCEPT ![new] = s2, ![new + 1] = 0, ![new + 2] = 0,
                               ![last + 2] = IF last = new THEN 0 ELSE new]
  <2>4. heap_end' = Higher(heap_end, new + HDR + s2) /\ mem' = m2 /\ live' = lv2
    BY <2>1, ZenonT(40) DEF BlockSize
  <2>5. /\ last \in Nat /\ last >= heap_start /\ mem[last] \in Nat /\ last + 3 + mem[last] <= h + 1 /\ last + 2 \in Addr
    <3>1. last = B[n - 1]
      BY <2>3
    <3> HIDE DEF last
    <3> QED BY <1>5, <2>3, <3>1
  <2>6. new \in Nat /\ new >= heap_start /\ (mem[last] # 0 => new > last + 3)
    <3> HIDE DEF last
    <3>1. CASE mem[last] = 0
      <4>1. new = heap_start
        BY <3>1
      <4> QED BY <1>7, <3>1, <4>1
    <3>2. CASE mem[last] # 0
      <4>1. new = last + 3 + mem[last]
        BY <1>5, <3>2
      <4> HIDE DEF new
      <4> QED BY <1>7, <2>5, <3>2, <4>1
    <3> QED BY <3>1, <3>2
  <2>7. new + 3 + s2 <= h + 1
    <3> HIDE DEF new
    <3> QED BY <1>1, <1>5, <1>12, <1>14, <2>4, <2>6 DEF Higher
  <2>8. /\ o.kind = "heap" /\ o.ptr = new + HDR /\ o.size = size /\ (new + HDR \in Addr => o \in Objects)
        /\ Slabbed(lv2) = Slabbed(live) /\ Paged(lv2) = Paged(live)
    <3> HIDE DEF new
    <3> QED BY ZenonT(40), <1>1, HeapObject
  <2>9. new \in Addr /\ new + 1 \in Addr /\ new + 2 \in Addr /\ new + 3 \in Addr
    <3> HIDE DEF new
    <3> QED BY <1>1, <1>7, <2>6, <2>7 DEF Addr
  <2>10. last = new \/ last + 2 < new
    <3>1. mem[last] = 0 => last = new
      <4>1. last = B[n - 1] /\ (mem[last] = 0 => new = heap_start)
        BY <2>3
      <4> HIDE DEF new, last
      <4>2. mem[last] = 0 => n = 1
        BY ZenonT(40), <1>3, <2>3, <4>1 DEF Blocks
      <4>3. mem[last] = 0 => n - 1 = 0
        BY <4>2
      <4> QED BY ZenonT(40), <1>5, <4>1, <4>3
    <3> HIDE DEF new, last
    <3> QED BY <2>5, <2>6, <3>1
  <2> HIDE DEF new, o, last
  <2>11. /\ m2 \in [Addr -> Int]
         /\ m2[new] = s2 /\ m2[new + 1] = 0 /\ m2[new + 2] = 0 /\ (mem[last] # 0 => m2[last + 2] = new)
         /\ \A a \in Addr : a # new /\ a # new + 1 /\ a # new + 2 /\ a # last + 2 => m2[a] = mem[a]
    <3> DEFINE m0 == [mem EXCEPT ![new] = s2, ![new + 1] = 0, ![new + 2] = 0]
               x == IF last = new THEN 0 ELSE new
    <3>1. /\ m0 \in [Addr -> Int] /\ m0[new] = s2 /\ m0[new + 1] = 0 /\ m0[new + 2] = 0
          /\ \A a \in Addr : a # new /\ a # new + 1 /\ a # new + 2 => m0[a] = mem[a]
      BY <1>1, <1>2, <2>6, <2>9
    <3>2. m2 = [m0 EXCEPT ![last + 2] = x]
      OBVIOUS
    <3>3. x \in Int /\ last + 2 \in Addr /\ last \in Nat
      BY <2>5, <2>6
    <3>4. mem[last] # 0 => last # new
      BY <2>5, <2>6
    <3> HIDE DEF m0, m2
    <3>5. m2 \in [Addr -> Int] /\ m2[last + 2] = x /\ \A a \in Addr : a # last + 2 => m2[a] = m0[a]
      BY <3>1, <3>2, <3>3
    <3>6. m2[new] = s2 /\ m2[new + 1] = 0
      BY <2>6, <2>9, <2>10, <3>1, <3>3, <3>5
    <3>7. m2[new + 2] = 0
      BY <2>6, <2>9, <2>10, <3>1, <3>3, <3>5
    <3> QED BY <3>1, <3>4, <3>5, <3>6, <3>7
  <2> HIDE DEF m2
  <2>14. \A a \in Addr : a \notin heap_start .. h => m2[a] = mem[a]
    <3>1. \A a \in Addr : a \notin heap_start .. h => a # new /\ a # new + 1 /\ a # new + 2 /\ a # last + 2
      BY <1>1, <1>7, <2>5, <2>6, <2>7 DEF Addr
    <3> QED BY <2>11, <3>1
  <2>15. o.ptr = new + HDR /\ o.size <= s2 /\ new + HDR + s2 <= h + 1
    BY <1>1, <1>5, <2>7, <2>8
  <2>16. HeapOk(m2, lv2, h)
    <3> HIDE DEF lv2
    <3>1. lv2 = live \cup {o} /\ last = B[n - 1]
      BY <2>3 DEF lv2, last
    <3>2. CASE mem[last] = 0
      <4>1. new = heap_start
        BY <3>2 DEF new
      <4>2. Blocks(m2, lv2, n, B, h)
        BY <1>1, <1>2, <1>3, <2>8, <2>11, <2>15, <3>1, <3>2, <4>1, <1>14, FirstBlock
      <4> QED BY <4>2 DEF HeapOk
    <3>3. CASE mem[last] # 0
      <4>1. new = last + HDR + mem[last]
        BY <3>3 DEF new
      <4>2. \A a \in Addr : a < new /\ a # last + 2 => m2[a] = mem[a]
        <5>1. \A a \in Addr : a < new => a # new /\ a # new + 1 /\ a # new + 2
          BY <2>6 DEF Addr
        <5> QED BY <2>11, <5>1
      <4>4. NewBlock(mem, m2, last, new, s2, o, h)
        BY <1>1, <2>8, <2>11, <2>15, <3>3, <4>1, <4>2 DEF NewBlock
      <4>3. \E j, C : Blocks(m2, lv2, j, C, h)
        BY <1>2, <1>3, <1>14, <3>1, <3>3, <4>4, Appended, ZenonT(40)
      <4> QED BY <4>3 DEF HeapOk
    <3> QED BY <3>2, <3>3
  <2>17. lv2 \in SUBSET Objects
    BY <1>2, <1>5, <2>8, <2>9
  <2> HIDE DEF lv2
  <2> QED BY <1>14, <2>4, <2>8, <2>11, <2>14, <2>16, <2>17, HeapStep
<1> QED BY <1>8, <1>9 DEF s2

----------------------------------------------------------------------------
(* The theorems.                                                           *)

\* Every operation that leaves the heap and the pages apart keeps the invariant.
LEMMA StepInv == ASSUME Inv, RegionsApart', [Next]_vars PROVE Inv'
<1>1. CASE vm_alloc_page
  BY <1>1, AllocPage
<1>2. ASSUME NEW virt \in Virts, NEW phys \in Physes, vm_map_page(virt, phys) PROVE Inv'
  BY <1>2, MapStep
<1>3. ASSUME NEW size \in Sizes, kalloc(size) PROVE Inv'
  <2>1. CASE \E ci \in Classes : slab_alloc(size, ci)
    BY <2>1, SlabAlloc
  <2>2. CASE /\ size > SmallLimit \/ \A ci \in Classes : ~class_for(size, ci)
             /\ heap_reuse(align_up(size, 2), size) \/ heap_extend(align_up(size, 2), size)
             /\ UNCHANGED <<page_bump, free_lists, slabs, mapped, uses>>
    BY <2>2, HeapAlloc
  <2> QED BY <1>3, <2>1, <2>2 DEF kalloc
<1>4. ASSUME NEW o \in live, kfree(o) PROVE Inv'
  BY <1>4, Free
<1>5. ASSUME NEW o \in live, NEW w \in Fills, ClientWrite(o, w) PROVE Inv'
  BY <1>5, Write
<1>6. CASE UNCHANGED vars
  BY <1>6 DEF vars, Inv, LastBump
<1> QED BY <1>1, <1>2, <1>3, <1>4, <1>5, <1>6 DEF Next

\* The bump pointers only grow, so the heap and the pages meet at most once: a state
\* that has them apart has had them apart since the boot.
THEOREM RegionsMeetOnce == Spec => [][~RegionsApart => ~RegionsApart']_vars
<1>1. Init => Bumps
  BY InitBumps
<1>2. Bumps /\ [Next]_vars => Bumps'
  BY BumpStep
<1>3. Bumps /\ [Next]_vars => [~RegionsApart => ~RegionsApart']_vars
  BY StayMet
<1> QED BY <1>1, <1>2, <1>3, PTL DEF Spec

\* The invariant of the allocators and the tables holds until the heap and the pages
\* meet; the bump pointer stays above the pages handed out even then.
THEOREM MemoryInvariant == Spec => [](Bumps /\ (RegionsApart => Inv))
<1>1. Init => Bumps /\ (RegionsApart => Inv)
  BY InitBumps, InitInv
<1>2. Bumps /\ (RegionsApart => Inv) /\ [Next]_vars => (Bumps /\ (RegionsApart => Inv))'
  <2> SUFFICES ASSUME Bumps, RegionsApart => Inv, [Next]_vars PROVE Bumps' /\ (RegionsApart' => Inv')
    OBVIOUS
  <2>1. Bumps'
    BY BumpStep
  <2>2. ASSUME RegionsApart' PROVE Inv'
    <3>1. RegionsApart
      BY <2>2, StayMet
    <3> QED BY <2>2, <3>1, StepInv
  <2> QED BY <2>1, <2>2
<1> QED BY <1>1, <1>2, PTL DEF Spec

\* The bump pointer stays a page boundary.  Until the heap and the pages meet, the
\* memory, the lists and the objects keep their types: a free list starts in memory or
\* is empty.
THEOREM MemoryTypes == Spec => []TypeOK
<1>1. Bumps /\ (RegionsApart => Inv) => TypeOK
  <2> SUFFICES ASSUME Bumps, RegionsApart, Inv
               PROVE /\ mem \in [Addr -> Int]
                     /\ free_lists \in [Classes -> Addr \cup {NULL}]
                     /\ live \subseteq [kind : {"page", "table", "slab", "heap"}, ptr : Addr, size : Nat]
    BY DEF TypeOK, Bumps
  <2>1. /\ mem \in [Addr -> Int] /\ free_lists \in [Classes -> Int] /\ live \subseteq Objects
        /\ PagesOk(page_bump, live, slabs) /\ ListsOk(mem, free_lists, live, slabs)
    BY DEF Inv, Parts
  <2>3. ASSUME NEW ci \in Classes PROVE free_lists[ci] \in Addr \cup {NULL}
    <3>1. PICK n, L : List(mem, free_lists[ci], Slots(slabs, ci) \ UsedSlots(live), n, L)
      BY ZenonT(40), <2>1 DEF ListsOk, ListOk
    <3>2. n \in Nat /\ free_lists[ci] = L[0] /\ (n = 0 => L[0] = NULL) /\ (0 \in 0 .. n - 1 => L[0] \in Slots(slabs, ci))
      BY <3>1 DEF List
    <3>3. CASE n = 0
      BY <3>2, <3>3
    <3>4. CASE n # 0
      <4>1. L[0] \in Slots(slabs, ci)
        BY <3>2, <3>4
      <4> QED BY <2>1, <3>2, <4>1, SlotAddress
    <3> QED BY <3>3, <3>4
  <2>4. free_lists \in [Classes -> Addr \cup {NULL}]
    BY <2>1, <2>3
  <2> QED BY <2>1, <2>4 DEF Objects
<1> QED BY <1>1, MemoryInvariant, PTL

\* Until the heap and the pages meet, vm_virt_to_phys returns what vm_map_page was last
\* told, for every address and any number of tables; allocations, frees and client
\* writes break no translation.
THEOREM MappingsKept == Spec => []TranslatesAsMapped
<1>1. (RegionsApart => Inv) => TranslatesAsMapped
  BY Translation DEF Inv, Parts, TablesPart, Mapping, TranslatesAsMapped
<1> QED BY <1>1, MemoryInvariant, PTL

\* vm_alloc_page returns no page twice.  Until the heap and the pages meet, no two live
\* objects share a word, whichever allocators they come from.
THEOREM ObjectsStayApart == Spec => []ObjectsApart
<1>1. Bumps /\ (RegionsApart => Inv) => ObjectsApart
  BY Disjoint DEF Bumps, ObjectsApart
<1> QED BY <1>1, MemoryInvariant, PTL

\* Until the heap and the pages meet, the blocks of the heap cover it without gaps or
\* overlaps, and the blocks in use are those of the live objects.
THEOREM HeapKeptTiled == Spec => []HeapTiled
<1>1. (RegionsApart => Inv) => HeapTiled
  <2> SUFFICES ASSUME Inv, RegionsApart, heap_end > heap_start PROVE HeapTiled
    BY DEF HeapTiled
  <2>0. HeapPart(mem, page_bump, live, heap_end)
    BY DEF Inv, Parts
  <2>1. Kept(page_bump, heap_end)
    <3>1. heap_start \in Nat /\ FirstPage \in Nat /\ heap_end \in Nat
      BY <2>0, Layout DEF HeapPart, HeapEnd
    <3> QED BY <3>1 DEF RegionsApart, Kept, LastWord
  <2>2. HeapOk(mem, live, LastWord(heap_end)) /\ LastWord(heap_end) \in Nat
    BY <2>0, <2>1, HeapFacts DEF HeapPart
  <2>3. live \subseteq [kind : {"page", "table", "slab", "heap"}, ptr : Int, size : Nat]
    BY DEF Inv, Objects, Addr
  <2>4. \A o \in live : o.kind = "heap" \/ o.ptr > LastWord(heap_end)
    BY <2>1, AboveHeap
  <2> QED BY <2>2, <2>3, <2>4, Tiled DEF HeapTiled
<1> QED BY <1>1, MemoryInvariant, PTL

----------------------------------------------------------------------------
(* What walking a free list meets.                                         *)

\* Walking a free list meets its objects in order, and then NULL.
LEMMA Nodes == ASSUME NEW ci, NEW free, 0 \notin free, NEW n, NEW L, List(mem, free_lists[ci], free, n, L)
  PROVE \A i \in Nat : FreeNode(ci)[i] = IF i <= n THEN L[i] ELSE NULL
<1> DEFINE Body(g, i) == IF i = 0 THEN free_lists[ci]
                         ELSE IF g[i - 1] = NULL THEN NULL ELSE mem[g[i - 1]]
           f == [i \in Nat |-> IF i <= n THEN L[i] ELSE NULL]
           node == FreeNode(ci)
<1>1. node = CHOOSE g : g = [i \in Nat |-> Body(g, i)]
  BY DEF FreeNode
<1>2. n \in Nat /\ L \in [0 .. n -> Int] /\ free_lists[ci] = L[0] /\ L[n] = NULL
      /\ \A i \in 0 .. n - 1 : L[i] # NULL /\ mem[L[i]] = L[i + 1]
  BY DEF List, NULL
<1>3. ASSUME NEW i \in Nat PROVE f[i] = Body(f, i)
  <2>1. CASE i = 0
    BY <1>2, <2>1
  <2>2. CASE i # 0
    <3>1. i - 1 \in Nat /\ (i - 1) + 1 = i
      BY <2>2
    <3>2. CASE i <= n
      <4>1. i - 1 \in 0 .. n - 1
        BY <1>2, <3>1, <3>2
      <4>2. f[i] = L[i] /\ f[i - 1] = L[i - 1] /\ L[i - 1] # NULL /\ mem[L[i - 1]] = L[i]
        BY <1>2, <3>1, <3>2, <4>1
      <4> QED BY <2>2, <4>2
    <3>3. CASE i = n + 1
      <4>1. f[i] = NULL /\ f[i - 1] = L[n] /\ L[n] = NULL
        BY <1>2, <3>1, <3>3
      <4> QED BY <2>2, <4>1
    <3>4. CASE i > n + 1
      <4>1. f[i] = NULL /\ f[i - 1] = NULL
        BY <1>2, <3>1, <3>4
      <4> QED BY <2>2, <4>1
    <3> QED BY <1>2, <3>2, <3>3, <3>4
  <2> QED BY <2>1, <2>2
<1>4. f = [i \in Nat |-> Body(f, i)]
  BY <1>3, ZenonT(40)
<1>5. node = [i \in Nat |-> Body(node, i)]
  <2> HIDE DEF f, Body
  <2> QED BY <1>1, <1>4, ZenonT(40)
<1> HIDE DEF node
<1>6. \A i \in Nat : node[i] = Body(node, i) /\ f[i] = Body(f, i)
  <2> HIDE DEF f, Body
  <2> QED BY <1>5, <1>4
<1> DEFINE T == {i \in Nat : node[i] # f[i]}
<1>7. T = {}
  <2>1. SUFFICES ASSUME T # {} PROVE FALSE
    OBVIOUS
  <2>2. PICK k \in T : \A j \in T : k <= j
    BY ZenonT(40), <2>1, LeastNat
  <2>3. k # 0
    BY ZenonT(40), <1>6
  <2>4. k - 1 \in Nat /\ k - 1 \notin T
    BY <2>2, <2>3
  <2>5. node[k - 1] = f[k - 1]
    BY <2>4
  <2> HIDE DEF f
  <2>6. node[k] = f[k]
    BY <1>6, <2>3, <2>5
  <2> QED BY <2>6
<1>8. \A i \in Nat : node[i] = f[i]
  BY ZenonT(40), <1>7
<1> QED BY <1>8 DEF node

INSTANCE FiniteSetTheorems

\* The slabs' part of the invariant is what SlabsConserved asks for.
LEMMA Conserved ==
  ASSUME PagesOk(page_bump, live, slabs), SlotsOk(mem, live, slabs), ListsOk(mem, free_lists, live, slabs)
  PROVE SlabsConserved
<1> SUFFICES ASSUME NEW ci \in Classes
             PROVE LET used == {o.ptr : o \in {p \in live : p.kind = "slab"}}
                       slots == Cardinality(SlabObjects(ci))
                   IN  /\ {FreeNode(ci)[n] : n \in 0 .. slots - 1} \ {NULL} = SlabObjects(ci) \ used
                       /\ FreeNode(ci)[slots] = NULL
                       /\ \A x \in SlabObjects(ci) : mem[x - 1] = SlabHeader(ci)
  BY DEF SlabsConserved
<1> DEFINE S == Slots(slabs, ci)
           free == S \ UsedSlots(live)
           slots == Cardinality(S)
           node == FreeNode(ci)
<1>1. SlabObjects(ci) = S /\ {o.ptr : o \in {p \in live : p.kind = "slab"}} = UsedSlots(live)
  BY DEF SlabObjects, Slots, UsedSlots, Slabbed
<1>2. PICK n, L : List(mem, free_lists[ci], free, n, L)
  BY DEF ListsOk, ListOk
<1>3. \A x \in S : x \in Addr /\ x # NULL
  BY SlotAddress
<1>4. IsFiniteSet(S) /\ slots \in Nat
  <2>1. S \in SUBSET Addr /\ IsFiniteSet(Addr)
    BY <1>3, FS_Interval, PageFacts DEF Addr
  <2> QED BY <2>1, FS_Subset, FS_CardinalityType
<1>5. n \in Nat /\ L \in [0 .. n -> Int] /\ L[n] = NULL
      /\ (\A i \in 0 .. n - 1 : L[i] \in free)
      /\ (\A i, j \in 0 .. n - 1 : L[i] = L[j] => i = j)
      /\ (\A x \in free : \E i \in 0 .. n - 1 : L[i] = x)
  BY <1>2 DEF List
<1> HIDE DEF S, slots
<1>6. n <= slots
  <2> DEFINE g == [i \in 0 .. n - 1 |-> L[i]]
  <2>1. g \in Injection(0 .. n - 1, S)
    BY <1>5 DEF Injection, IsInjective
  <2>2. Cardinality(0 .. n - 1) <= slots
    BY <1>4, <2>1, FS_Injection DEF slots
  <2>3. Cardinality(0 .. n - 1) = n
    BY <1>5, FS_Interval
  <2> QED BY <2>2, <2>3
<1>7. \A i \in Nat : node[i] = IF i <= n THEN L[i] ELSE NULL
  <2>1. 0 \notin free
    BY <1>3 DEF NULL
  <2> QED BY ZenonT(40), <1>2, <2>1, Nodes
<1> HIDE DEF node
<1>8. node[slots] = NULL
  BY <1>4, <1>5, <1>6, <1>7
<1>9. \A i \in 0 .. slots - 1 : node[i] # NULL => node[i] \in free
  BY <1>4, <1>5, <1>7
<1>10. \A x \in free : \E i \in 0 .. slots - 1 : node[i] = x
  BY <1>4, <1>5, <1>6, <1>7
<1>11. {node[i] : i \in 0 .. slots - 1} \ {NULL} = free
  BY <1>3, <1>9, <1>10
<1>12. \A x \in S : mem[x - 1] = SlabHeader(ci)
  BY DEF SlotsOk, S
<1> QED BY <1>1, <1>8, <1>11, <1>12 DEF node, slots

\* Until the heap and the pages meet, every slot of every slab page is either one live
\* object or on its class's free list, once, for any classes, pages and sequences of
\* kalloc, kfree and writes by the owners of the objects: no slot is lost, and none is
\* handed out twice.
THEOREM SlabMemoryConserved == Spec => []SlabsConserved
<1>1. (RegionsApart => Inv) => SlabsConserved
  BY Conserved DEF Inv, Parts, SlabsConserved
<1> QED BY <1>1, MemoryInvariant, PTL
=============================================================================
