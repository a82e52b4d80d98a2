------------------------- MODULE KernelAllocProofs -------------------------
(***************************************************************************)
(* Proofs about KernelMemory, second part: the invariant is kept by        *)
(* vm_alloc_page, vm_map_page and slab_alloc, and what a change of one     *)
(* block does to the heap.                                                 *)
(*                                                                         *)
(* A free list is a sequence L of objects in which every object's first    *)
(* word is the next one, and the heap a sequence B of blocks in which each *)
(* starts where the one before it ends.  Both are given by their indices,  *)
(* so that an insertion, a removal or an extension is a shift.             *)
(***************************************************************************)
EXTENDS KernelPagesProofs

\* The solver gets more time than by default, as the obligations have long contexts; the
\* steps that are first-order reasoning cite Zenon.
USE SMTT(30), ZenonT(30), SMTT(31)

----------------------------------------------------------------------------
(* What a step leaves alone.                                               *)

\* An object counts for the allocator it comes from.
LEMMA Kinds == ASSUME NEW lv, NEW N, NEW kinds, \A o \in N : o.kind \in kinds
  PROVE /\ "slab" \notin kinds => Slabbed(lv \cup N) = Slabbed(lv) /\ Slabbed(lv \ N) = Slabbed(lv)
        /\ "heap" \notin kinds => Heaped(lv \cup N) = Heaped(lv) /\ Heaped(lv \ N) = Heaped(lv)
        /\ "page" \notin kinds /\ "table" \notin kinds =>
              Paged(lv \cup N) = Paged(lv) /\ Paged(lv \ N) = Paged(lv)
<1>1. ASSUME "slab" \notin kinds PROVE Slabbed(lv \cup N) = Slabbed(lv) /\ Slabbed(lv \ N) = Slabbed(lv)
  BY <1>1, Zenon DEF Slabbed
<1>2. ASSUME "heap" \notin kinds PROVE Heaped(lv \cup N) = Heaped(lv) /\ Heaped(lv \ N) = Heaped(lv)
  BY <1>2, Zenon DEF Heaped
<1>3. ASSUME "page" \notin kinds, "table" \notin kinds
      PROVE Paged(lv \cup N) = Paged(lv) /\ Paged(lv \ N) = Paged(lv)
  BY <1>3, Zenon DEF Paged
<1> QED BY <1>1, <1>2, <1>3

\* m2 has the headers of the slots and the links of the free ones that m has.
SameSlots(m, m2, lv, sl) ==
    \A ci \in Classes : \A x \in Slots(sl, ci) :
        m2[x - 1] = m[x - 1] /\ (x \notin UsedSlots(lv) => m2[x] = m[x])

\* Where the headers and the links of the free slots are kept, and the slab objects
\* are the same, the slabs' part holds.
LEMMA SlabFrame ==
  ASSUME NEW m, NEW m2, NEW fl, NEW lv, NEW lv2, NEW sl, SlotsOk(m, lv, sl), ListsOk(m, fl, lv, sl),
         Slabbed(lv2) = Slabbed(lv), SameSlots(m, m2, lv, sl)
  PROVE SlotsOk(m2, lv2, sl) /\ ListsOk(m2, fl, lv2, sl)
<1> USE DEF SameSlots
<1>1. SlotsOk(m2, lv2, sl)
  BY Zenon DEF SlotsOk
<1>2. UsedSlots(lv2) = UsedSlots(lv)
  BY Zenon DEF UsedSlots
<1>3. ASSUME NEW ci \in Classes PROVE ListOk(m2, fl, lv2, sl, ci)
  <2> DEFINE free == Slots(sl, ci) \ UsedSlots(lv)
  <2>1. PICK n, L : List(m, fl[ci], free, n, L)
    BY Zenon DEF ListsOk, ListOk
  <2>2. \A x \in free : m2[x] = m[x]
    OBVIOUS
  <2> HIDE DEF free
  <2>3. List(m2, fl[ci], free, n, L)
    BY <2>1, <2>2, Zenon DEF List
  <2> QED BY Zenon, <1>2, <2>3 DEF ListOk, free
<1> QED BY <1>1, <1>3 DEF ListsOk

\* Where the headers of the blocks are kept, the heap's part holds.
LEMMA HeaderFrame ==
  ASSUME NEW m, NEW m2, NEW lv, NEW lv2, NEW n, NEW B, NEW h, Blocks(m, lv, n, B, h), Heaped(lv2) = Heaped(lv),
         \A i \in 0 .. n - 1 : m2[B[i]] = m[B[i]] /\ m2[B[i] + 1] = m[B[i] + 1] /\ m2[B[i] + 2] = m[B[i] + 2]
  PROVE Blocks(m2, lv2, n, B, h)
<1>1. n \in Nat \ {0} /\ B \in [0 .. n -> Int] /\ B[0] = heap_start /\ B[n] = NULL
  BY DEF Blocks
<1>2. \A i \in 0 .. n - 1 :
          /\ B[i] >= heap_start /\ m2[B[i]] \in Nat /\ B[i] + HDR + m2[B[i]] <= h + 1
          /\ m2[B[i] + 1] \in {0, 1} /\ m2[B[i] + 2] = B[i + 1]
          /\ m2[B[i]] = 0 => n = 1 /\ m2[B[i] + 1] = 1
          /\ i + 1 < n => B[i + 1] = B[i] + HDR + m2[B[i]]
  BY ZenonT(40) DEF Blocks
<1>3. \A i, j \in 0 .. n - 1 : i < j => B[i] + HDR + m2[B[i]] <= B[j]
  BY DEF Blocks
<1>4. \A o \in Heaped(lv2) : \E i \in 0 .. n - 1 :
          o.ptr = B[i] + HDR /\ o.size <= m2[B[i]] /\ m2[B[i] + 1] = 0
  <2> SUFFICES ASSUME NEW o \in Heaped(lv)
               PROVE \E i \in 0 .. n - 1 : o.ptr = B[i] + HDR /\ o.size <= m2[B[i]] /\ m2[B[i] + 1] = 0
    OBVIOUS
  <2>1. PICK i \in 0 .. n - 1 : o.ptr = B[i] + HDR /\ o.size <= m[B[i]] /\ m[B[i] + 1] = 0
    BY DEF Blocks
  <2> QED BY <2>1
<1>5. \A i \in 0 .. n - 1 : m2[B[i] + 1] = 0 => \E o \in Heaped(lv2) : o.ptr = B[i] + HDR
  BY Zenon DEF Blocks
<1>6. \A o, p \in Heaped(lv2) : o.ptr = p.ptr => o = p
  BY Zenon DEF Blocks
<1> QED BY Zenon, <1>1, <1>2, <1>3, <1>4, <1>5, <1>6 DEF Blocks

\* The headers lie in the heap.
LEMMA HeapFrame ==
  ASSUME NEW m, NEW m2, NEW lv, NEW lv2, NEW h \in Nat, HeapOk(m, lv, h), Heaped(lv2) = Heaped(lv),
         \A a \in heap_start .. h : m2[a] = m[a]
  PROVE HeapOk(m2, lv2, h)
<1>1. PICK n, B : Blocks(m, lv, n, B, h)
  BY DEF HeapOk
<1>2. ASSUME NEW i \in 0 .. n - 1
      PROVE m2[B[i]] = m[B[i]] /\ m2[B[i] + 1] = m[B[i] + 1] /\ m2[B[i] + 2] = m[B[i] + 2]
  <2>1. /\ n \in Nat /\ B \in [0 .. n -> Int] /\ B[i] >= heap_start /\ m[B[i]] \in Nat
        /\ B[i] + HDR + m[B[i]] <= h + 1
    BY <1>1 DEF Blocks
  <2>2. B[i] \in Int /\ heap_start \in Nat /\ h \in Nat
    BY <2>1, Layout
  <2>3. B[i] \in heap_start .. h /\ B[i] + 1 \in heap_start .. h /\ B[i] + 2 \in heap_start .. h
    <3>1. B[i] + 3 + m[B[i]] <= h + 1 /\ m[B[i]] \in Nat
      BY Zenon, <2>1 DEF HDR
    <3>2. \A b \in Int, s, x, w \in Nat : b >= s /\ b + 3 + w <= x + 1 =>
              b \in s .. x /\ b + 1 \in s .. x /\ b + 2 \in s .. x
      BY SMT
    <3> QED BY Zenon, <2>1, <2>2, <3>1, <3>2
  <2> QED BY Zenon, <2>3
<1>3. Blocks(m2, lv2, n, B, h)
  BY <1>1, <1>2, HeaderFrame
<1> QED BY <1>3 DEF HeapOk

\* Where the image and the table pages are kept, the tables' part holds.
LEMMA TablesFrame ==
  ASSUME NEW m, NEW m2 \in [Addr -> Int], NEW bump, NEW bump2 \in Nat, NEW lv, NEW lv2, NEW map,
         TablesPart(m, bump, lv, map), bump <= bump2, bump2 % VM_PAGE_SIZE = 0, bump <= MaxAddr + 1,
         \A o \in lv : o.kind = "table" => o \in lv2,
         \A a \in Addr : a < kernel_pd(PDS) => m2[a] = m[a],
         \A o \in lv : o.kind = "table" => \A a \in o.ptr .. o.ptr + VM_PAGE_SIZE - 1 : m2[a] = m[a]
  PROVE TablesPart(m2, bump2, lv2, map)
<1>1. PICK tab : Mapping(m, bump, tab, map) /\ Owned(tab, lv)
  BY DEF TablesPart
<1>2. ASSUME NEW k \in DOMAIN tab, NEW a \in tab[k] .. tab[k] + VM_PAGE_SIZE - 1 PROVE m2[a] = m[a]
  <2>1. tab[k] \in Nat \ {0} /\ tab[k] + VM_PAGE_SIZE <= bump /\ bump \in Nat
    BY <1>1 DEF Mapping, Tables
  <2>2. VM_PAGE_SIZE \in Nat /\ kernel_pd(PDS) \in Nat /\ MaxAddr \in Nat
    BY PageFacts, Layout
  <2>3. CASE tab[k] + VM_PAGE_SIZE <= kernel_pd(PDS)
    <3>1. a \in Addr /\ a < kernel_pd(PDS)
      BY <2>1, <2>2, <2>3 DEF Addr
    <3> QED BY <3>1
  <2>4. CASE \E o \in lv : o.kind = "table" /\ o.ptr = tab[k]
    BY <2>4
  <2> QED BY <1>1, <2>3, <2>4 DEF Owned
<1>3. Mapping(m2, bump2, tab, map)
  BY <1>1, <1>2, MappingSame
<1>4. Owned(tab, lv2)
  BY <1>1, Zenon DEF Owned
<1> QED BY <1>3, <1>4 DEF TablesPart

\* N has one object for each of some pages between bump and bump2.
PageObjects(N, bump, bump2) ==
    /\ \A o \in N : /\ o.kind \in {"page", "table"} /\ o.size = VM_PAGE_SIZE
                     /\ o.ptr \in bump .. bump2 - 1 /\ o.ptr % VM_PAGE_SIZE = 0
    /\ \A o, p \in N : o.ptr = p.ptr => o = p

\* New pages, above the bump pointer, belong to nobody else.
LEMMA AddPages ==
  ASSUME NEW bump, NEW lv, NEW sl, PagesOk(bump, lv, sl), NEW bump2 \in Nat, bump2 % VM_PAGE_SIZE = 0,
         bump <= bump2, bump2 <= MaxAddr + 1, NEW N, PageObjects(N, bump, bump2)
  PROVE PagesOk(bump2, lv \cup N, sl)
<1> USE DEF PageObjects
<1>1. bump \in Nat /\ FirstPage \in Nat /\ FirstPage <= bump
  BY Layout DEF PagesOk
<1>2. Paged(lv \cup N) = Paged(lv) \cup N
  BY Zenon DEF Paged
<1>3. \A p : IsPage(p, bump) => IsPage(p, bump2) /\ p < bump /\ p \in Nat
  BY <1>1 DEF IsPage
<1>4. \A o \in N : IsPage(o.ptr, bump2) /\ o.ptr >= bump /\ o.ptr \in Nat
  BY <1>1 DEF IsPage
<1>5. /\ \A o \in Paged(lv) : o.size = VM_PAGE_SIZE /\ IsPage(o.ptr, bump)
      /\ sl \subseteq Nat \X Classes
      /\ \A s \in sl : IsPage(s[1], bump)
      /\ \A o, p \in Paged(lv) : o.ptr = p.ptr => o = p
      /\ \A s, t \in sl : s[1] = t[1] => s = t
      /\ \A o \in Paged(lv), s \in sl : o.ptr # s[1]
  BY DEF PagesOk
<1>6. \A o \in N : \A p : IsPage(p, bump) => o.ptr # p
  BY <1>1, <1>3, <1>4
<1>7. FirstPage <= bump2
  BY <1>1
<1>8. \A o \in Paged(lv) \cup N : o.size = VM_PAGE_SIZE /\ IsPage(o.ptr, bump2)
  BY <1>3, <1>4, <1>5, Zenon
<1>9. \A o, p \in Paged(lv) \cup N : o.ptr = p.ptr => o = p
  BY <1>5, <1>6, Zenon
<1>10. \A o \in Paged(lv) \cup N, s \in sl : o.ptr # s[1]
  BY <1>5, <1>6, Zenon
<1> QED BY Zenon, <1>2, <1>3, <1>5, <1>7, <1>8, <1>9, <1>10 DEF PagesOk

\* A page that refill takes becomes a slab.
LEMMA AddSlab ==
  ASSUME NEW bump, NEW lv, NEW sl, PagesOk(bump, lv, sl), bump + VM_PAGE_SIZE <= MaxAddr + 1, NEW ci \in Classes
  PROVE PagesOk(bump + VM_PAGE_SIZE, lv, sl \cup {<<bump, ci>>})
<1> DEFINE bump2 == bump + VM_PAGE_SIZE
           sl2 == sl \cup {<<bump, ci>>}
<1>1. bump \in Nat /\ bump % VM_PAGE_SIZE = 0 /\ FirstPage \in Nat /\ FirstPage <= bump /\ VM_PAGE_SIZE \in Nat \ {0}
  BY Layout, PageFacts DEF PagesOk
<1>2. bump2 \in Nat /\ bump2 % VM_PAGE_SIZE = 0 /\ FirstPage <= bump2 /\ bump2 <= MaxAddr + 1
  <2>1. bump2 % VM_PAGE_SIZE = 0
    BY <1>1, NextPage, Zenon
  <2> QED BY <1>1, <2>1
<1>3. \A p : IsPage(p, bump) => IsPage(p, bump2) /\ p # bump
  BY <1>1 DEF IsPage
<1>4. IsPage(bump, bump2)
  BY <1>1 DEF IsPage
<1> HIDE DEF bump2
<1>5. /\ \A o \in Paged(lv) : o.size = VM_PAGE_SIZE /\ IsPage(o.ptr, bump)
      /\ sl \subseteq Nat \X Classes
      /\ \A s \in sl : IsPage(s[1], bump)
      /\ \A o, p \in Paged(lv) : o.ptr = p.ptr => o = p
      /\ \A s, t \in sl : s[1] = t[1] => s = t
      /\ \A o \in Paged(lv), s \in sl : o.ptr # s[1]
  BY DEF PagesOk
<1>6. <<bump, ci>>[1] = bump /\ <<bump, ci>> \in Nat \X Classes
  BY <1>1
<1>7. /\ \A o \in Paged(lv) : IsPage(o.ptr, bump2)
      /\ sl2 \subseteq Nat \X Classes
      /\ \A s \in sl2 : IsPage(s[1], bump2)
  BY Zenon, <1>3, <1>4, <1>5, <1>6
<1>8. \A s, t \in sl2 : s[1] = t[1] => s = t
  BY Zenon, <1>3, <1>5, <1>6
<1>9. \A o \in Paged(lv), s \in sl2 : o.ptr # s[1]
  BY Zenon, <1>3, <1>5, <1>6
<1> HIDE DEF sl2
<1>10. PagesOk(bump2, lv, sl2)
  BY Zenon, <1>2, <1>5, <1>7, <1>8, <1>9 DEF PagesOk
<1> QED BY <1>10 DEF bump2, sl2

\* The words of a page are addresses, above the image and, where it is in use, the
\* heap.
LEMMA PageWords ==
  ASSUME NEW m, NEW bump, NEW lv, NEW sl, NEW top, PagesOk(bump, lv, sl), HeapPart(m, bump, lv, top),
         NEW p, IsPage(p, bump), NEW a \in p .. p + VM_PAGE_SIZE - 1
  PROVE a \in Addr /\ a >= kernel_pd(PDS) /\ a < bump /\ (Kept(bump, top) => a > LastWord(top))
<1>1. p \in Nat /\ p + VM_PAGE_SIZE <= bump /\ p >= FirstPage
  BY PageEnd
<1>2. /\ bump \in Nat /\ bump <= MaxAddr + 1 /\ VM_PAGE_SIZE \in Nat \ {0} /\ MaxAddr \in Nat /\ FirstPage \in Nat
      /\ FirstPage >= kernel_pd(PDS) /\ kernel_pd(PDS) \in Nat \ {0}
  BY Layout, PageFacts DEF PagesOk
<1>3. LastWord(top) \in Nat
  BY Zenon, HeapFacts
<1>4. bump # FirstPage
  BY <1>1, <1>2
<1>5. Kept(bump, top) => LastWord(top) < FirstPage
  BY <1>4 DEF Kept
<1> HIDE DEF LastWord, Kept
<1> QED BY <1>1, <1>2, <1>3, <1>5 DEF Addr

\* A word of one page is in no other.
LEMMA PageOnly ==
  ASSUME NEW bump, NEW lv, NEW sl, PagesOk(bump, lv, sl), NEW p, IsPage(p, bump), NEW q, IsPage(q, bump), p # q,
         NEW a \in p .. p + VM_PAGE_SIZE - 1
  PROVE a \notin q .. q + VM_PAGE_SIZE - 1
<1>1. p \in Nat /\ q \in Nat /\ p % VM_PAGE_SIZE = 0 /\ q % VM_PAGE_SIZE = 0 /\ VM_PAGE_SIZE \in Nat
  BY PageEnd, PageFacts
<1>2. p + VM_PAGE_SIZE <= q \/ q + VM_PAGE_SIZE <= p
  BY <1>1, PagesApart
<1> QED BY <1>1, <1>2

\* The header and the link of a slot are words of a page that is no object's.
LEMMA SlotWords ==
  ASSUME NEW bump, NEW lv, NEW sl, PagesOk(bump, lv, sl), NEW ci \in Classes, NEW x \in Slots(sl, ci)
  PROVE \E s \in sl : /\ IsPage(s[1], bump)
                      /\ \A a \in x - 1 .. x - 1 + ClassSizes[ci] - 1 : a \in s[1] .. s[1] + VM_PAGE_SIZE - 1
                      /\ x - 1 \in s[1] .. s[1] + VM_PAGE_SIZE - 1
                      /\ x \in s[1] .. s[1] + VM_PAGE_SIZE - 1
<1>1. PICK s \in sl, k \in 0 .. SlotsPerPage(ci) - 1 : InSlab(x, ci, s, k, bump)
  BY Zenon, SlotOf
<1>2. ClassSizes[ci] \in Nat /\ ClassSizes[ci] >= 2 /\ VM_PAGE_SIZE \in Nat
  BY ClassFacts, PageFacts
<1>3. s[1] \in Nat /\ x \in Nat /\ s[1] <= x - 1 /\ x - 1 + ClassSizes[ci] <= s[1] + VM_PAGE_SIZE
  BY <1>1 DEF InSlab
<1>4. IsPage(s[1], bump)
  BY DEF PagesOk
<1>5. /\ \A a \in x - 1 .. x - 1 + ClassSizes[ci] - 1 : a \in s[1] .. s[1] + VM_PAGE_SIZE - 1
      /\ x - 1 \in s[1] .. s[1] + VM_PAGE_SIZE - 1
      /\ x \in s[1] .. s[1] + VM_PAGE_SIZE - 1
  BY <1>2, <1>3
<1> QED BY <1>4, <1>5

\* Writing above the bump pointer keeps every part.
LEMMA AboveBump ==
  ASSUME NEW m, NEW m2 \in [Addr -> Int], NEW bump, NEW bump2 \in Nat, NEW fl, NEW lv, NEW lv2, NEW sl, NEW top, NEW map,
         Parts(m, bump, fl, lv, sl, map, top),
         bump < bump2, bump2 % VM_PAGE_SIZE = 0, top <= FirstPage,
         \A o \in lv : o.kind = "table" => o \in lv2,
         \A a \in Addr : a < bump => m2[a] = m[a]
  PROVE /\ Slabbed(lv2) = Slabbed(lv) => SlotsOk(m2, lv2, sl) /\ ListsOk(m2, fl, lv2, sl)
        /\ Heaped(lv2) = Heaped(lv) => HeapPart(m2, bump2, lv2, top)
        /\ TablesPart(m2, bump2, lv2, map)
<1> USE DEF Parts
<1>1. ASSUME NEW p, IsPage(p, bump), NEW a \in p .. p + VM_PAGE_SIZE - 1 PROVE m2[a] = m[a]
  <2>1. a \in Addr /\ a < bump
    BY <1>1, PageWords
  <2> QED BY <2>1
<1>2. ASSUME Slabbed(lv2) = Slabbed(lv) PROVE SlotsOk(m2, lv2, sl) /\ ListsOk(m2, fl, lv2, sl)
  <2>1. ASSUME NEW ci \in Classes, NEW x \in Slots(sl, ci) PROVE m2[x - 1] = m[x - 1] /\ m2[x] = m[x]
    <3>1. PICK s \in sl : /\ IsPage(s[1], bump)
                          /\ x - 1 \in s[1] .. s[1] + VM_PAGE_SIZE - 1
                          /\ x \in s[1] .. s[1] + VM_PAGE_SIZE - 1
      BY SlotWords, ZenonT(40)
    <3> QED BY <1>1, <3>1
  <2>2. SameSlots(m, m2, lv, sl)
    BY Zenon, <2>1 DEF SameSlots
  <2> QED BY <1>2, <2>2, SlabFrame, Zenon
<1>3. FirstPage <= bump /\ bump \in Nat /\ FirstPage \in Nat /\ bump <= MaxAddr + 1
      /\ heap_start \in Nat \ {0} /\ kernel_pd(PDS) <= FirstPage /\ kernel_pd(PDS) \in Nat /\ MaxAddr \in Nat
  BY Layout, PageFacts DEF PagesOk
<1>4. ASSUME Heaped(lv2) = Heaped(lv) PROVE HeapPart(m2, bump2, lv2, top)
  <2> DEFINE h == LastWord(top)
  <2>1. h \in Nat /\ h <= MaxAddr
    BY Zenon, HeapFacts
  <2>2. HeapEnd(top) /\ (top = heap_start => Heaped(lv2) = {})
    BY Zenon, <1>4 DEF HeapPart
  <2>3. ASSUME Kept(bump2, top) PROVE HeapOk(m2, lv2, h)
    <3>1. bump2 # FirstPage
      BY <1>3
    <3>2. Kept(bump, top) /\ h < FirstPage
      BY Zenon, <2>3, <3>1 DEF Kept
    <3>3. HeapOk(m, lv, h)
      BY Zenon, <3>2 DEF HeapPart
    <3>4. \A a \in heap_start .. h : m2[a] = m[a]
      <4> HIDE DEF h
      <4>1. \A a \in heap_start .. h : a \in Addr /\ a < bump
        BY <1>3, <2>1, <3>2 DEF Addr
      <4> QED BY <4>1
    <3> HIDE DEF h
    <3> QED BY Zenon, <1>4, <2>1, <3>3, <3>4, HeapFrame
  <2> QED BY Zenon, <2>2, <2>3 DEF HeapPart
<1>5. TablesPart(m2, bump2, lv2, map)
  <2>1. \A a \in Addr : a < kernel_pd(PDS) => m2[a] = m[a]
    <3>1. \A a \in Addr : a < kernel_pd(PDS) => a < bump
      BY <1>3 DEF Addr
    <3> QED BY <3>1
  <2>2. ASSUME NEW o \in lv, o.kind = "table", NEW a \in o.ptr .. o.ptr + VM_PAGE_SIZE - 1 PROVE m2[a] = m[a]
    <3>1. o \in Paged(lv)
      BY <2>2 DEF Paged
    <3>2. IsPage(o.ptr, bump)
      BY <3>1 DEF PagesOk
    <3> QED BY <1>1, <3>2
  <2>3. bump <= MaxAddr + 1 /\ bump <= bump2
    BY <1>3
  <2> QED BY <2>1, <2>2, <2>3, TablesFrame
<1> QED BY <1>2, <1>4, <1>5

----------------------------------------------------------------------------
(* The steps.                                                              *)

\* vm_alloc_page takes the page at the bump pointer.
LEMMA AllocPage == ASSUME Inv, RegionsApart', vm_alloc_page PROVE Inv'
<1> DEFINE o == Object("page", page_bump, VM_PAGE_SIZE)
<1>1. /\ mem' = Zeroed(mem, page_bump) /\ live' = live \cup {o} /\ page_bump' = page_bump + VM_PAGE_SIZE
      /\ free_lists' = free_lists /\ slabs' = slabs /\ mapped' = mapped /\ uses' = uses
      /\ page_bump < LastBump /\ heap_end' = heap_end
  BY DEF vm_alloc_page, PageLeft
<1>2. /\ o.kind = "page" /\ o.ptr = page_bump /\ o.size = VM_PAGE_SIZE
  BY DEF Object
<1>3. /\ page_bump \in Nat /\ page_bump % VM_PAGE_SIZE = 0 /\ FirstPage <= page_bump /\ FirstPage \in Nat
      /\ kernel_pd(PDS) <= FirstPage /\ kernel_pd(PDS) \in Nat \ {0} /\ VM_PAGE_SIZE \in Nat \ {0} /\ MaxAddr \in Nat
      /\ LastBump \in Nat /\ LastBump % VM_PAGE_SIZE = 0 /\ LastBump <= MaxAddr + 1
  BY Layout, PageFacts, LastBumpFacts DEF Inv, Parts, PagesOk
<1>4. page_bump + VM_PAGE_SIZE <= LastBump
  BY Zenon, <1>1, <1>3, Apart
<1>5. (page_bump + VM_PAGE_SIZE) % VM_PAGE_SIZE = 0 /\ page_bump + VM_PAGE_SIZE \in Nat
      /\ page_bump + VM_PAGE_SIZE <= MaxAddr + 1 /\ page_bump < page_bump + VM_PAGE_SIZE
      /\ page_bump <= page_bump + VM_PAGE_SIZE
  <2>1. (page_bump + VM_PAGE_SIZE) % VM_PAGE_SIZE = 0
    BY <1>3, NextPage, Zenon
  <2> QED BY <1>3, <1>4, <2>1
<1>6. /\ mem' \in [Addr -> Int] /\ \A a \in Addr : a < page_bump => mem'[a] = mem[a]
  <2>1. mem \in [Addr -> Int]
    BY DEF Inv
  <2>2. \A a \in Addr : a \in Int
    BY DEF Addr
  <2> QED BY <1>1, <1>3, <2>1, <2>2 DEF Zeroed
<1>7. o \in Objects
  BY ONLY SMTT(30), <1>1, <1>3, <1>5 DEF Objects, Object, Addr
<1>8. mem' \in [Addr -> Int] /\ free_lists' \in [Classes -> Int] /\ live' \subseteq Objects
      /\ uses' \in Uses /\ page_bump' <= LastBump'
  BY <1>1, <1>4, <1>6, <1>7 DEF Inv, LastBump
<1>9. PagesOk(page_bump', live', slabs')
  <2> HIDE DEF o
  <2>1. PageObjects({o}, page_bump, page_bump + VM_PAGE_SIZE)
    BY <1>2, <1>3 DEF PageObjects
  <2>2. PagesOk(page_bump, live, slabs)
    BY DEF Inv, Parts
  <2>3. PagesOk(page_bump + VM_PAGE_SIZE, live \cup {o}, slabs)
    BY <1>5, <2>1, <2>2, AddPages, Zenon
  <2> QED BY <1>1, <2>3
<1>10. Slabbed(live') = Slabbed(live) /\ Heaped(live') = Heaped(live)
  <2>1. \A p \in {o} : p.kind \in {"page"}
    BY <1>2
  <2> HIDE DEF o
  <2>2. "slab" \notin {"page"} /\ "heap" \notin {"page"}
    OBVIOUS
  <2> QED BY <1>1, <2>1, <2>2, Kinds, Zenon
<1>11. heap_end <= FirstPage
  BY <1>1, <1>3 DEF RegionsApart
<1>12. /\ SlotsOk(mem', live', slabs) /\ ListsOk(mem', free_lists, live', slabs)
       /\ HeapPart(mem', page_bump + VM_PAGE_SIZE, live', heap_end)
       /\ TablesPart(mem', page_bump + VM_PAGE_SIZE, live', mapped)
  <2>1. \A p \in live : p.kind = "table" => p \in live'
    BY <1>1
  <2> HIDE DEF o
  <2>2. Parts(mem, page_bump, free_lists, live, slabs, mapped, heap_end)
    BY Zenon DEF Inv
  <2> QED BY <1>5, <1>6, <1>10, <1>11, <2>1, <2>2, AboveBump, ZenonT(40)
<1> HIDE DEF o
<1> QED BY <1>1, <1>8, <1>9, <1>12 DEF Inv, Parts

\* vm_map_page takes pages for the tables that it adds, and writes in tables only.
LEMMA MapStep ==
  ASSUME Inv, RegionsApart', NEW virt \in Virts, NEW phys \in Physes, vm_map_page(virt, phys)
  PROVE Inv'
<1> DEFINE done == MapPage(virt, phys)
           N == {Object("table", a, VM_PAGE_SIZE) :
                    a \in {b \in page_bump .. done.bump - 1 : b % VM_PAGE_SIZE = 0}}
           map2 == IF done.ok THEN WithPage(mapped, virt, phys) ELSE mapped
<1>1. /\ mem' = done.mem /\ page_bump' = done.bump /\ live' = live \cup N /\ mapped' = map2
      /\ free_lists' = free_lists /\ slabs' = slabs /\ uses' = uses /\ heap_end' = heap_end
      /\ page_bump + 3 * VM_PAGE_SIZE <= LastBump
  BY DEF vm_map_page, WithPage
<1>2. /\ page_bump \in Nat /\ FirstPage <= page_bump /\ FirstPage \in Nat
      /\ kernel_pd(PDS) <= FirstPage /\ kernel_pd(PDS) \in Nat \ {0} /\ VM_PAGE_SIZE \in Nat \ {0} /\ MaxAddr \in Nat
      /\ LastBump \in Nat /\ LastBump <= MaxAddr + 1
      /\ heap_start \in Nat /\ kernel_pd(PDS) <= heap_start
      /\ page_bump <= MaxAddr + 1
  BY Layout, PageFacts, LastBumpFacts DEF Inv, Parts, PagesOk
<1>3. PICK tab : Mapping(mem, page_bump, tab, mapped) /\ Owned(tab, live)
  BY DEF Inv, Parts, TablesPart
<1>4. page_bump + 3 * VM_PAGE_SIZE <= MaxAddr + 1
  BY <1>1, <1>2
<1>5. PICK tab2 : /\ Mapping(done.mem, done.bump, tab2, map2)
                  /\ Grown(mem, page_bump, tab, done.mem, done.bump, tab2)
                  /\ done.bump <= page_bump + 3 * VM_PAGE_SIZE
  BY <1>3, <1>4, MapPageOk, Zenon
<1> HIDE DEF done, map2
<1>6. /\ done.mem \in [Addr -> Int] /\ done.bump \in Nat /\ done.bump % VM_PAGE_SIZE = 0
      /\ page_bump <= done.bump /\ done.bump <= LastBump /\ done.bump <= MaxAddr + 1
  <2>1. /\ done.mem \in [Addr -> Int] /\ done.bump \in Nat /\ done.bump % VM_PAGE_SIZE = 0 /\ page_bump <= done.bump
    BY <1>5 DEF Mapping, Grown
  <2> QED BY ONLY SMTT(30), <1>1, <1>2, <1>5, <2>1
<1>7. \A o \in N : o.kind = "table" /\ o.ptr \in page_bump .. done.bump - 1 /\ o \in Objects
  <2> SUFFICES ASSUME NEW o \in N
               PROVE o.kind = "table" /\ o.ptr \in page_bump .. done.bump - 1 /\ o \in Objects
    BY Zenon
  <2>1. PICK a \in page_bump .. done.bump - 1 : o = Object("table", a, VM_PAGE_SIZE)
    BY Zenon
  <2>2. a \in Addr
    <3>0. FirstPage \in Nat \ {0}
      BY Zenon, <1>2, Positive
    <3>1. page_bump \in Nat \ {0}
      BY Zenon, <1>2, <3>0, Positive
    <3> QED BY Zenon, <1>2, <1>6, <3>1, WordsBelow DEF Addr
  <2>3. o.kind = "table" /\ o.ptr = a /\ o.size = VM_PAGE_SIZE
    BY Zenon, <2>1 DEF Object
  <2>4. o \in Objects
    BY Zenon, <1>2, <2>1, <2>2 DEF Object, Objects
  <2> QED BY Zenon, <2>3, <2>4
<1>8. PageObjects(N, page_bump, done.bump)
  BY DEF PageObjects, Object
<1>9. ASSUME NEW k \in DOMAIN tab2 \ DOMAIN tab PROVE \E o \in N : o.kind = "table" /\ o.ptr = tab2[k]
  <2>1. tab2[k] \in page_bump .. done.bump - 1 /\ tab2[k] % VM_PAGE_SIZE = 0
    BY Zenon, <1>5 DEF Grown, Mapping, Tables
  <2>2. Object("table", tab2[k], VM_PAGE_SIZE) \in N
    BY Zenon, <2>1
  <2> QED BY Zenon, <2>2 DEF Object
<1> HIDE DEF N
<1>10. mem' \in [Addr -> Int] /\ free_lists' \in [Classes -> Int] /\ live' \subseteq Objects
       /\ uses' \in Uses /\ page_bump' <= LastBump'
  BY Zenon, <1>1, <1>6, <1>7 DEF Inv, LastBump
<1>11. PagesOk(done.bump, live \cup N, slabs)
  <2>1. PagesOk(page_bump, live, slabs)
    BY DEF Inv, Parts
  <2> QED BY <1>6, <1>8, <2>1, AddPages, Zenon
<1>12. Slabbed(live \cup N) = Slabbed(live) /\ Heaped(live \cup N) = Heaped(live)
  <2>1. \A p \in N : p.kind \in {"table"}
    BY <1>7
  <2>2. "slab" \notin {"table"} /\ "heap" \notin {"table"}
    OBVIOUS
  <2> QED BY <2>1, <2>2, Kinds, Zenon
<1>13. ASSUME NEW a \in Addr, a \notin page_bump .. done.bump - 1, a >= kernel_pd(PDS),
              \A o \in live : o.kind = "table" => a \notin o.ptr .. o.ptr + VM_PAGE_SIZE - 1
       PROVE done.mem[a] = mem[a]
  <2>1. a \in Int
    BY DEF Addr
  <2>3. ASSUME NEW k \in DOMAIN tab PROVE a \notin tab[k] .. tab[k] + VM_PAGE_SIZE - 1
    <3>1. tab[k] \in Nat
      BY <1>3 DEF Mapping, Tables
    <3>2. CASE tab[k] + VM_PAGE_SIZE <= kernel_pd(PDS)
      BY <1>2, <1>13, <2>1, <3>1, <3>2
    <3>3. CASE \E o \in live : o.kind = "table" /\ o.ptr = tab[k]
      BY <1>13, <3>3
    <3> QED BY Zenon, <1>3, <3>2, <3>3 DEF Owned
  <2> QED BY <1>5, <1>13, <2>3 DEF Grown
<1>14. SlotsOk(done.mem, live \cup N, slabs) /\ ListsOk(done.mem, free_lists, live \cup N, slabs)
  <2>1. ASSUME NEW p, IsPage(p, page_bump), NEW a \in p .. p + VM_PAGE_SIZE - 1,
               \A o \in Paged(live) : o.ptr # p
        PROVE done.mem[a] = mem[a]
    <3>0. a \in Addr /\ a < page_bump /\ a >= kernel_pd(PDS)
      BY Zenon, <2>1, PageWords DEF Inv, Parts
    <3>1. a \notin page_bump .. done.bump - 1
      <4>1. a \in Int
        BY <3>0 DEF Addr
      <4> QED BY Zenon, <1>2, <1>6, <3>0, <4>1, NotAbove
    <3>2. ASSUME NEW o \in live, o.kind = "table" PROVE a \notin o.ptr .. o.ptr + VM_PAGE_SIZE - 1
      <4>1. o \in Paged(live)
        BY Zenon, <3>2 DEF Paged
      <4>2. IsPage(o.ptr, page_bump) /\ o.ptr # p
        BY Zenon, <2>1, <4>1 DEF Inv, Parts, PagesOk
      <4>3. PagesOk(page_bump, live, slabs)
        BY Zenon DEF Inv, Parts
      <4> QED BY <2>1, <4>2, <4>3, PageOnly, Zenon
    <3> QED BY Zenon, <1>13, <3>0, <3>1, <3>2
  <2>2. ASSUME NEW ci \in Classes, NEW x \in Slots(slabs, ci) PROVE done.mem[x - 1] = mem[x - 1] /\ done.mem[x] = mem[x]
    <3>1. PagesOk(page_bump, live, slabs)
      BY DEF Inv, Parts
    <3>2. PICK s \in slabs : /\ IsPage(s[1], page_bump)
                             /\ x - 1 \in s[1] .. s[1] + VM_PAGE_SIZE - 1
                             /\ x \in s[1] .. s[1] + VM_PAGE_SIZE - 1
      BY <3>1, SlotWords, Zenon
    <3>3. \A o \in Paged(live) : o.ptr # s[1]
      BY <3>1 DEF PagesOk
    <3> QED BY Zenon, <2>1, <3>2, <3>3
  <2>3. SlotsOk(mem, live, slabs) /\ ListsOk(mem, free_lists, live, slabs)
    BY Zenon DEF Inv, Parts
  <2>4. SameSlots(mem, done.mem, live, slabs)
    BY Zenon, <2>2 DEF SameSlots
  <2> QED BY <1>12, <2>3, <2>4, SlabFrame, Zenon
<1>15. HeapPart(done.mem, done.bump, live \cup N, heap_end)
  <2> DEFINE h == LastWord(heap_end)
  <2>1. HeapPart(mem, page_bump, live, heap_end)
    BY Zenon DEF Inv, Parts
  <2>2. h \in Nat /\ h <= MaxAddr
    BY Zenon, <2>1, HeapFacts
  <2>3. HeapEnd(heap_end) /\ (heap_end = heap_start => Heaped(live \cup N) = {})
    BY Zenon, <1>12, <2>1 DEF HeapPart
  <2>4. done.bump = FirstPage \/ heap_end <= FirstPage
    BY Zenon, <1>1 DEF RegionsApart
  <2>5. ASSUME Kept(done.bump, heap_end) PROVE HeapOk(done.mem, live \cup N, h)
    <3>1. (done.bump = FirstPage /\ page_bump = FirstPage) \/ h < FirstPage
      BY <1>2, <1>6, <2>5 DEF Kept
    <3>2. HeapOk(mem, live, h)
      BY Zenon, <2>1, <3>1 DEF HeapPart, Kept
    <3> HIDE DEF h
    <3>3. ASSUME NEW a \in heap_start .. h PROVE done.mem[a] = mem[a]
      <4>1. a \in Addr /\ a \in Int /\ a >= kernel_pd(PDS) /\ a \notin FirstPage .. done.bump - 1
        BY <1>2, <1>6, <2>2, <3>1 DEF Addr
      <4>2. a \notin page_bump .. done.bump - 1
        BY <1>2, <1>6, <4>1
      <4>3. ASSUME NEW o \in live, o.kind = "table" PROVE a \notin o.ptr .. o.ptr + VM_PAGE_SIZE - 1
        <5>1. o \in Paged(live)
          BY <4>3 DEF Paged
        <5>2. IsPage(o.ptr, page_bump) /\ PagesOk(page_bump, live, slabs)
          BY Zenon, <5>1 DEF Inv, Parts, PagesOk
        <5>3. o.ptr \in Nat /\ o.ptr + VM_PAGE_SIZE <= page_bump /\ o.ptr >= FirstPage
          BY Zenon, <5>2, PageEnd
        <5> QED BY <1>2, <1>6, <4>1, <5>3
      <4> QED BY Zenon, <1>13, <4>1, <4>2, <4>3
    <3> QED BY Zenon, <1>12, <2>2, <3>2, <3>3, HeapFrame
  <2> QED BY Zenon, <2>3, <2>4, <2>5 DEF HeapPart
<1>16. TablesPart(done.mem, done.bump, live \cup N, map2)
  <2>1. Owned(tab2, live \cup N)
    <3> SUFFICES ASSUME NEW k \in DOMAIN tab2
                 PROVE \/ tab2[k] + VM_PAGE_SIZE <= kernel_pd(PDS)
                       \/ \E o \in live \cup N : o.kind = "table" /\ o.ptr = tab2[k]
      BY DEF Owned
    <3>1. CASE k \in DOMAIN tab
      <4>1. tab2[k] = tab[k]
        BY <1>5, <3>1 DEF Grown
      <4> QED BY Zenon, <1>3, <3>1, <4>1 DEF Owned
    <3>2. CASE k \notin DOMAIN tab
      BY <1>9, <3>2
    <3> QED BY <3>1, <3>2
  <2> QED BY <1>5, <2>1 DEF TablesPart
<1> QED BY ZenonT(40), <1>1, <1>10, <1>11, <1>14, <1>15, <1>16 DEF Inv, Parts

----------------------------------------------------------------------------
(* The free lists.                                                         *)

\* A slab object added or taken away.
LEMMA UsedFacts ==
  ASSUME NEW lv, NEW o, o.kind = "slab"
  PROVE /\ Slabbed(lv \cup {o}) = Slabbed(lv) \cup {o} /\ Slabbed(lv \ {o}) = Slabbed(lv) \ {o}
        /\ UsedSlots(lv \cup {o}) = UsedSlots(lv) \cup {o.ptr}
<1>1. Slabbed(lv \cup {o}) = Slabbed(lv) \cup {o} /\ Slabbed(lv \ {o}) = Slabbed(lv) \ {o}
  BY Zenon DEF Slabbed
<1>2. UsedSlots(lv \cup {o}) = UsedSlots(lv) \cup {o.ptr}
  BY <1>1 DEF UsedSlots
<1> QED BY <1>1, <1>2

\* The list without its first object.
LEMMA ListTail ==
  ASSUME NEW m, NEW h, NEW free, NEW n, NEW L, List(m, h, free, n, L), h # NULL
  PROVE /\ h \in free /\ m[h] \in Int
        /\ \E k, M : List(m, m[h], free \ {h}, k, M)
<1> DEFINE L2 == [i \in 0 .. n - 1 |-> L[i + 1]]
<1>1. /\ n \in Nat /\ L \in [0 .. n -> Int] /\ h = L[0] /\ L[n] = NULL
      /\ \A i \in 0 .. n - 1 : L[i] \in free /\ m[L[i]] = L[i + 1]
      /\ \A i, j \in 0 .. n - 1 : L[i] = L[j] => i = j
      /\ \A x \in free : \E i \in 0 .. n - 1 : L[i] = x
  BY DEF List
<1>2. n # 0 /\ n - 1 \in Nat /\ 0 \in 0 .. n - 1
  BY <1>1
<1>3. h \in free /\ m[h] = L[1] /\ L[1] \in Int
  <2>1. L[0] \in free /\ m[L[0]] = L[0 + 1]
    BY <1>1, <1>2
  <2> QED BY <1>1, <1>2, <2>1
<1>4. L2 \in [0 .. n - 1 -> Int] /\ \A i \in 0 .. n - 1 : L2[i] = L[i + 1]
  BY <1>1, <1>2
<1> HIDE DEF L2
<1>5. m[h] = L2[0] /\ L2[n - 1] = NULL
  BY <1>1, <1>2, <1>3, <1>4
<1>6. ASSUME NEW i \in 0 .. (n - 1) - 1 PROVE L2[i] \in free \ {h} /\ m[L2[i]] = L2[i + 1]
  <2>1. i + 1 \in 0 .. n - 1 /\ i + 1 # 0 /\ i \in 0 .. n - 1
    BY <1>1
  <2>2. L2[i] = L[i + 1] /\ L2[i + 1] = L[(i + 1) + 1]
    BY <1>4, <2>1
  <2>3. L[i + 1] # h
    BY <1>1, <1>2, <2>1
  <2> QED BY <1>1, <2>1, <2>2, <2>3
<1>7. ASSUME NEW i \in 0 .. (n - 1) - 1, NEW j \in 0 .. (n - 1) - 1, L2[i] = L2[j] PROVE i = j
  <2>1. i + 1 \in 0 .. n - 1 /\ j + 1 \in 0 .. n - 1 /\ i \in 0 .. n - 1 /\ j \in 0 .. n - 1
    BY <1>1
  <2>2. i + 1 = j + 1
    BY <1>1, <1>4, <1>7, <2>1
  <2> QED BY <2>1, <2>2
<1>8. ASSUME NEW x \in free \ {h} PROVE \E i \in 0 .. (n - 1) - 1 : L2[i] = x
  <2>1. PICK i \in 0 .. n - 1 : L[i] = x
    BY <1>1
  <2>2. i # 0
    BY <1>1, <2>1
  <2>3. i - 1 \in 0 .. (n - 1) - 1 /\ i - 1 \in 0 .. n - 1 /\ (i - 1) + 1 = i
    BY <1>1, <2>2
  <2>4. L2[i - 1] = x
    BY <1>4, <2>1, <2>3
  <2> QED BY <2>3, <2>4
<1>9. List(m, m[h], free \ {h}, n - 1, L2)
  BY <1>2, <1>4, <1>5, <1>6, <1>7, <1>8 DEF List
<1> QED BY <1>3, <1>9

\* slab_alloc takes the first object of the list.
LEMMA Pop ==
  ASSUME NEW m, NEW bump, NEW fl \in [Classes -> Int], NEW lv, NEW sl, NEW ci \in Classes, NEW o,
         PagesOk(bump, lv, sl), SlotsOk(m, lv, sl), ListsOk(m, fl, lv, sl),
         fl[ci] # NULL, o.kind = "slab", o.ptr = fl[ci], o.size + 1 <= ClassSizes[ci]
  PROVE /\ fl[ci] \in Slots(sl, ci) /\ m[fl[ci]] \in Int
        /\ SlotsOk(m, lv \cup {o}, sl)
        /\ ListsOk(m, [fl EXCEPT ![ci] = m[fl[ci]]], lv \cup {o}, sl)
<1> DEFINE h == fl[ci]
           free(c) == Slots(sl, c) \ UsedSlots(lv)
           lv2 == lv \cup {o}
           fl2 == [fl EXCEPT ![ci] = m[h]]
<1>1. PICK n, L : List(m, h, free(ci), n, L)
  BY Zenon DEF ListsOk, ListOk
<1>2. /\ h \in free(ci) /\ m[h] \in Int
      /\ \E k, M : List(m, m[h], free(ci) \ {h}, k, M)
  <2>1. h # NULL
    OBVIOUS
  <2> HIDE DEF free, h
  <2> QED BY <1>1, <2>1, ListTail, Zenon
<1>3. Slabbed(lv2) = Slabbed(lv) \cup {o} /\ UsedSlots(lv2) = UsedSlots(lv) \cup {h}
  <2>1. Slabbed(lv2) = Slabbed(lv) \cup {o} /\ UsedSlots(lv2) = UsedSlots(lv) \cup {o.ptr}
    BY UsedFacts, Zenon
  <2> QED BY <2>1
<1>4. SlotsOk(m, lv2, sl)
  <2>1. \A p \in Slabbed(lv) : p.ptr # h
    BY <1>2 DEF UsedSlots
  <2>2. h \in Slots(sl, ci)
    BY <1>2
  <2> HIDE DEF lv2, h
  <2>3. \A p \in Slabbed(lv2) : \E c \in Classes : p.ptr \in Slots(sl, c) /\ p.size + 1 <= ClassSizes[c]
    BY <1>3, <2>2 DEF SlotsOk, h
  <2>4. \A p, q \in Slabbed(lv2) : p.ptr = q.ptr => p = q
    BY <1>3, <2>1 DEF SlotsOk, h
  <2> QED BY <2>3, <2>4 DEF SlotsOk
<1>5. ASSUME NEW c \in Classes PROVE ListOk(m, fl2, lv2, sl, c)
  <2>1. CASE c = ci
    <3>1. Slots(sl, ci) \ UsedSlots(lv2) = free(ci) \ {h} /\ fl2[ci] = m[h]
      BY <1>3
    <3> QED BY <1>2, <2>1, <3>1, Zenon DEF ListOk
  <2>2. CASE c # ci
    <3>1. h \notin Slots(sl, c)
      <4>1. h \in Slots(sl, ci)
        BY <1>2
      <4> HIDE DEF h
      <4> QED BY <2>2, <4>1, SlotsApart
    <3>2. Slots(sl, c) \ UsedSlots(lv2) = free(c) /\ fl2[c] = fl[c]
      BY Zenon, <1>3, <2>2, <3>1
    <3>3. ListOk(m, fl, lv, sl, c)
      BY DEF ListsOk
    <3> QED BY Zenon, <3>2, <3>3 DEF ListOk
  <2> QED BY <2>1, <2>2
<1>6. ListsOk(m, fl2, lv2, sl)
  BY <1>5, Zenon DEF ListsOk
<1> QED BY <1>2, <1>4, <1>6

\* The list with an object in front.
LEMMA ListCons ==
  ASSUME NEW m, NEW m2, NEW h, NEW free, NEW n, NEW L, List(m, h, free, n, L), NEW x \in Int, x \notin free,
         \A y \in free : m2[y] = m[y], m2[x] = h
  PROVE \E k, M : List(m2, x, free \cup {x}, k, M)
<1> DEFINE L2 == [i \in 0 .. n + 1 |-> IF i = 0 THEN x ELSE L[i - 1]]
<1>1. /\ n \in Nat /\ L \in [0 .. n -> Int] /\ h = L[0] /\ L[n] = NULL
      /\ \A i \in 0 .. n - 1 : L[i] \in free /\ m[L[i]] = L[i + 1]
      /\ \A i, j \in 0 .. n - 1 : L[i] = L[j] => i = j
      /\ \A y \in free : \E i \in 0 .. n - 1 : L[i] = y
  BY DEF List
<1>2. L2 \in [0 .. n + 1 -> Int] /\ L2[0] = x /\ \A i \in 0 .. n : L2[i + 1] = L[i]
  <2>1. \A i \in 0 .. n : i + 1 \in 0 .. n + 1 /\ i + 1 # 0 /\ (i + 1) - 1 = i
    BY <1>1
  <2>2. \A i \in 1 .. n + 1 : i - 1 \in 0 .. n
    BY <1>1
  <2> QED BY <1>1, <2>1, <2>2
<1> HIDE DEF L2
<1>3. L2[n + 1] = NULL /\ n + 1 \in Nat
  BY <1>1, <1>2
<1>4. ASSUME NEW i \in 0 .. (n + 1) - 1 PROVE L2[i] \in free \cup {x} /\ m2[L2[i]] = L2[i + 1]
  <2>1. CASE i = 0
    <3>1. 0 \in 0 .. n
      BY <1>1
    <3>2. L2[0 + 1] = L[0]
      BY <1>2, <3>1
    <3> QED BY <1>1, <1>2, <2>1, <3>2
  <2>2. CASE i # 0
    <3>1. i - 1 \in 0 .. n - 1 /\ i - 1 \in 0 .. n /\ (i - 1) + 1 = i /\ i \in 0 .. n
      BY <1>1, <2>2
    <3>2. L2[i] = L[i - 1] /\ L2[i + 1] = L[i]
      BY <1>2, <3>1
    <3>3. L[i - 1] \in free /\ m[L[i - 1]] = L[i]
      BY <1>1, <3>1
    <3> QED BY <3>2, <3>3
  <2> QED BY <2>1, <2>2
<1>5. ASSUME NEW i \in 0 .. (n + 1) - 1, NEW j \in 0 .. (n + 1) - 1, L2[i] = L2[j] PROVE i = j
  <2>1. ASSUME NEW k \in 0 .. (n + 1) - 1, k # 0
        PROVE k - 1 \in 0 .. n - 1 /\ L2[k] = L[k - 1] /\ L2[k] \in free
    <3>1. k - 1 \in 0 .. n - 1 /\ k - 1 \in 0 .. n /\ (k - 1) + 1 = k
      BY <1>1, <2>1
    <3>2. L2[(k - 1) + 1] = L[k - 1] /\ L[k - 1] \in free
      BY <1>1, <1>2, <3>1
    <3> QED BY <3>1, <3>2
  <2>2. CASE i # 0 /\ j # 0
    <3>1. i - 1 = j - 1
      BY <1>1, <1>5, <2>1, <2>2
    <3> QED BY <3>1
  <2>3. CASE i = 0 /\ j # 0
    BY <1>2, <1>5, <2>1, <2>3
  <2>4. CASE i # 0 /\ j = 0
    BY <1>2, <1>5, <2>1, <2>4
  <2> QED BY <2>2, <2>3, <2>4
<1>6. ASSUME NEW y \in free \cup {x} PROVE \E i \in 0 .. (n + 1) - 1 : L2[i] = y
  <2>1. CASE y = x
    <3>1. 0 \in 0 .. (n + 1) - 1
      BY <1>1
    <3> QED BY <1>2, <2>1, <3>1
  <2>2. CASE y \in free
    <3>1. PICK i \in 0 .. n - 1 : L[i] = y
      BY <1>1, <2>2
    <3>2. i + 1 \in 0 .. (n + 1) - 1 /\ i \in 0 .. n
      BY <1>1
    <3> QED BY <1>2, <3>1, <3>2
  <2> QED BY <2>1, <2>2
<1>7. List(m2, x, free \cup {x}, n + 1, L2)
  BY <1>2, <1>3, <1>4, <1>5, <1>6 DEF List
<1> QED BY <1>7

\* slab_free puts the object in front of the list.
LEMMA Push ==
  ASSUME NEW m \in [Addr -> Int], NEW bump, NEW fl \in [Classes -> Int], NEW lv, NEW sl, NEW ci \in Classes, NEW o \in lv,
         PagesOk(bump, lv, sl), SlotsOk(m, lv, sl), ListsOk(m, fl, lv, sl),
         o.kind = "slab", o.ptr \in Slots(sl, ci)
  PROVE LET m2 == [m EXCEPT ![o.ptr] = fl[ci]]
        IN  /\ SlotsOk(m2, lv \ {o}, sl)
            /\ ListsOk(m2, [fl EXCEPT ![ci] = o.ptr], lv \ {o}, sl)
<1> DEFINE x == o.ptr
           free(c) == Slots(sl, c) \ UsedSlots(lv)
           lv2 == lv \ {o}
           m2 == [m EXCEPT ![x] = fl[ci]]
           fl2 == [fl EXCEPT ![ci] = x]
<1>1. x \in Addr /\ x \in Int
  BY SlotAddress DEF Addr
<1>2. m2[x] = fl[ci] /\ \A a \in Addr : a # x => m2[a] = m[a]
  BY <1>1
<1>3. o \in Slabbed(lv) /\ Slabbed(lv2) = Slabbed(lv) \ {o}
  BY UsedFacts, Zenon DEF Slabbed
<1> HIDE DEF m2
<1>4. UsedSlots(lv2) = UsedSlots(lv) \ {x} /\ x \in UsedSlots(lv)
  <2>1. \A p \in Slabbed(lv) : p.ptr = x => p = o
    BY <1>3 DEF SlotsOk
  <2> HIDE DEF x
  <2>2. UsedSlots(lv2) \subseteq UsedSlots(lv) \ {x}
    BY <1>3, <2>1, Zenon DEF UsedSlots
  <2>3. UsedSlots(lv) \ {x} \subseteq UsedSlots(lv2)
    BY <1>3, Zenon DEF UsedSlots, x
  <2> QED BY Zenon, <1>3, <2>2, <2>3 DEF UsedSlots, x
<1>5. ASSUME NEW c \in Classes, NEW y \in Slots(sl, c)
      PROVE m2[y - 1] = m[y - 1] /\ (y # x => m2[y] = m[y])
  <2>1. y \in Addr /\ y - 1 \in Addr
    BY SlotAddress
  <2>2. y - 1 # x
    <3>1. ClassSizes[c] \in Nat /\ ClassSizes[ci] \in Nat /\ ClassSizes[c] >= 2 /\ ClassSizes[ci] >= 2
      BY ClassFacts
    <3>2. y # x => y + ClassSizes[c] <= x \/ x + ClassSizes[ci] <= y
      BY SlotsApart
    <3>3. y \in Int
      BY <2>1 DEF Addr
    <3> HIDE DEF x
    <3> QED BY <1>1, <3>1, <3>2, <3>3
  <2> QED BY <1>2, <2>1, <2>2
<1>6. SlotsOk(m2, lv2, sl)
  <2> HIDE DEF lv2
  <2>1. /\ \A p \in Slabbed(lv2) : \E c \in Classes : p.ptr \in Slots(sl, c) /\ p.size + 1 <= ClassSizes[c]
        /\ \A p, q \in Slabbed(lv2) : p.ptr = q.ptr => p = q
    BY <1>3, Zenon DEF SlotsOk
  <2> QED BY <1>5, <2>1 DEF SlotsOk
<1>7. ASSUME NEW c \in Classes PROVE ListOk(m2, fl2, lv2, sl, c)
  <2>1. PICK n, L : List(m, fl[c], free(c), n, L)
    BY DEF ListsOk, ListOk
  <2>2. \A y \in free(c) : m2[y] = m[y]
    BY <1>4, <1>5
  <2>3. CASE c = ci
    <3>1. Slots(sl, c) \ UsedSlots(lv2) = free(c) \cup {x} /\ fl2[c] = x /\ x \notin free(c)
      BY <1>4, <2>3
    <3>2. m2[x] = fl[c]
      BY <1>2, <2>3
    <3>3. \E k, M : List(m2, x, free(c) \cup {x}, k, M)
      <4> HIDE DEF free, x
      <4> QED BY <1>1, <2>1, <2>2, <3>1, <3>2, ListCons, ZenonT(40)
    <3> QED BY <3>1, <3>3, ZenonT(40) DEF ListOk
  <2>4. CASE c # ci
    <3>1. x \notin Slots(sl, c)
      BY <2>4, SlotsApart
    <3>2. Slots(sl, c) \ UsedSlots(lv2) = free(c) /\ fl2[c] = fl[c]
      BY Zenon, <1>4, <2>4, <3>1
    <3>3. List(m2, fl[c], free(c), n, L)
      <4> HIDE DEF free
      <4> QED BY <2>1, <2>2, Zenon DEF List
    <3> HIDE DEF free
    <3> QED BY Zenon, <3>2, <3>3 DEF ListOk
  <2> QED BY <2>3, <2>4
<1>8. ListsOk(m2, fl2, lv2, sl)
  BY <1>7, Zenon DEF ListsOk
<1> QED BY <1>6, <1>8 DEF m2

----------------------------------------------------------------------------
(* The slabs: refill, slab_alloc.                                           *)

\* A page carved up by refill: the headers, and the links from each slot to the one
\* before it.
Carved(m, page, ci) ==
    \A k \in 0 .. SlotsPerPage(ci) - 1 :
        /\ m[SlotObject(page, ci, k) - 1] = SlabHeader(ci)
        /\ m[SlotObject(page, ci, k)] = IF k = 0 THEN NULL ELSE SlotObject(page, ci, k - 1)

\* refill carves up the page at the bump pointer and writes nothing below it.
LEMMA RefillWords ==
  ASSUME NEW ci \in Classes, mem \in [Addr -> Int], page_bump \in Nat \ {0}, page_bump + VM_PAGE_SIZE <= MaxAddr + 1
  PROVE /\ refill(ci) \in [Addr -> Int]
        /\ \A a \in Addr : a < page_bump => refill(ci)[a] = mem[a]
        /\ Carved(refill(ci), page_bump, ci)
<1> DEFINE page == page_bump
           c == ClassSizes[ci]
           S == SlotsPerPage(ci)
           zero == Zeroed(mem, page)
           off(a) == (a - page) % c
           k(a) == (a - page) \div c
           val(a) == IF a < page \/ k(a) >= S THEN zero[a]
                     ELSE IF off(a) = 0 THEN SlabHeader(ci)
                     ELSE IF off(a) = 1 /\ k(a) > 0 THEN SlotObject(page, ci, k(a) - 1)
                     ELSE zero[a]
<1>1. refill(ci) = [a \in Addr |-> val(a)]
  BY Zenon DEF refill
<1>2. c \in Nat /\ c >= 2 /\ c \in Nat \ {0} /\ S \in Nat \ {0} /\ S * c <= VM_PAGE_SIZE /\ S * c \in Nat /\ VM_PAGE_SIZE \in Nat
      /\ MaxAddr \in Nat
  BY ClassFacts, PageFacts
<1>3. zero \in [Addr -> Int] /\ \A a \in Addr : zero[a] = IF a \in page .. page + VM_PAGE_SIZE - 1 THEN 0 ELSE mem[a]
  BY DEF Zeroed
<1>4. \A a \in Addr : a \in Int
  BY DEF Addr
<1>5. SlabHeader(ci) \in Int
  BY DEF SlabHeader, SLAB_MAGIC, Classes
<1> HIDE DEF c, S, zero
<1>6. ASSUME NEW a \in Addr PROVE off(a) \in Int /\ k(a) \in Int
  <2>1. a - page \in Int
    BY <1>4
  <2>2. (a - page) \div c \in Int /\ (a - page) % c \in 0 .. c - 1
    BY <1>2, <2>1, Division, Zenon
  <2> QED BY <1>2, <2>2
<1>7. \A j \in Int : SlotObject(page, ci, j) = page + j * c + 1 /\ j * c \in Int
  BY <1>2 DEF SlotObject, c
<1>8. ASSUME NEW a \in Addr PROVE val(a) \in Int
  <2>1. k(a) - 1 \in Int
    BY <1>6
  <2>2. SlotObject(page, ci, k(a) - 1) \in Int
    <3> HIDE DEF k
    <3>1. (k(a) - 1) * c \in Int /\ SlotObject(page, ci, k(a) - 1) = page + (k(a) - 1) * c + 1
      BY <1>7, <2>1
    <3> QED BY <3>1
  <2>3. zero[a] \in Int
    BY <1>3
  <2> HIDE DEF k, off
  <2> QED BY <1>5, <2>2, <2>3
<1>9. refill(ci) \in [Addr -> Int]
  <2> HIDE DEF val
  <2> QED BY <1>1, <1>8
<1>10. ASSUME NEW a \in Addr, a < page PROVE refill(ci)[a] = mem[a]
  <2>1. refill(ci)[a] = zero[a]
    <3> HIDE DEF k, off
    <3> QED BY <1>1, <1>10
  <2> QED BY <1>2, <1>3, <1>4, <1>10, <2>1
<1>11. ASSUME NEW j \in 0 .. S - 1
       PROVE /\ refill(ci)[SlotObject(page, ci, j) - 1] = SlabHeader(ci)
             /\ refill(ci)[SlotObject(page, ci, j)] = IF j = 0 THEN NULL ELSE SlotObject(page, ci, j - 1)
  <2>1. j \in Nat /\ j < S /\ j * c \in Nat
    BY <1>2
  <2>2. j * c + c <= S * c
    BY <1>2, <2>1, Step
  <2> DEFINE x == SlotObject(page, ci, j)
  <2>3. x = page + j * c + 1
    BY <1>7, <2>1
  <2> HIDE DEF x
  <2>4. x \in Addr /\ x - 1 \in Addr /\ x \in page .. page + VM_PAGE_SIZE - 1 /\ x \in Int
    BY <1>2, <2>1, <2>2, <2>3 DEF Addr
  <2>5. x - page = j * c + 1 /\ (x - 1) - page = j * c + 0
    BY <2>1, <2>3
  <2>6. k(x) = j /\ off(x) = 1 /\ k(x - 1) = j /\ off(x - 1) = 0
    <3>1. 1 \in 0 .. c - 1 /\ 0 \in 0 .. c - 1 /\ j \in Int
      BY <1>2, <2>1
    <3>2. (j * c + 1) \div c = j /\ (j * c + 1) % c = 1 /\ (j * c + 0) \div c = j /\ (j * c + 0) % c = 0
      BY <1>2, <2>1, <3>1, Quotient, ZenonT(40)
    <3> QED BY <2>5, <3>2
  <2>7. refill(ci)[x - 1] = val(x - 1) /\ refill(ci)[x] = val(x)
    <3> HIDE DEF val
    <3> QED BY <1>1, <2>4
  <2>8. ~(x < page) /\ ~(x - 1 < page) /\ ~(j >= S)
    BY <1>2, <2>1, <2>3
  <2>9. val(x - 1) = SlabHeader(ci)
    <3> HIDE DEF k, off
    <3> QED BY <2>6, <2>8
  <2>10. val(x) = IF j = 0 THEN NULL ELSE SlotObject(page, ci, j - 1)
    <3>1. zero[x] = 0
      BY <1>3, <2>4
    <3> HIDE DEF k, off
    <3> QED BY <2>1, <2>6, <2>8, <3>1 DEF NULL
  <2> HIDE DEF val
  <2> QED BY <2>7, <2>9, <2>10 DEF x
<1>12. Carved(refill(ci), page, ci)
  BY <1>11 DEF Carved, S
<1> QED BY <1>9, <1>10, <1>12

\* The slots of a page.
PageSlots(page, ci) == {SlotObject(page, ci, k) : k \in 0 .. SlotsPerPage(ci) - 1}

\* The new slots of a carved page.
LEMMA NewSlots ==
  ASSUME NEW bump, NEW lv, NEW sl, PagesOk(bump, lv, sl), NEW ci \in Classes, NEW d \in Classes,
         NEW sl2, sl2 = sl \cup {<<bump, ci>>}
  PROVE /\ d = ci => Slots(sl2, d) = Slots(sl, d) \cup PageSlots(bump, d)
        /\ d # ci => Slots(sl2, d) = Slots(sl, d)
<1> USE DEF PageSlots
<1>1. <<bump, ci>>[1] = bump /\ <<bump, ci>>[2] = ci
  OBVIOUS
<1>2. CASE d = ci
  <2>1. {t \in sl2 : t[2] = d} = {t \in sl : t[2] = d} \cup {<<bump, ci>>}
    BY <1>1, <1>2
  <2>2. ASSUME NEW x \in Slots(sl2, d)
        PROVE x \in Slots(sl, ci) \cup {SlotObject(bump, ci, k) : k \in 0 .. SlotsPerPage(ci) - 1}
    <3>1. PICK s \in sl2, k \in 0 .. SlotsPerPage(d) - 1 : s[2] = d /\ x = SlotObject(s[1], d, k)
      BY <2>2 DEF Slots
    <3>2. CASE s \in sl
      BY <1>2, <3>1, <3>2 DEF Slots
    <3>3. CASE s = <<bump, ci>>
      BY <1>1, <1>2, <3>1, <3>3
    <3> QED BY <3>2, <3>3
  <2>3. Slots(sl, ci) \subseteq Slots(sl2, d)
    BY <1>2, <2>1 DEF Slots
  <2>4. ASSUME NEW k \in 0 .. SlotsPerPage(ci) - 1 PROVE SlotObject(bump, ci, k) \in Slots(sl2, d)
    <3>1. <<bump, ci>> \in {t \in sl2 : t[2] = d} /\ k \in 0 .. SlotsPerPage(d) - 1
      BY <1>1, <1>2
    <3>2. SlotObject(<<bump, ci>>[1], d, k) \in Slots(sl2, d)
      <4> DEFINE s == <<bump, ci>>
      <4> HIDE DEF s
      <4> QED BY <3>1 DEF Slots, s
    <3> QED BY <1>1, <1>2, <3>2
  <2>5. {SlotObject(bump, ci, k) : k \in 0 .. SlotsPerPage(ci) - 1} \subseteq Slots(sl2, d)
    BY Zenon, <2>4
  <2>6. Slots(sl2, d) = Slots(sl, ci) \cup {SlotObject(bump, ci, k) : k \in 0 .. SlotsPerPage(ci) - 1}
    BY <2>2, <2>3, <2>5
  <2> QED BY <1>2, <2>6
<1>3. CASE d # ci
  <2>1. {t \in sl2 : t[2] = d} = {t \in sl : t[2] = d}
    BY <1>1, <1>3
  <2> QED BY <1>3, <2>1 DEF Slots
<1> QED BY Zenon, <1>2, <1>3

\* The list of a carved page.
LEMMA CarvedList ==
  ASSUME NEW m, NEW page \in Nat \ {0}, NEW ci \in Classes, Carved(m, page, ci)
  PROVE \E n, L : List(m, SlotObject(page, ci, SlotsPerPage(ci) - 1),
                       PageSlots(page, ci), n, L)
<1> USE DEF PageSlots
<1> DEFINE S == SlotsPerPage(ci)
           slot(k) == SlotObject(page, ci, k)
           free == {slot(k) : k \in 0 .. S - 1}
           L == [i \in 0 .. S |-> IF i = S THEN NULL ELSE slot(S - 1 - i)]
<1>1. S \in Nat \ {0}
  BY ClassFacts
<1>2. \A k \in 0 .. S - 1 : slot(k) \in Int
  BY <1>1, SlotInPage
<1>3. \A j, k \in 0 .. S - 1 : slot(j) = slot(k) => j = k
  <2>1. ASSUME NEW j \in 0 .. S - 1, NEW k \in 0 .. S - 1, j < k PROVE slot(j) # slot(k)
    <3>1. slot(j) + ClassSizes[ci] <= slot(k)
      BY <2>1, SlotStep
    <3>2. ClassSizes[ci] \in Nat /\ ClassSizes[ci] >= 2 /\ slot(j) \in Int /\ slot(k) \in Int
      BY <1>2, ClassFacts
    <3> HIDE DEF slot
    <3> QED BY <3>1, <3>2
  <2> HIDE DEF slot
  <2> QED BY <1>1, <2>1
<1>4. \A k \in 0 .. S - 1 : m[slot(k)] = IF k = 0 THEN NULL ELSE slot(k - 1)
  BY DEF Carved
<1> HIDE DEF slot, S
<1>5. \A i \in 0 .. S - 1 : S - 1 - i \in 0 .. S - 1
  BY <1>1
<1>6. /\ L \in [0 .. S -> Int] /\ L[S] = NULL
      /\ \A i \in 0 .. S - 1 : L[i] = slot(S - 1 - i)
  <2>1. \A i \in 0 .. S : i # S => i \in 0 .. S - 1
    BY <1>1
  <2> QED BY <1>1, <1>2, <1>5, <2>1 DEF NULL
<1> HIDE DEF L
<1>7. L[0] = slot(S - 1)
  BY <1>1, <1>6
<1>8. ASSUME NEW i \in 0 .. S - 1 PROVE L[i] \in free /\ m[L[i]] = L[i + 1]
  <2>1. L[i] = slot(S - 1 - i) /\ S - 1 - i \in 0 .. S - 1
    BY <1>5, <1>6
  <2>2. CASE i = S - 1
    <3>1. S - 1 - i = 0 /\ i + 1 = S
      BY <1>1, <2>2
    <3> QED BY ZenonT(40), <1>4, <1>6, <2>1, <3>1
  <2>3. CASE i # S - 1
    <3>1. S - 1 - i # 0 /\ i + 1 \in 0 .. S - 1 /\ (S - 1 - i) - 1 = S - 1 - (i + 1)
      BY <1>1, <2>3
    <3>2. L[i + 1] = slot(S - 1 - (i + 1))
      BY <1>6, <3>1
    <3> QED BY <1>4, <2>1, <3>1, <3>2
  <2> QED BY <2>2, <2>3
<1>9. ASSUME NEW i \in 0 .. S - 1, NEW j \in 0 .. S - 1, L[i] = L[j] PROVE i = j
  <2>1. S - 1 - i = S - 1 - j
    BY <1>3, <1>5, <1>6, <1>9
  <2> QED BY <1>1, <2>1
<1>10. ASSUME NEW x \in free PROVE \E i \in 0 .. S - 1 : L[i] = x
  <2>1. PICK k \in 0 .. S - 1 : x = slot(k)
    OBVIOUS
  <2>2. S - 1 - k \in 0 .. S - 1 /\ S - 1 - (S - 1 - k) = k
    BY <1>1
  <2>3. L[S - 1 - k] = x
    BY <1>6, <2>1, <2>2
  <2> QED BY <2>2, <2>3
<1>11. List(m, slot(S - 1), free, S, L)
  BY <1>1, <1>6, <1>7, <1>8, <1>9, <1>10 DEF List
<1> QED BY Zenon, <1>11 DEF slot, S

\* After refill the class has a list of its own, of the new slots.
LEMMA Refilled ==
  ASSUME NEW m, NEW bump, NEW fl \in [Classes -> Int], NEW lv, NEW sl, NEW ci \in Classes,
         PagesOk(bump, lv, sl), SlotsOk(m, lv, sl), ListsOk(m, fl, lv, sl),
         bump + VM_PAGE_SIZE <= MaxAddr + 1, Carved(m, bump, ci), fl[ci] = NULL
  PROVE LET sl2 == sl \cup {<<bump, ci>>}
            head == SlotObject(bump, ci, SlotsPerPage(ci) - 1)
        IN  /\ SlotsOk(m, lv, sl2)
            /\ ListsOk(m, [fl EXCEPT ![ci] = head], lv, sl2)
            /\ head \in Addr
<1> DEFINE sl2 == sl \cup {<<bump, ci>>}
           S == SlotsPerPage(ci)
           head == SlotObject(bump, ci, S - 1)
           new == PageSlots(bump, ci)
           free(d) == Slots(sl, d) \ UsedSlots(lv)
           fl2 == [fl EXCEPT ![ci] = head]
<1>1. /\ \A d \in Classes : d # ci => Slots(sl2, d) = Slots(sl, d)
      /\ Slots(sl2, ci) = Slots(sl, ci) \cup new
  <2>1. sl2 = sl \cup {<<bump, ci>>}
    OBVIOUS
  <2> HIDE DEF sl2
  <2>2. PagesOk(bump, lv, sl)
    OBVIOUS
  <2>3. ASSUME NEW d \in Classes
        PROVE /\ d = ci => Slots(sl2, d) = Slots(sl, d) \cup PageSlots(bump, d)
              /\ d # ci => Slots(sl2, d) = Slots(sl, d)
    BY ONLY SMTT(30), <2>1, <2>2, d \in Classes, ci \in Classes, NewSlots
  <2> QED BY <2>3
<1> HIDE DEF sl2
<1>2. bump \in Nat \ {0} /\ S \in Nat \ {0} /\ ClassSizes[ci] \in Nat /\ ClassSizes[ci] >= 2 /\ MaxAddr \in Nat
      /\ VM_PAGE_SIZE \in Nat
  BY ClassFacts, PageFacts, Layout DEF PagesOk
<1>3. ASSUME NEW k \in 0 .. S - 1
      PROVE SlotObject(bump, ci, k) \in Addr /\ SlotObject(bump, ci, k) > bump /\ SlotObject(bump, ci, k) \in Nat
  <2>1. LET x == SlotObject(bump, ci, k)
        IN  x \in Nat /\ bump <= x - 1 /\ x - 1 + ClassSizes[ci] <= bump + VM_PAGE_SIZE
    BY <1>2, SlotInPage
  <2> QED BY <1>2, <2>1 DEF Addr
<1>4. head \in Addr /\ head \in Int
  <2>1. S - 1 \in 0 .. S - 1
    BY <1>2
  <2> QED BY <1>3, <2>1
<1>5. UsedSlots(lv) \cap new = {}
  <2> SUFFICES ASSUME NEW o \in Slabbed(lv), o.ptr \in new PROVE FALSE
    BY DEF UsedSlots
  <2>1. PICK d \in Classes : o.ptr \in Slots(sl, d)
    BY DEF SlotsOk
  <2>2. o.ptr < bump /\ o.ptr \in Addr
    BY <2>1, SlotAddress
  <2>3. o.ptr > bump /\ o.ptr \in Nat
    BY <1>3 DEF PageSlots
  <2> QED BY <1>2, <2>2, <2>3
<1>6. free(ci) = {}
  <2>1. PICK n, L : List(m, NULL, free(ci), n, L)
    BY DEF ListsOk, ListOk
  <2>2. n = 0
    <3>1. SUFFICES ASSUME n # 0 PROVE FALSE
      OBVIOUS
    <3>2. n \in Nat /\ L[0] = NULL /\ \A i \in 0 .. n - 1 : L[i] \in free(ci)
      BY <2>1 DEF List
    <3>3. 0 \in 0 .. n - 1
      BY <3>1, <3>2
    <3>4. NULL \in Slots(sl, ci)
      BY <3>2, <3>3
    <3> QED BY <3>4, SlotAddress
  <2> HIDE DEF free
  <2>3. \A x \in free(ci) : \E i \in 0 .. 0 - 1 : TRUE
    BY <2>1, <2>2 DEF List
  <2>4. 0 .. 0 - 1 = {}
    OBVIOUS
  <2> QED BY <2>3, <2>4
<1>7. SlotsOk(m, lv, sl2)
  <2>1. ASSUME NEW d \in Classes PROVE Slots(sl, d) \subseteq Slots(sl2, d)
    BY <1>1
  <2>2. \A o \in Slabbed(lv) : \E d \in Classes : o.ptr \in Slots(sl2, d) /\ o.size + 1 <= ClassSizes[d]
    BY <2>1 DEF SlotsOk
  <2>3. ASSUME NEW d \in Classes, NEW x \in Slots(sl2, d) PROVE m[x - 1] = SlabHeader(d)
    <3>1. CASE x \in Slots(sl, d)
      BY <3>1 DEF SlotsOk
    <3>2. CASE d = ci /\ x \in new
      BY <3>2 DEF Carved, PageSlots
    <3> QED BY <1>1, <3>1, <3>2
  <2> QED BY <2>2, <2>3 DEF SlotsOk
<1>8. ASSUME NEW d \in Classes PROVE ListOk(m, fl2, lv, sl2, d)
  <2>1. CASE d = ci
    <3>1. Slots(sl2, ci) \ UsedSlots(lv) = new /\ fl2[ci] = head
      BY <1>1, <1>5, <1>6
    <3>2. \E n, L : List(m, head, new, n, L)
      BY <1>2, CarvedList, ZenonT(40)
    <3> HIDE DEF head, new
    <3> QED BY <2>1, <3>1, <3>2 DEF ListOk
  <2>2. CASE d # ci
    <3>1. Slots(sl2, d) = Slots(sl, d) /\ fl2[d] = fl[d]
      BY <1>1, <2>2
    <3>2. ListOk(m, fl, lv, sl, d)
      BY DEF ListsOk
    <3> QED BY <3>1, <3>2 DEF ListOk
  <2> QED BY <2>1, <2>2
<1>9. ListsOk(m, fl2, lv, sl2)
  BY <1>8, ZenonT(40) DEF ListsOk
<1> QED BY <1>4, <1>7, <1>9 DEF sl2

\* slab_alloc, from the list or after refill.
LEMMA SlabAlloc ==
  ASSUME Inv, RegionsApart', NEW size \in Sizes, NEW ci \in Classes, slab_alloc(size, ci)
  PROVE Inv'
<1>1. /\ size + 1 <= ClassSizes[ci] /\ mapped' = mapped /\ uses' = uses /\ heap_end' = heap_end
  BY DEF slab_alloc, class_for
<1>2. /\ mem \in [Addr -> Int] /\ free_lists \in [Classes -> Int] /\ live \subseteq Objects
      /\ uses \in Uses /\ page_bump <= LastBump
      /\ PagesOk(page_bump, live, slabs) /\ SlotsOk(mem, live, slabs) /\ ListsOk(mem, free_lists, live, slabs)
      /\ HeapPart(mem, page_bump, live, heap_end) /\ TablesPart(mem, page_bump, live, mapped)
  BY DEF Inv, Parts
<1>3. size \in Nat
  BY MemAssumption
<1>4. ASSUME NEW x PROVE LET o == Object("slab", x, size)
                         IN  /\ o.kind = "slab" /\ o.ptr = x /\ o.size = size
                             /\ x \in Addr => o \in Objects
                             /\ Heaped(live \cup {o}) = Heaped(live) /\ Paged(live \cup {o}) = Paged(live)
  <2> DEFINE o == Object("slab", x, size)
  <2>1. o.kind = "slab" /\ o.ptr = x /\ o.size = size /\ (x \in Addr => o \in Objects)
    BY <1>3 DEF Object, Objects
  <2>2. \A p \in {o} : p.kind \in {"slab"}
    BY <2>1
  <2>3. "heap" \notin {"slab"} /\ "page" \notin {"slab"} /\ "table" \notin {"slab"}
    OBVIOUS
  <2> HIDE DEF o
  <2>4. Heaped(live \cup {o}) = Heaped(live) /\ Paged(live \cup {o}) = Paged(live)
    BY <2>2, <2>3, Kinds, ZenonT(40)
  <2> QED BY <2>1, <2>4 DEF o
<1>5. CASE /\ free_lists[ci] # NULL
           /\ live' = live \cup {Object("slab", free_lists[ci], size)}
           /\ free_lists' = [free_lists EXCEPT ![ci] = mem[@]]
           /\ UNCHANGED <<mem, page_bump, slabs>>
  <2> DEFINE h == free_lists[ci]
             o == Object("slab", h, size)
  <2>1. /\ o.kind = "slab" /\ o.ptr = h /\ o.size = size /\ (h \in Addr => o \in Objects)
        /\ Heaped(live \cup {o}) = Heaped(live) /\ Paged(live \cup {o}) = Paged(live)
    BY <1>4, ZenonT(40)
  <2> HIDE DEF o
  <2>2. o.ptr = free_lists[ci] /\ o.size + 1 <= ClassSizes[ci]
    BY <1>1, <2>1
  <2>3. /\ h \in Slots(slabs, ci) /\ mem[h] \in Int
        /\ SlotsOk(mem, live \cup {o}, slabs)
        /\ ListsOk(mem, [free_lists EXCEPT ![ci] = mem[h]], live \cup {o}, slabs)
    BY <1>2, <1>5, <2>1, <2>2, Pop, ZenonT(40)
  <2>4. h \in Addr
    BY <1>2, <2>3, SlotAddress
  <2>5. /\ live' = live \cup {o} /\ free_lists' = [free_lists EXCEPT ![ci] = mem[h]]
        /\ mem' = mem /\ page_bump' = page_bump /\ slabs' = slabs
    BY <1>5 DEF o
  <2>6. PagesOk(page_bump, live \cup {o}, slabs)
    BY <1>2, <2>1, ZenonT(40) DEF PagesOk
  <2>7. HeapPart(mem, page_bump, live \cup {o}, heap_end)
    <3>1. LastWord(heap_end) \in Nat
      BY Zenon, <1>2, HeapFacts
    <3>2. HeapOk(mem, live, LastWord(heap_end)) => HeapOk(mem, live \cup {o}, LastWord(heap_end))
      BY Zenon, <2>1, <3>1, HeapFrame
    <3> QED BY Zenon, <1>2, <2>1, <3>2 DEF HeapPart
  <2>8. TablesPart(mem, page_bump, live \cup {o}, mapped)
    BY <1>2, Zenon DEF TablesPart, Owned
  <2> HIDE DEF h
  <2>9. mem' \in [Addr -> Int] /\ free_lists' \in [Classes -> Int] /\ live' \subseteq Objects
        /\ uses' \in Uses /\ page_bump' <= LastBump'
    BY ZenonT(40), <1>1, <1>2, <2>1, <2>3, <2>4, <2>5 DEF LastBump
  <2> QED BY <1>1, <2>3, <2>5, <2>6, <2>7, <2>8, <2>9 DEF Inv, Parts
<1>6. CASE /\ free_lists[ci] = NULL
           /\ PageLeft
           /\ LET head == SlotObject(page_bump, ci, SlotsPerPage(ci) - 1)
              IN  /\ mem' = refill(ci)
                  /\ live' = live \cup {Object("slab", head, size)}
                  /\ free_lists' = [free_lists EXCEPT ![ci] = mem'[head]]
           /\ slabs' = slabs \cup {<<page_bump, ci>>}
           /\ page_bump' = page_bump + VM_PAGE_SIZE
  <2> DEFINE head == SlotObject(page_bump, ci, SlotsPerPage(ci) - 1)
             o == Object("slab", head, size)
             m2 == refill(ci)
             bump2 == page_bump + VM_PAGE_SIZE
             sl2 == slabs \cup {<<page_bump, ci>>}
             fl1 == [free_lists EXCEPT ![ci] = head]
             fl2 == [free_lists EXCEPT ![ci] = m2[head]]
  <2>1. /\ o.kind = "slab" /\ o.ptr = head /\ o.size = size /\ (head \in Addr => o \in Objects)
        /\ Heaped(live \cup {o}) = Heaped(live) /\ Paged(live \cup {o}) = Paged(live)
    BY <1>4, ZenonT(40)
  <2>2. /\ page_bump \in Nat \ {0} /\ page_bump % VM_PAGE_SIZE = 0 /\ VM_PAGE_SIZE \in Nat \ {0} /\ MaxAddr \in Nat
        /\ LastBump \in Nat /\ LastBump % VM_PAGE_SIZE = 0 /\ LastBump <= MaxAddr + 1 /\ page_bump < LastBump
    BY <1>2, <1>6, Layout, PageFacts, LastBumpFacts DEF PagesOk, PageLeft
  <2>3. bump2 <= LastBump /\ bump2 <= MaxAddr + 1 /\ bump2 \in Nat /\ page_bump < bump2
    <3>1. page_bump + VM_PAGE_SIZE <= LastBump
      BY Zenon, <2>2, Apart
    <3> QED BY <2>2, <3>1
  <2>4. bump2 % VM_PAGE_SIZE = 0
    BY <2>2, NextPage, Zenon
  <2>5. /\ m2 \in [Addr -> Int] /\ \A a \in Addr : a < page_bump => m2[a] = mem[a]
        /\ Carved(m2, page_bump, ci)
    BY <1>2, <2>2, <2>3, RefillWords, ZenonT(40)
  <2> HIDE DEF m2, o
  <2>6. heap_end <= FirstPage
    <3>1. FirstPage \in Nat /\ FirstPage <= page_bump
      BY <1>2, Layout DEF PagesOk
    <3>2. bump2 # FirstPage
      BY <2>2, <2>3, <3>1
    <3> QED BY <1>1, <1>6, <3>2 DEF RegionsApart
  <2>7. /\ SlotsOk(m2, live, slabs) /\ ListsOk(m2, free_lists, live, slabs)
        /\ HeapPart(m2, bump2, live \cup {o}, heap_end)
        /\ TablesPart(m2, bump2, live \cup {o}, mapped)
    <3>1. Parts(mem, page_bump, free_lists, live, slabs, mapped, heap_end)
      BY DEF Inv
    <3>2. \A p \in live : p.kind = "table" => p \in live \cup {o}
      OBVIOUS
    <3>3. \A p \in live : p.kind = "table" => p \in live
      OBVIOUS
    <3> HIDE DEF bump2
    <3>4. SlotsOk(m2, live, slabs) /\ ListsOk(m2, free_lists, live, slabs)
      BY <2>3, <2>4, <2>5, <2>6, <3>1, <3>3, AboveBump, ZenonT(40)
    <3>5. HeapPart(m2, bump2, live \cup {o}, heap_end) /\ TablesPart(m2, bump2, live \cup {o}, mapped)
      BY <2>1, <2>3, <2>4, <2>5, <2>6, <3>1, <3>2, AboveBump, ZenonT(40)
    <3> QED BY <3>4, <3>5
  <2>8. PagesOk(bump2, live, sl2)
    BY <1>2, <2>3, AddSlab, ZenonT(40)
  <2>9. /\ SlotsOk(m2, live, sl2) /\ ListsOk(m2, fl1, live, sl2) /\ head \in Addr
    BY <1>2, <1>6, <2>3, <2>5, <2>7, Refilled, ZenonT(40)
  <2>10. fl1 \in [Classes -> Int] /\ fl1[ci] = head /\ head # NULL /\ [fl1 EXCEPT ![ci] = m2[fl1[ci]]] = fl2
    <3> HIDE DEF head
    <3>1. head \in Int /\ head # NULL
      BY <2>9 DEF Addr, NULL
    <3> QED BY ZenonT(40), <1>2, <3>1
  <2> HIDE DEF fl1, fl2, sl2, bump2, head
  <2>11. fl1[ci] # NULL /\ o.ptr = fl1[ci] /\ o.size + 1 <= ClassSizes[ci]
    BY <1>1, <2>1, <2>10
  <2>12. /\ m2[head] \in Int /\ SlotsOk(m2, live \cup {o}, sl2)
         /\ ListsOk(m2, fl2, live \cup {o}, sl2)
    <3>1. /\ m2[fl1[ci]] \in Int /\ SlotsOk(m2, live \cup {o}, sl2)
          /\ ListsOk(m2, [fl1 EXCEPT ![ci] = m2[fl1[ci]]], live \cup {o}, sl2)
      BY <2>1, <2>8, <2>9, <2>10, <2>11, Pop, ZenonT(40)
    <3> QED BY Zenon, <2>10, <3>1
  <2>13. PagesOk(bump2, live \cup {o}, sl2)
    BY <2>1, <2>8, ZenonT(40) DEF PagesOk
  <2>14. /\ mem' = m2 /\ live' = live \cup {o} /\ free_lists' = fl2 /\ slabs' = sl2 /\ page_bump' = bump2
    BY <1>6 DEF m2, o, fl2, sl2, bump2, head
  <2>15. mem' \in [Addr -> Int] /\ free_lists' \in [Classes -> Int] /\ live' \subseteq Objects
         /\ uses' \in Uses /\ page_bump' <= LastBump'
    <3>1. fl2 \in [Classes -> Int]
      BY <1>2, <2>12 DEF fl2
    <3> QED BY ZenonT(40), <1>1, <1>2, <2>1, <2>3, <2>5, <2>9, <2>14, <3>1 DEF LastBump
  <2> QED BY <1>1, <2>7, <2>12, <2>13, <2>14, <2>15 DEF Inv, Parts
<1> QED BY <1>5, <1>6 DEF slab_alloc

----------------------------------------------------------------------------
(* Writing in one place.                                                   *)

\* Only the words of page p change, in which no table is, and no heap object comes or
\* goes.
PageStep(m, m2, lv, lv2, p) ==
    /\ \A o \in lv : o.kind = "table" => o.ptr # p /\ o \in lv2
    /\ Heaped(lv2) = Heaped(lv)
    /\ \A a \in Addr : a \notin p .. p + VM_PAGE_SIZE - 1 => m2[a] = m[a]

\* Writing in a page that is no table keeps the heap's and the tables' parts.
LEMMA PageWrite ==
  ASSUME NEW m, NEW m2 \in [Addr -> Int], NEW bump, NEW fl, NEW lv, NEW lv2, NEW sl, NEW map, NEW top,
         Parts(m, bump, fl, lv, sl, map, top), NEW p, IsPage(p, bump), PageStep(m, m2, lv, lv2, p)
  PROVE HeapPart(m2, bump, lv2, top) /\ TablesPart(m2, bump, lv2, map)
<1> USE DEF Parts, PageStep
<1>1. /\ p \in Nat /\ p >= FirstPage /\ FirstPage \in Nat /\ kernel_pd(PDS) <= FirstPage /\ kernel_pd(PDS) \in Nat
      /\ VM_PAGE_SIZE \in Nat \ {0} /\ MaxAddr \in Nat
      /\ bump \in Nat /\ bump <= MaxAddr + 1 /\ bump % VM_PAGE_SIZE = 0 /\ heap_start \in Nat \ {0}
  <2>1. p \in Nat /\ p >= FirstPage
    BY Zenon, PageEnd
  <2>2. /\ FirstPage \in Nat /\ kernel_pd(PDS) <= FirstPage /\ kernel_pd(PDS) \in Nat
        /\ heap_start \in Nat \ {0}
    BY Layout
  <2>3. bump \in Nat /\ bump <= MaxAddr + 1 /\ bump % VM_PAGE_SIZE = 0
    BY Zenon DEF PagesOk
  <2> QED BY Zenon, <2>1, <2>2, <2>3, PageFacts
<1>2. HeapPart(m2, bump, lv2, top)
  <2> DEFINE h == LastWord(top)
  <2>1. h \in Nat /\ h <= MaxAddr
    BY Zenon, HeapFacts
  <2>2. ASSUME Kept(bump, top) PROVE HeapOk(m2, lv2, h)
    <3>1. p > h
      <4>1. p \in p .. p + VM_PAGE_SIZE - 1
        BY <1>1
      <4> QED BY Zenon, <2>2, <4>1, PageWords
    <3>2. HeapOk(m, lv, h)
      BY Zenon, <2>2 DEF HeapPart
    <3> HIDE DEF h
    <3>3. \A a \in heap_start .. h : a \in Addr /\ a \notin p .. p + VM_PAGE_SIZE - 1
      BY <1>1, <2>1, <3>1 DEF Addr
    <3>4. \A a \in heap_start .. h : m2[a] = m[a]
      BY <3>3
    <3> QED BY Zenon, <2>1, <3>2, <3>4, HeapFrame
  <2> QED BY Zenon, <2>2 DEF HeapPart
<1>3. \A a \in Addr : a < kernel_pd(PDS) => m2[a] = m[a]
  <2>1. \A a \in Addr : a < kernel_pd(PDS) => a \notin p .. p + VM_PAGE_SIZE - 1
    BY <1>1 DEF Addr
  <2> QED BY <2>1
<1>4. ASSUME NEW o \in lv, o.kind = "table", NEW a \in o.ptr .. o.ptr + VM_PAGE_SIZE - 1 PROVE m2[a] = m[a]
  <2>1. o \in Paged(lv)
    BY <1>4 DEF Paged
  <2>2. IsPage(o.ptr, bump) /\ o.ptr # p
    BY <1>4, <2>1 DEF PagesOk
  <2>3. a \in Addr
    BY ZenonT(40), <1>4, <2>2, PageWords
  <2>4. a \notin p .. p + VM_PAGE_SIZE - 1
    BY <1>4, <2>2, PageOnly
  <2> QED BY <2>3, <2>4
<1>5. bump <= bump /\ \A o \in lv : o.kind = "table" => o \in lv2
  BY <1>1
<1>6. TablesPart(m2, bump, lv2, map)
  BY ZenonT(40), <1>1, <1>3, <1>4, <1>5, TablesFrame
<1> QED BY <1>2, <1>6

\* Writing in the heap keeps the other parts.
LEMMA HeapWrite ==
  ASSUME NEW m, NEW m2 \in [Addr -> Int], NEW bump, NEW fl, NEW lv, NEW lv2, NEW sl, NEW map, NEW top,
         Parts(m, bump, fl, lv, sl, map, top), NEW h \in Nat, bump = FirstPage \/ h < FirstPage,
         Paged(lv2) = Paged(lv), Slabbed(lv2) = Slabbed(lv),
         \A a \in Addr : a \notin heap_start .. h => m2[a] = m[a]
  PROVE /\ PagesOk(bump, lv2, sl) /\ SlotsOk(m2, lv2, sl) /\ ListsOk(m2, fl, lv2, sl)
        /\ TablesPart(m2, bump, lv2, map)
<1> USE DEF Parts
<1>1. /\ FirstPage \in Nat /\ kernel_pd(PDS) <= heap_start /\ kernel_pd(PDS) \in Nat
      /\ MaxAddr \in Nat /\ h \in Nat /\ bump \in Nat /\ bump <= MaxAddr + 1 /\ bump % VM_PAGE_SIZE = 0
      /\ heap_start \in Nat
  BY Layout, PageFacts DEF PagesOk
<1>2. PagesOk(bump, lv2, sl)
  BY Zenon DEF PagesOk
<1>3. ASSUME NEW p, IsPage(p, bump), NEW a \in p .. p + VM_PAGE_SIZE - 1 PROVE m2[a] = m[a]
  <2>0. a \in Addr /\ a < bump
    BY Zenon, <1>3, PageWords
  <2>1. p \in Nat /\ p >= FirstPage /\ a \in Int /\ a >= p
    BY <1>3, <2>0, PageEnd DEF Addr
  <2>2. a \notin heap_start .. h
    BY <1>1, <2>0, <2>1
  <2> QED BY <2>0, <2>2
<1>4. SameSlots(m, m2, lv, sl)
  <2>1. ASSUME NEW ci \in Classes, NEW x \in Slots(sl, ci) PROVE m2[x - 1] = m[x - 1] /\ m2[x] = m[x]
    <3>1. PICK s \in sl : /\ IsPage(s[1], bump)
                          /\ x - 1 \in s[1] .. s[1] + VM_PAGE_SIZE - 1
                          /\ x \in s[1] .. s[1] + VM_PAGE_SIZE - 1
      BY SlotWords, Zenon
    <3> QED BY <1>3, <3>1
  <2> QED BY <2>1 DEF SameSlots
<1>5. SlotsOk(m2, lv2, sl) /\ ListsOk(m2, fl, lv2, sl)
  BY <1>4, SlabFrame, ZenonT(40)
<1>6. \A a \in Addr : a < kernel_pd(PDS) => m2[a] = m[a]
  <2>1. \A a \in Addr : a < kernel_pd(PDS) => a \notin heap_start .. h
    BY <1>1 DEF Addr
  <2> QED BY <2>1
<1>7. \A o \in lv : o.kind = "table" => o \in lv2
  BY DEF Paged
<1>8. ASSUME NEW o \in lv, o.kind = "table", NEW a \in o.ptr .. o.ptr + VM_PAGE_SIZE - 1 PROVE m2[a] = m[a]
  <2>1. IsPage(o.ptr, bump)
    BY <1>8 DEF PagesOk, Paged
  <2> QED BY <1>3, <1>8, <2>1
<1>9. bump <= bump
  BY <1>1
<1>10. TablesPart(m2, bump, lv2, map)
  BY ZenonT(40), <1>1, <1>6, <1>7, <1>8, <1>9, TablesFrame
<1> QED BY <1>2, <1>5, <1>10

----------------------------------------------------------------------------
(* The blocks of the heap.                                                 *)

\* The facts of Blocks that the steps use: where the headers lie.
LEMMA Headers ==
  ASSUME NEW m, NEW lv, NEW n, NEW B, NEW h \in Nat, h <= MaxAddr,
         Blocks(m, lv, n, B, h)
  PROVE /\ n \in Nat \ {0} /\ B \in [0 .. n -> Int] /\ B[0] = heap_start /\ B[n] = NULL
        /\ \A i \in 0 .. n - 1 :
              /\ B[i] \in Nat /\ B[i] # NULL /\ B[i] >= heap_start /\ m[B[i]] \in Nat
              /\ B[i] + 3 + m[B[i]] <= h + 1
              /\ B[i] \in Addr /\ B[i] + 1 \in Addr /\ B[i] + 2 \in Addr
        /\ \A i, j \in 0 .. n - 1 : i # j => B[i] + 3 <= B[j] \/ B[j] + 3 <= B[i]
        /\ HDR = 3
<1>1. /\ n \in Nat \ {0} /\ B \in [0 .. n -> Int] /\ B[0] = heap_start /\ B[n] = NULL
      /\ \A i \in 0 .. n - 1 : B[i] >= heap_start /\ m[B[i]] \in Nat /\ B[i] + 3 + m[B[i]] <= h + 1
      /\ \A i, j \in 0 .. n - 1 : i < j => B[i] + 3 + m[B[i]] <= B[j]
  BY DEF Blocks, HDR
<1>2. heap_start \in Nat \ {0} /\ h \in Nat /\ h <= MaxAddr /\ MaxAddr \in Nat
  BY Layout, PageFacts
<1>3. ASSUME NEW i \in 0 .. n - 1
      PROVE /\ B[i] \in Nat /\ B[i] # NULL /\ m[B[i]] \in Nat
            /\ B[i] \in Addr /\ B[i] + 1 \in Addr /\ B[i] + 2 \in Addr
  <2>1. B[i] \in Int /\ B[i] >= heap_start /\ m[B[i]] \in Nat /\ B[i] + 3 + m[B[i]] <= h + 1
    BY <1>1
  <2> QED BY <1>2, <2>1 DEF NULL, Addr
<1>4. ASSUME NEW i \in 0 .. n - 1, NEW j \in 0 .. n - 1, i < j PROVE B[i] + 3 <= B[j]
  <2>1. B[i] \in Nat /\ B[j] \in Nat /\ m[B[i]] \in Nat /\ B[i] + 3 + m[B[i]] <= B[j]
    BY <1>1, <1>3, <1>4
  <2> QED BY <2>1
<1>5. ASSUME NEW i \in 0 .. n - 1, NEW j \in 0 .. n - 1, i # j PROVE B[i] + 3 <= B[j] \/ B[j] + 3 <= B[i]
  <2>1. i < j \/ j < i
    BY <1>1, <1>5
  <2> QED BY <1>4, <2>1
<1> QED BY <1>1, <1>3, <1>5 DEF HDR

\* A block's flag changes, and the others keep their headers.
LEMMA FlagWords ==
  ASSUME NEW m \in [Addr -> Int], NEW lv, NEW n, NEW B, NEW h \in Nat, h <= MaxAddr,
         Blocks(m, lv, n, B, h), NEW i \in 0 .. n - 1, NEW f \in {0, 1}
  PROVE LET m2 == [m EXCEPT ![B[i] + 1] = f]
        IN  /\ \A j \in 0 .. n - 1 : /\ m2[B[j]] = m[B[j]] /\ m2[B[j] + 2] = m[B[j] + 2]
                                     /\ m2[B[j] + 1] = IF j = i THEN f ELSE m[B[j] + 1]
            /\ m2 \in [Addr -> Int] /\ \A a \in Addr : a \notin heap_start .. h => m2[a] = m[a]
<1> DEFINE m2 == [m EXCEPT ![B[i] + 1] = f]
<1>1. B[i] \in Nat /\ B[i] + 1 \in Addr /\ B[i] >= heap_start /\ m[B[i]] \in Nat /\ B[i] + 3 + m[B[i]] <= h + 1
  BY Headers
<1>2. heap_start \in Nat /\ h \in Nat
  BY Layout
<1>3. m2 \in [Addr -> Int] /\ m2[B[i] + 1] = f /\ \A a \in Addr : a # B[i] + 1 => m2[a] = m[a]
  BY <1>1
<1> HIDE DEF m2
<1>4. \A a \in Addr : a \notin heap_start .. h => a # B[i] + 1
  BY <1>1, <1>2 DEF Addr
<1>5. ASSUME NEW j \in 0 .. n - 1
      PROVE /\ m2[B[j]] = m[B[j]] /\ m2[B[j] + 2] = m[B[j] + 2]
            /\ m2[B[j] + 1] = IF j = i THEN f ELSE m[B[j] + 1]
  <2>1. B[j] \in Nat /\ B[j] \in Addr /\ B[j] + 1 \in Addr /\ B[j] + 2 \in Addr
    BY Headers
  <2>2. j # i => B[i] + 3 <= B[j] \/ B[j] + 3 <= B[i]
    BY Headers
  <2>3. B[j] # B[i] + 1 /\ B[j] + 2 # B[i] + 1 /\ (j # i => B[j] + 1 # B[i] + 1)
    BY <1>1, <2>1, <2>2
  <2> QED BY <1>3, <2>1, <2>3
<1>6. \A a \in Addr : a \notin heap_start .. h => m2[a] = m[a]
  BY <1>3, <1>4
<1> QED BY <1>3, <1>5, <1>6 DEF m2

\* An object of the heap added or taken away.
LEMMA HeapedFacts ==
  ASSUME NEW lv, NEW o, o.kind = "heap"
  PROVE Heaped(lv \cup {o}) = Heaped(lv) \cup {o} /\ Heaped(lv \ {o}) = Heaped(lv) \ {o}
BY Zenon DEF Heaped

\* kalloc reuses a free block that is large enough.
LEMMA Reused ==
  ASSUME NEW m \in [Addr -> Int], NEW lv, NEW n, NEW B, NEW h \in Nat, h <= MaxAddr,
         Blocks(m, lv, n, B, h), NEW i \in 0 .. n - 1,
         m[B[i] + 1] = 1, m[B[i]] # 0, NEW o, o.kind = "heap", o.ptr = B[i] + HDR, o.size <= m[B[i]],
         NEW m2, m2 = [m EXCEPT ![B[i] + 1] = 0], NEW lv2, lv2 = lv \cup {o}
  PROVE Blocks(m2, lv2, n, B, h)
<1>1. \A j \in 0 .. n - 1 : /\ m2[B[j]] = m[B[j]] /\ m2[B[j] + 2] = m[B[j] + 2]
                            /\ m2[B[j] + 1] = IF j = i THEN 0 ELSE m[B[j] + 1]
  BY FlagWords
<1>2. Heaped(lv2) = Heaped(lv) \cup {o}
  BY ZenonT(40), HeapedFacts
<1>3. n \in Nat \ {0} /\ B \in [0 .. n -> Int] /\ B[0] = heap_start /\ B[n] = NULL
  BY DEF Blocks
<1>4. ASSUME NEW j \in 0 .. n - 1
      PROVE /\ B[j] >= heap_start /\ m2[B[j]] \in Nat /\ B[j] + HDR + m2[B[j]] <= h + 1
            /\ m2[B[j] + 1] \in {0, 1} /\ m2[B[j] + 2] = B[j + 1]
            /\ m2[B[j]] = 0 => n = 1 /\ m2[B[j] + 1] = 1
            /\ j + 1 < n => B[j + 1] = B[j] + HDR + m2[B[j]]
  <2>1. /\ B[j] >= heap_start /\ m[B[j]] \in Nat /\ B[j] + HDR + m[B[j]] <= h + 1
        /\ m[B[j] + 1] \in {0, 1} /\ m[B[j] + 2] = B[j + 1]
        /\ m[B[j]] = 0 => n = 1 /\ m[B[j] + 1] = 1
        /\ j + 1 < n => B[j + 1] = B[j] + HDR + m[B[j]]
    BY DEF Blocks
  <2> QED BY <1>1, <2>1
<1>5. \A j, k \in 0 .. n - 1 : j < k => B[j] + HDR + m2[B[j]] <= B[k]
  BY Zenon, <1>1 DEF Blocks
<1>6. ASSUME NEW p \in Heaped(lv)
      PROVE /\ \E j \in 0 .. n - 1 : p.ptr = B[j] + HDR /\ p.size <= m2[B[j]] /\ m2[B[j] + 1] = 0
            /\ p.ptr # o.ptr
  <2>1. PICK j \in 0 .. n - 1 : p.ptr = B[j] + HDR /\ p.size <= m[B[j]] /\ m[B[j] + 1] = 0
    BY DEF Blocks
  <2>2. j # i
    BY <2>1
  <2>3. B[j] \in Nat /\ B[i] \in Nat /\ (B[i] + 3 <= B[j] \/ B[j] + 3 <= B[i]) /\ HDR = 3
    BY <2>2, Headers
  <2>4. B[j] + HDR # B[i] + HDR
    BY <2>3
  <2> QED BY <1>1, <2>1, <2>2, <2>4
<1>7. \E j \in 0 .. n - 1 : o.ptr = B[j] + HDR /\ o.size <= m2[B[j]] /\ m2[B[j] + 1] = 0
  BY <1>1
<1>8. ASSUME NEW j \in 0 .. n - 1, m2[B[j] + 1] = 0 PROVE \E p \in Heaped(lv2) : p.ptr = B[j] + HDR
  <2>1. CASE j = i
    BY Zenon, <1>2, <2>1
  <2>2. CASE j # i
    <3>1. m[B[j] + 1] = 0
      BY <1>1, <1>8, <2>2
    <3> QED BY ZenonT(40), <1>2, <3>1 DEF Blocks
  <2> QED BY Zenon, <2>1, <2>2
<1>9. \A p, q \in Heaped(lv) : p.ptr = q.ptr => p = q
  BY DEF Blocks
<1>10. \A p, q \in Heaped(lv2) : p.ptr = q.ptr => p = q
  BY <1>2, <1>6, <1>9, ZenonT(40)
<1>11. \A p \in Heaped(lv2) : \E j \in 0 .. n - 1 : p.ptr = B[j] + HDR /\ p.size <= m2[B[j]] /\ m2[B[j] + 1] = 0
  BY <1>2, <1>6, <1>7, ZenonT(40)
<1> QED BY <1>3, <1>4, <1>5, <1>8, <1>10, <1>11, ZenonT(40) DEF Blocks

\* kfree marks the block of the object free.
LEMMA Freed ==
  ASSUME NEW m \in [Addr -> Int], NEW lv, NEW n, NEW B, NEW h \in Nat, h <= MaxAddr,
         Blocks(m, lv, n, B, h), NEW o \in Heaped(lv),
         NEW i \in 0 .. n - 1, o.ptr = B[i] + HDR,
         NEW m2, m2 = [m EXCEPT ![B[i] + 1] = 1], NEW lv2, lv2 = lv \ {o}
  PROVE Blocks(m2, lv2, n, B, h)
<1>1. \A j \in 0 .. n - 1 : /\ m2[B[j]] = m[B[j]] /\ m2[B[j] + 2] = m[B[j] + 2]
                            /\ m2[B[j] + 1] = IF j = i THEN 1 ELSE m[B[j] + 1]
  BY FlagWords
<1>2. Heaped(lv2) = Heaped(lv) \ {o}
  BY HeapedFacts DEF Heaped
<1>3. n \in Nat \ {0} /\ B \in [0 .. n -> Int] /\ B[0] = heap_start /\ B[n] = NULL
  BY DEF Blocks
<1>4. ASSUME NEW j \in 0 .. n - 1
      PROVE /\ B[j] >= heap_start /\ m2[B[j]] \in Nat /\ B[j] + HDR + m2[B[j]] <= h + 1
            /\ m2[B[j] + 1] \in {0, 1} /\ m2[B[j] + 2] = B[j + 1]
            /\ m2[B[j]] = 0 => n = 1 /\ m2[B[j] + 1] = 1
            /\ j + 1 < n => B[j + 1] = B[j] + HDR + m2[B[j]]
  <2>1. /\ B[j] >= heap_start /\ m[B[j]] \in Nat /\ B[j] + HDR + m[B[j]] <= h + 1
        /\ m[B[j] + 1] \in {0, 1} /\ m[B[j] + 2] = B[j + 1]
        /\ m[B[j]] = 0 => n = 1 /\ m[B[j] + 1] = 1
        /\ j + 1 < n => B[j + 1] = B[j] + HDR + m[B[j]]
    BY DEF Blocks
  <2> QED BY ONLY SMTT(30), <1>1, <2>1, j \in 0 .. n - 1
<1>5. \A j, k \in 0 .. n - 1 : j < k => B[j] + HDR + m2[B[j]] <= B[k]
  BY Zenon, <1>1 DEF Blocks
<1>6. \A p, q \in Heaped(lv) : p.ptr = q.ptr => p = q
  BY DEF Blocks
<1>7. ASSUME NEW p \in Heaped(lv), p # o
      PROVE \E j \in 0 .. n - 1 : p.ptr = B[j] + HDR /\ p.size <= m2[B[j]] /\ m2[B[j] + 1] = 0
  <2>1. PICK j \in 0 .. n - 1 : p.ptr = B[j] + HDR /\ p.size <= m[B[j]] /\ m[B[j] + 1] = 0
    BY DEF Blocks
  <2>2. j # i
    BY <1>6, <1>7, <2>1
  <2> QED BY <1>1, <2>1, <2>2
<1>8. ASSUME NEW j \in 0 .. n - 1, m2[B[j] + 1] = 0 PROVE \E p \in Heaped(lv2) : p.ptr = B[j] + HDR
  <2>1. j # i /\ m[B[j] + 1] = 0
    BY <1>1, <1>8
  <2>2. PICK p \in Heaped(lv) : p.ptr = B[j] + HDR
    BY ZenonT(40), <2>1 DEF Blocks
  <2>3. B[j] \in Nat /\ B[i] \in Nat /\ (B[i] + 3 <= B[j] \/ B[j] + 3 <= B[i]) /\ HDR = 3
    BY <2>1, Headers
  <2>4. B[j] + HDR # B[i] + HDR
    BY <2>3
  <2>5. p # o
    BY <2>2, <2>4
  <2> QED BY ZenonT(40), <1>2, <2>2, <2>5
<1>9. \A p, q \in Heaped(lv2) : p.ptr = q.ptr => p = q
  BY <1>2, <1>6
<1>10. \A p \in Heaped(lv2) : \E j \in 0 .. n - 1 : p.ptr = B[j] + HDR /\ p.size <= m2[B[j]] /\ m2[B[j] + 1] = 0
  BY <1>2, <1>7, Zenon
<1> QED BY <1>3, <1>4, <1>5, <1>8, <1>9, <1>10, ZenonT(40) DEF Blocks

\* kalloc makes the first block of an unused heap.
LEMMA FirstBlock ==
  ASSUME NEW m \in [Addr -> Int], NEW lv, NEW n, NEW B, NEW h \in Nat, h <= MaxAddr,
         Blocks(m, lv, n, B, h), m[B[n - 1]] = 0,
         NEW size \in Nat \ {0}, heap_start + HDR + size <= h + 1,
         NEW o, o.kind = "heap", o.ptr = heap_start + HDR, o.size <= size,
         NEW m2, m2[heap_start] = size, m2[heap_start + 1] = 0, m2[heap_start + 2] = 0,
         NEW lv2, lv2 = lv \cup {o}
  PROVE Blocks(m2, lv2, n, B, h)
<1>1. n \in Nat \ {0} /\ B \in [0 .. n -> Int] /\ B[0] = heap_start /\ B[n] = NULL
  BY DEF Blocks
<1>2. n - 1 \in 0 .. n - 1
  BY <1>1
<1>3. n = 1 /\ m[B[0] + 1] = 1
  <2>1. n = 1 /\ m[B[n - 1] + 1] = 1
    BY <1>2 DEF Blocks
  <2> QED BY <2>1
<1>4. \A j \in 0 .. n - 1 : j = 0
  BY <1>3
<1>5. Heaped(lv2) = {o}
  <2>1. Heaped(lv2) = Heaped(lv) \cup {o}
    BY ZenonT(40), HeapedFacts
  <2>2. ASSUME NEW p \in Heaped(lv) PROVE FALSE
    <3>1. PICK j \in 0 .. n - 1 : m[B[j] + 1] = 0
      BY DEF Blocks
    <3> QED BY <1>3, <1>4, <3>1
  <2> QED BY Zenon, <2>1, <2>2
<1>6. heap_start \in Nat
  BY Layout
<1>7. 0 \in 0 .. n - 1
  BY <1>3
<1>8. ASSUME NEW i \in 0 .. n - 1
      PROVE /\ B[i] = heap_start /\ B[i] >= heap_start /\ m2[B[i]] \in Nat /\ B[i] + HDR + m2[B[i]] <= h + 1
            /\ m2[B[i] + 1] \in {0, 1} /\ m2[B[i] + 2] = B[i + 1]
            /\ m2[B[i]] # 0
            /\ ~(i + 1 < n)
  <2>1. i = 0 /\ B[i] = heap_start /\ B[i + 1] = NULL /\ ~(i + 1 < n)
    BY <1>1, <1>3, <1>4
  <2>2. heap_start >= heap_start
    BY <1>6
  <2> QED BY <2>1, <2>2 DEF NULL
<1>9. \A i, j \in 0 .. n - 1 : i < j => B[i] + HDR + m2[B[i]] <= B[j]
  BY <1>4
<1>10. \A p \in Heaped(lv2) : \E i \in 0 .. n - 1 : p.ptr = B[i] + HDR /\ p.size <= m2[B[i]] /\ m2[B[i] + 1] = 0
  BY Zenon, <1>1, <1>5, <1>7
<1>11. \A i \in 0 .. n - 1 : m2[B[i] + 1] = 0 => \E p \in Heaped(lv2) : p.ptr = B[i] + HDR
  BY ZenonT(40), <1>5, <1>8
<1>12. \A p, q \in Heaped(lv2) : p.ptr = q.ptr => p = q
  BY <1>5
<1> QED BY <1>1, <1>8, <1>9, <1>10, <1>11, <1>12, ZenonT(40) DEF Blocks

\* m2 has a block at new, behind the last one, for the object o.
NewBlock(m, m2, last, new, size, o, h) ==
    /\ size \in Nat \ {0} /\ new = last + HDR + m[last] /\ new + HDR + size <= h + 1
    /\ o.kind = "heap" /\ o.ptr = new + HDR /\ o.size <= size
    /\ m2[new] = size /\ m2[new + 1] = 0 /\ m2[new + 2] = 0 /\ m2[last + 2] = new
    /\ \A a \in Addr : a < new /\ a # last + 2 => m2[a] = m[a]

\* kalloc appends a block behind the last one.
LEMMA Appended ==
  ASSUME NEW m \in [Addr -> Int], NEW lv, NEW n, NEW B, NEW h \in Nat, h <= MaxAddr,
         Blocks(m, lv, n, B, h), NEW last, last = B[n - 1], m[last] # 0,
         NEW m2, NEW new, NEW size, NEW o, NewBlock(m, m2, last, new, size, o, h), NEW lv2, lv2 = lv \cup {o}
  PROVE \E k, C : Blocks(m2, lv2, k, C, h)
<1>a. /\ size \in Nat \ {0} /\ new = last + 3 + m[last] /\ new + 3 + size <= h + 1 /\ HDR = 3
      /\ o.kind = "heap" /\ o.ptr = new + HDR /\ o.size <= size
      /\ m2[new] = size /\ m2[new + 1] = 0 /\ m2[new + 2] = 0 /\ m2[last + 2] = new
  BY DEF NewBlock, HDR
<1>b. \A a \in Addr : a < new /\ a # last + 2 => m2[a] = m[a]
  BY ZenonT(40) DEF NewBlock
<1> DEFINE C == [i \in 0 .. n + 1 |-> IF i < n THEN B[i] ELSE IF i = n THEN new ELSE NULL]
<1>1. /\ n \in Nat \ {0} /\ B \in [0 .. n -> Int] /\ B[0] = heap_start /\ B[n] = NULL
      /\ \A i \in 0 .. n - 1 :
              /\ B[i] \in Nat /\ B[i] # NULL /\ B[i] >= heap_start /\ m[B[i]] \in Nat
              /\ B[i] + 3 + m[B[i]] <= h + 1
              /\ B[i] \in Addr /\ B[i] + 1 \in Addr /\ B[i] + 2 \in Addr
      /\ \A i, j \in 0 .. n - 1 : i # j => B[i] + 3 <= B[j] \/ B[j] + 3 <= B[i]
      /\ HDR = 3
  <2>1. Blocks(m, lv, n, B, h) /\ h \in Nat /\ h <= MaxAddr
    OBVIOUS
  <2> QED BY ONLY SMTT(30), <2>1, Headers
<1>2. /\ \A i \in 0 .. n - 1 : /\ m[B[i] + 1] \in {0, 1} /\ m[B[i] + 2] = B[i + 1]
                               /\ m[B[i]] = 0 => n = 1
                               /\ i + 1 < n => B[i + 1] = B[i] + HDR + m[B[i]]
      /\ \A i, j \in 0 .. n - 1 : i < j => B[i] + HDR + m[B[i]] <= B[j]
  BY DEF Blocks
<1>3. n - 1 \in 0 .. n - 1 /\ last \in Nat /\ m[last] \in Nat \ {0} /\ heap_start \in Nat /\ h \in Nat
      /\ last >= heap_start
  BY <1>1, Layout
<1>4. new \in Nat /\ new > last + 3 /\ new >= heap_start
  BY <1>a, <1>3
<1>5. /\ C \in [0 .. n + 1 -> Int] /\ C[n] = new /\ C[n + 1] = NULL /\ \A i \in 0 .. n - 1 : C[i] = B[i]
  <2>1. \A i \in 0 .. n + 1 : i < n => i \in 0 .. n
    BY <1>1
  <2>2. C \in [0 .. n + 1 -> Int]
    BY <1>1, <1>4, <2>1 DEF NULL
  <2>3. /\ n \in 0 .. n + 1 /\ ~(n < n) /\ n + 1 \in 0 .. n + 1 /\ ~(n + 1 < n) /\ n + 1 # n
        /\ \A i \in 0 .. n - 1 : i \in 0 .. n + 1 /\ i < n
    BY <1>1
  <2>4. C[n] = new /\ C[n + 1] = NULL
    BY <2>3
  <2>5. \A i \in 0 .. n - 1 : C[i] = B[i]
    BY <2>3
  <2> QED BY ZenonT(40), <2>2, <2>4, <2>5
<1> HIDE DEF C
<1>6. ASSUME NEW i \in 0 .. n - 1
      PROVE /\ m2[B[i]] = m[B[i]] /\ m2[B[i] + 1] = m[B[i] + 1] /\ m2[B[i] + 2] = C[i + 1]
            /\ B[i] + HDR + m[B[i]] <= new /\ m[B[i]] # 0 /\ C[i + 1] = B[i] + HDR + m[B[i]]
            /\ B[i] < new
  <2>1. /\ B[i] \in Nat /\ m[B[i]] \in Nat /\ B[i] \in Addr /\ B[i] + 1 \in Addr /\ B[i] + 2 \in Addr
        /\ last \in Nat /\ m[last] \in Nat /\ new = last + 3 + m[last] /\ HDR = 3
    BY ZenonT(40), <1>a, <1>1, <1>3
  <2>2. CASE i = n - 1
    <3>1. B[i] = last /\ i + 1 = n
      BY <1>1, <2>2
    <3>2. m2[last] = m[last] /\ m2[last + 1] = m[last + 1]
      <4>1. last < new /\ last + 1 < new /\ last # last + 2 /\ last + 1 # last + 2
        BY <1>3, <1>4
      <4> QED BY ZenonT(40), <1>b, <2>1, <3>1, <4>1
    <3>3. m2[last + 2] = new /\ C[n] = new
      BY ZenonT(40), <1>a, <1>5
    <3>4. last + 3 + m[last] <= new /\ last < new /\ m[last] # 0
      BY <1>3, <1>4, <2>1
    <3> QED BY <2>1, <3>1, <3>2, <3>3, <3>4
  <2>3. CASE i # n - 1
    <3>1. i < n - 1 /\ i + 1 \in 0 .. n - 1 /\ i + 1 < n
      BY <1>1, <2>3
    <3>2. B[i] + 3 + m[B[i]] <= last
      BY <1>1, <1>2, <1>3, <3>1
    <3>3. m[B[i] + 2] = B[i + 1] /\ B[i + 1] = B[i] + HDR + m[B[i]] /\ (m[B[i]] = 0 => n = 1)
      BY <1>2, <3>1
    <3>4. C[i + 1] = B[i + 1]
      BY <1>5, <3>1
    <3>5. m[B[i]] # 0
      BY <1>1, <3>1, <3>3
    <3>6. /\ B[i] < new /\ B[i] + 1 < new /\ B[i] + 2 < new /\ B[i] # last + 2 /\ B[i] + 1 # last + 2
          /\ B[i] + 2 # last + 2 /\ B[i] + 3 + m[B[i]] <= new
      BY <1>3, <1>4, <2>1, <3>2
    <3>7. m2[B[i]] = m[B[i]] /\ m2[B[i] + 1] = m[B[i] + 1] /\ m2[B[i] + 2] = m[B[i] + 2]
      BY ZenonT(40), <1>b, <2>1, <3>6
    <3> QED BY <2>1, <3>3, <3>4, <3>5, <3>6, <3>7
  <2> QED BY <2>2, <2>3
<1>7. ASSUME NEW i \in 0 .. (n + 1) - 1
      PROVE /\ C[i] >= heap_start /\ m2[C[i]] \in Nat /\ C[i] + HDR + m2[C[i]] <= h + 1
            /\ m2[C[i] + 1] \in {0, 1} /\ m2[C[i] + 2] = C[i + 1]
            /\ m2[C[i]] # 0
            /\ i + 1 < n + 1 => C[i + 1] = C[i] + HDR + m2[C[i]]
  <2>1. CASE i = n
    <3>1. C[i] = new /\ C[i + 1] = NULL /\ ~(i + 1 < n + 1)
      BY <1>1, <1>5, <2>1
    <3> QED BY <1>a, <1>4, <3>1 DEF NULL
  <2>2. CASE i # n
    <3>1. i \in 0 .. n - 1
      BY <1>1, <2>2
    <3>2. C[i] = B[i]
      BY <1>5, <3>1
    <3>3. /\ B[i] >= heap_start /\ m[B[i]] \in Nat /\ B[i] + HDR + m[B[i]] <= h + 1 /\ m[B[i] + 1] \in {0, 1}
      BY ZenonT(40), <1>1, <1>2, <3>1
    <3> QED BY <1>6, <3>1, <3>2, <3>3
  <2> QED BY <2>1, <2>2
<1>8. ASSUME NEW i \in 0 .. (n + 1) - 1, NEW j \in 0 .. (n + 1) - 1, i < j PROVE C[i] + HDR + m2[C[i]] <= C[j]
  <2>1. i \in 0 .. n - 1
    BY <1>1, <1>8
  <2>2. C[i] = B[i] /\ m2[B[i]] = m[B[i]] /\ B[i] + HDR + m[B[i]] <= new
    BY <1>5, <1>6, <2>1
  <2>3. CASE j = n
    BY <1>5, <2>2, <2>3
  <2>4. CASE j # n
    <3>1. j \in 0 .. n - 1
      BY <1>1, <2>4
    <3> QED BY <1>2, <1>5, <1>8, <2>1, <2>2, <3>1
  <2> QED BY <2>3, <2>4
<1>9. Heaped(lv2) = Heaped(lv) \cup {o}
  BY ZenonT(40), <1>a, HeapedFacts
<1>10. ASSUME NEW p \in Heaped(lv)
       PROVE /\ \E i \in 0 .. (n + 1) - 1 : p.ptr = C[i] + HDR /\ p.size <= m2[C[i]] /\ m2[C[i] + 1] = 0
             /\ p.ptr # o.ptr
  <2>1. PICK i \in 0 .. n - 1 : p.ptr = B[i] + HDR /\ p.size <= m[B[i]] /\ m[B[i] + 1] = 0
    BY DEF Blocks
  <2>2. i \in 0 .. (n + 1) - 1 /\ C[i] = B[i] /\ m2[B[i]] = m[B[i]] /\ m2[B[i] + 1] = m[B[i] + 1] /\ B[i] < new
        /\ B[i] \in Nat
    <3>1. i \in 0 .. (n + 1) - 1
      BY <1>1
    <3> QED BY ZenonT(40), <1>1, <1>5, <1>6, <3>1
  <2>3. B[i] + HDR # new + HDR
    BY <1>1, <1>4, <2>2
  <2> QED BY ZenonT(40), <1>a, <2>1, <2>2, <2>3
<1>11. n \in 0 .. (n + 1) - 1 /\ o.ptr = C[n] + HDR /\ o.size <= m2[C[n]] /\ m2[C[n] + 1] = 0
  <2>1. n \in 0 .. (n + 1) - 1
    BY <1>1
  <2> QED BY ZenonT(40), <1>a, <1>5, <2>1
<1>12. ASSUME NEW i \in 0 .. (n + 1) - 1, m2[C[i] + 1] = 0 PROVE \E p \in Heaped(lv2) : p.ptr = C[i] + HDR
  <2>1. CASE i = n
    BY ZenonT(40), <1>a, <1>5, <1>9, <2>1
  <2>2. CASE i # n
    <3>1. i \in 0 .. n - 1
      BY <1>1, <2>2
    <3>2. C[i] = B[i] /\ m[B[i] + 1] = 0
      BY <1>5, <1>6, <1>12, <3>1
    <3>3. \E p \in Heaped(lv) : p.ptr = B[i] + HDR
      BY <3>1, <3>2 DEF Blocks
    <3> QED BY ZenonT(40), <1>9, <3>2, <3>3
  <2> QED BY ZenonT(40), <2>1, <2>2
<1>13. \A p, q \in Heaped(lv) : p.ptr = q.ptr => p = q
  BY DEF Blocks
<1>14. \A p, q \in Heaped(lv2) : p.ptr = q.ptr => p = q
  BY <1>9, <1>10, <1>13, ZenonT(40)
<1>15. \A p \in Heaped(lv2) : \E i \in 0 .. (n + 1) - 1 : p.ptr = C[i] + HDR /\ p.size <= m2[C[i]] /\ m2[C[i] + 1] = 0
  BY <1>9, <1>10, <1>11, ZenonT(40)
<1>16. n + 1 \in Nat \ {0} /\ C[0] = heap_start
  BY <1>1, <1>5
<1>17. \A i \in 0 .. (n + 1) - 1 :
          /\ C[i] >= heap_start /\ m2[C[i]] \in Nat /\ C[i] + HDR + m2[C[i]] <= h + 1
          /\ m2[C[i] + 1] \in {0, 1} /\ m2[C[i] + 2] = C[i + 1]
          /\ m2[C[i]] = 0 => n + 1 = 1 /\ m2[C[i] + 1] = 1
          /\ i + 1 < n + 1 => C[i + 1] = C[i] + HDR + m2[C[i]]
  BY <1>7, Zenon
<1>18. Blocks(m2, lv2, n + 1, C, h)
  BY <1>5, <1>8, <1>12, <1>14, <1>15, <1>16, <1>17, ZenonT(40) DEF Blocks
<1> QED BY <1>18
=============================================================================
