------------------------- MODULE MCKernelMemory -------------------------
(* Instance of KernelMemory for TLC: pages of 12 words, two classes of    *)
(* two slots a page, and between _kernel_end and the first page room for  *)
(* one heap block of the smallest size, and not of the other.             *)
EXTENDS KernelMemory

MCClassSizes == <<5, 6>>

\* A boot uses the heap beside drivers' pages and slabs, or beside page tables.
Boots == {{"page", "slab", "heap"}, {"map", "heap"}, {"page", "map"}}

\* The tables of all the mappings take six pages, and three are kept for the next one.
MCMaxPages == [u \in Uses |-> IF "map" \in u THEN 9 ELSE 2]

\* A client writes what looks like a header of the first class.
MCFills == {SlabHeader(1)}
=========================================================================
