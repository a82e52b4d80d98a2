------------------------ MODULE KernelPagesProofs ------------------------
(***************************************************************************)
(* Proofs about KernelMemory, first part: the page tables, for any page    *)
(* size, number of page directories, classes and addresses that satisfy    *)
(* the module's assumptions.                                               *)
(*                                                                         *)
(* A table is named by its level and the number of the part of the address *)
(* space that it translates; tab says where each table lies.  Mapping says *)
(* that every word of every table is the entry that tab and the mapped     *)
(* pages want there.  Translation derives vm_virt_to_phys from it, and     *)
(* MapPageOk shows that vm_map_page keeps it, when it fails as well.       *)
(*                                                                         *)
(* The module also states the inductive invariant of all the allocators.   *)
(***************************************************************************)
EXTENDS KernelMemory, TLAPS

\* The solver gets more time than by default, as the obligations have long contexts; the
\* steps that are first-order reasoning cite Zenon.
USE SMTT(30), ZenonT(30), SMTT(31)

----------------------------------------------------------------------------
(* Arithmetic.                                                             *)

\* What lies above a positive number is positive.
LEMMA Positive == \A k \in Nat \ {0} : \A f \in Nat : k <= f => f \in Nat \ {0}
BY SMT

\* The words from p to below d, of which the first is not 0, are addresses.
LEMMA WordsBelow == \A p \in Nat \ {0} : \A x \in Nat : \A d \in Nat :
    d <= x + 1 => \A b \in p .. d - 1 : b \in 1 .. x
BY SMT

\* A word below p is not among them.
LEMMA NotAbove == \A x \in Int, p, d \in Nat : x < p => x \notin p .. d - 1
BY SMT

\* A page of s words that starts at b, not in the first page, and ends at e.
LEMMA PageInside ==
    ASSUME NEW s \in Nat \ {0}, NEW b \in Nat, NEW e, NEW x \in Nat, NEW j \in 0 .. s - 1,
           b >= s + s + s, b + s <= e, e \in Nat, e <= x + 1
    PROVE  b + j \in 1 .. x /\ b + j < e
BY SMT

\* The next multiple of b lies b further.
LEMMA Step == ASSUME NEW a \in Int, NEW c \in Int, NEW b \in Nat, a < c PROVE a * b + b <= c * b
<1>1. PICK d \in Nat : c = a + 1 + d
  <2>1. c - a - 1 \in Nat OBVIOUS
  <2> QED BY <2>1
<1>2. c * b = a * b + b + d * b
  BY <1>1
<1>3. d * b >= 0
  OBVIOUS
<1> QED BY <1>2, <1>3

\* Quotient and remainder.
LEMMA Division == ASSUME NEW a \in Int, NEW b \in Nat \ {0}
  PROVE /\ a \div b \in Int /\ a % b \in 0 .. b - 1
        /\ a = (a \div b) * b + (a % b)
<1>1. a \div b \in Int /\ a % b \in 0 .. b - 1
  OBVIOUS
<1>2. a = (a \div b) * b + (a % b)
  OBVIOUS
<1> QED BY <1>1, <1>2

\* Different numbers have different multiples.
LEMMA TimesApart == ASSUME NEW a \in Nat, NEW c \in Nat, NEW b \in Nat \ {0}, a # c
  PROVE a * b # c * b
<1>1. CASE a < c
  <2>1. a * b + b <= c * b
    BY <1>1, Step
  <2> QED BY <2>1
<1>2. CASE c < a
  <2>1. c * b + b <= a * b
    BY <1>2, Step
  <2> QED BY <2>1
<1> QED BY <1>1, <1>2

\* Quotient and remainder of natural numbers.
LEMMA NatDivision == ASSUME NEW a \in Nat, NEW b \in Nat \ {0}
  PROVE /\ a \div b \in Nat /\ a % b \in 0 .. b - 1
        /\ a = (a \div b) * b + (a % b)
<1>1. a \div b \in Nat
  OBVIOUS
<1> QED BY <1>1, Division

\* Quotient and remainder of q * b + r are q and r.
LEMMA Quotient == ASSUME NEW b \in Nat \ {0}, NEW q \in Int, NEW r \in 0 .. b - 1
  PROVE (q * b + r) \div b = q /\ (q * b + r) % b = r
<1> DEFINE a == q * b + r
<1>1. a \in Int /\ a \div b \in Int /\ a % b \in 0 .. b - 1 /\ a = (a \div b) * b + (a % b)
  BY Division
<1> DEFINE p == a \div b
<1>2. p \in Int /\ a = p * b + (a % b) /\ a = q * b + r
  BY <1>1
<1> HIDE DEF p, a
<1>3. ~(p < q)
  BY <1>1, <1>2, Step
<1>4. ~(q < p)
  BY <1>1, <1>2, Step
<1>5. p = q
  BY <1>2, <1>3, <1>4
<1>6. a % b = r
  BY <1>1, <1>2, <1>5
<1> QED BY <1>5, <1>6 DEF a, p

\* Dividing by b and then by c divides by b * c.
LEMMA DivDiv == ASSUME NEW a \in Nat, NEW b \in Nat \ {0}, NEW c \in Nat \ {0}
  PROVE (a \div b) \div c = a \div (b * c)
<1> DEFINE p == a \div b   q == p \div c
<1>1. p \in Int /\ a % b \in 0 .. b - 1 /\ a = p * b + (a % b)
  BY Division
<1>2. q \in Int /\ p % c \in 0 .. c - 1 /\ p = q * c + (p % c)
  BY <1>1, Division
<1> DEFINE s == (p % c) * b + (a % b)
<1> HIDE DEF p, q
<1>3. (p % c) + 1 <= c /\ p % c \in Nat
  BY <1>2
<1>4. s \in Int /\ s >= 0
  BY <1>1, <1>3
<1>5. (p % c) * b + b <= c * b
  BY <1>2, Step
<1>6. s <= b * c - 1
  BY <1>1, <1>3, <1>5
<1>7. a = q * (b * c) + s
  <2>1. p * b = (q * c) * b + (p % c) * b
    BY <1>2, <1>3
  <2>2. (q * c) * b = q * (b * c)
    BY <1>2
  <2>3. (q * c) * b \in Int /\ (p % c) * b \in Int
    BY <1>2, <1>3
  <2> QED BY <1>1, <2>1, <2>2, <2>3
<1> DEFINE d == b * c
<1>8. d \in Nat \ {0}
  OBVIOUS
<1> HIDE DEF s
<1>9. s \in 0 .. d - 1 /\ a = q * d + s
  BY <1>4, <1>6, <1>7, <1>8
<1> HIDE DEF d
<1>10. a \div d = q
  BY Zenon, <1>2, <1>8, <1>9, Quotient
<1> QED BY <1>10 DEF q, p, d

\* An entry for a table or a page, and one for a large page.
Link(a) == Entry(a, FALSE)

Large(a) == Entry(a, TRUE)

\* An entry gives back what it was made of.
LEMMA EntryFacts == ASSUME NEW a \in Nat
  PROVE /\ Present(Link(a)) /\ ~Huge(Link(a)) /\ AddrOf(Link(a)) = a
        /\ Present(Large(a)) /\ Huge(Large(a)) /\ AddrOf(Large(a)) = a
        /\ Link(a) \in Int /\ Large(a) \in Int
BY DEF Link, Large, Entry, Present, Huge, AddrOf

\* An empty entry is neither present nor large.
LEMMA NoEntry == ~Present(0) /\ ~Huge(0)
BY DEF Present, Huge

\* Aligned addresses are apart by a page.
LEMMA Apart == ASSUME NEW a \in Nat, NEW b \in Nat, NEW p \in Nat \ {0},
                      a % p = 0, b % p = 0, a < b
  PROVE a + p <= b
<1>1. a = (a \div p) * p /\ b = (b \div p) * p /\ a \div p \in Int /\ b \div p \in Int
  BY Division
<1>2. a \div p < b \div p
  <2>1. SUFFICES ASSUME b \div p <= a \div p PROVE FALSE
    BY <1>1
  <2>2. CASE b \div p = a \div p
    BY <1>1, <2>2
  <2>3. CASE b \div p < a \div p
    <3>1. (b \div p) * p + p <= (a \div p) * p
      BY <1>1, <2>3, Step
    <3> QED BY <1>1, <3>1
  <2> QED BY <1>1, <2>1, <2>2, <2>3
<1>3. (a \div p) * p + p <= (b \div p) * p
  BY <1>1, <1>2, Step
<1> QED BY <1>1, <1>3

\* The multiples of a number are the numbers it divides.
LEMMA Multiple == ASSUME NEW q \in Nat, NEW p \in Nat \ {0}
  PROVE q * p \in Nat /\ (q * p) % p = 0
<1>1. q \in Int /\ 0 \in 0 .. p - 1 /\ q * p \in Nat /\ q * p + 0 = q * p
  OBVIOUS
<1>2. (q * p + 0) % p = 0
  BY <1>1, Quotient
<1> QED BY <1>1, <1>2

\* An aligned address is a multiple of the page size.
LEMMA Aligned == ASSUME NEW a \in Nat, NEW p \in Nat \ {0}, a % p = 0
  PROVE \E q \in Nat : a = q * p
<1>1. a \div p \in Nat /\ a = (a \div p) * p + (a % p)
  BY NatDivision
<1>2. a = (a \div p) * p
  BY <1>1
<1> QED BY <1>1, <1>2

\* The address after an aligned page is aligned.
LEMMA NextPage == ASSUME NEW a \in Nat, NEW p \in Nat \ {0}, a % p = 0
  PROVE (a + p) % p = 0
<1>1. PICK q \in Nat : a = q * p
  BY Aligned
<1>2. a + p = (q + 1) * p /\ q + 1 \in Nat
  BY <1>1
<1>3. ((q + 1) * p) % p = 0
  BY Zenon, <1>2, Multiple
<1> QED BY <1>2, <1>3

----------------------------------------------------------------------------
(* The tree.                                                               *)

\* The number, among the tables of a level, of the one that translates v.
Prefix(v, l) == v \div (VM_PAGE_SIZE * Span[l])

\* The spans are positive, and each is a page of the one below.
LEMMA Spans ==
    /\ VM_PAGE_SIZE \in Nat \ {0}
    /\ \A l \in 1 .. 4 : Span[l] \in Nat \ {0}
    /\ Span[1] = VM_PAGE_SIZE
    /\ \A l \in 2 .. 4 : Span[l] = VM_PAGE_SIZE * Span[l - 1]
    /\ PtSpan = VM_PAGE_SIZE * Span[1] /\ PdSpan = VM_PAGE_SIZE * Span[2]
    /\ PtSpan \in Nat \ {0} /\ PdSpan \in Nat \ {0}
<1>1. VM_PAGE_SIZE \in Nat \ {0}
  BY MemAssumption
<1>2. PtSpan \in Nat \ {0}
  BY <1>1 DEF PtSpan
<1>3. PdSpan \in Nat \ {0}
  BY <1>1, <1>2 DEF PdSpan
<1>4. VM_PAGE_SIZE * PdSpan \in Nat \ {0}
  BY <1>1, <1>3
<1> QED BY <1>1, <1>2, <1>3, <1>4 DEF Span, PtSpan, PdSpan

\* The sizes are positive.
LEMMA PageFacts == /\ VM_PAGE_SIZE \in Nat \ {0} /\ PDS \in Nat \ {0} /\ MaxAddr \in Nat
                   /\ PDS * VM_PAGE_SIZE \in Nat
<1>1. VM_PAGE_SIZE \in Nat \ {0} /\ PDS \in Nat \ {0} /\ MaxAddr \in Nat
  BY MemAssumption
<1> QED BY <1>1

\* A table's number and the index in it make the number of the table below.
LEMMA Digits == ASSUME NEW v \in Nat
  PROVE /\ \A l \in 1 .. 4 : Index(v, l) \in 0 .. VM_PAGE_SIZE - 1 /\ Prefix(v, l) \in Nat
        /\ \A l \in 2 .. 4 : Prefix(v, l - 1) = Prefix(v, l) * VM_PAGE_SIZE + Index(v, l)
        /\ \A l \in 2 .. 4 : Prefix(v, l) = Prefix(v, l - 1) \div VM_PAGE_SIZE
        /\ v \div VM_PAGE_SIZE = Prefix(v, 1) * VM_PAGE_SIZE + Index(v, 1)
<1> DEFINE PS == VM_PAGE_SIZE
<1>0. PS \in Nat \ {0} /\ (\A l \in 1 .. 4 : Span[l] \in Nat \ {0})
  BY Spans
<1>1. ASSUME NEW l \in 1 .. 4
      PROVE /\ v \div Span[l] \in Nat /\ Index(v, l) \in 0 .. PS - 1
            /\ v \div Span[l] = ((v \div Span[l]) \div PS) * PS + Index(v, l)
  <2>1. Span[l] \in Nat \ {0}
    BY <1>0
  <2>2. v \div Span[l] \in Nat
    BY <2>1
  <2> DEFINE q == v \div Span[l]
  <2>3. q \in Int /\ q \in Nat /\ Index(v, l) = q % PS
    BY <2>2 DEF Index
  <2> HIDE DEF q
  <2>4. q % PS \in 0 .. PS - 1 /\ q = (q \div PS) * PS + (q % PS)
    BY ONLY Zenon, <1>0, <2>3, Division
  <2> QED BY <2>3, <2>4 DEF q
<1>2. ASSUME NEW l \in 1 .. 4 PROVE (v \div Span[l]) \div PS = Prefix(v, l)
  <2>1. Span[l] \in Nat \ {0} /\ PS * Span[l] = Span[l] * PS
    BY <1>0
  <2>2. (v \div Span[l]) \div PS = v \div (Span[l] * PS)
    BY <1>0, <2>1, DivDiv
  <2> QED BY <2>1, <2>2 DEF Prefix
<1>3. ASSUME NEW l \in 1 .. 4 PROVE Prefix(v, l) \in Nat
  <2>1. (v \div Span[l]) \div PS \in Nat
    BY <1>0, <1>1
  <2> QED BY <2>1, <1>2
<1>4. ASSUME NEW l \in 2 .. 4 PROVE Prefix(v, l - 1) = v \div Span[l]
  BY Spans DEF Prefix
<1>5. v \div VM_PAGE_SIZE = v \div Span[1]
  BY Spans
<1> HIDE DEF PS
<1>6. \A l \in 2 .. 4 : Prefix(v, l - 1) = Prefix(v, l) * PS + Index(v, l)
  <2> SUFFICES ASSUME NEW l \in 2 .. 4 PROVE Prefix(v, l - 1) = Prefix(v, l) * PS + Index(v, l)
    OBVIOUS
  <2>1. l \in 1 .. 4
    OBVIOUS
  <2>2. v \div Span[l] = ((v \div Span[l]) \div PS) * PS + Index(v, l)
    BY <1>1, <2>1
  <2> QED BY <1>2, <1>4, <2>1, <2>2
<1>7. \A l \in 2 .. 4 : Prefix(v, l) = Prefix(v, l - 1) \div PS
  BY <1>2, <1>4
<1>8. v \div VM_PAGE_SIZE = Prefix(v, 1) * PS + Index(v, 1)
  <2>1. v \div Span[1] = ((v \div Span[1]) \div PS) * PS + Index(v, 1)
    BY <1>1
  <2> QED BY <1>2, <1>5, <2>1
<1> QED BY <1>1, <1>3, <1>6, <1>7, <1>8 DEF PS

\* tab says which page is the table of a level and number: the four levels
\* start at kernel_pml4, the tables of vm_init are where they are in the image, a
\* table's parent is a table, two tables share no page, all of them lie below the
\* bump pointer, and the words vm_init maps have no page table.
Tables(tab, bump) ==
    /\ DOMAIN tab \subseteq (1 .. 4) \X Nat
    /\ <<4, 0>> \in DOMAIN tab /\ tab[<<4, 0>>] = kernel_pml4
    /\ <<3, 0>> \in DOMAIN tab
    /\ \A i \in 0 .. PDS - 1 : <<2, i>> \in DOMAIN tab
    /\ \A l \in 1 .. 3, b \in Nat :
          <<l, b>> \in DOMAIN tab => <<l + 1, b \div VM_PAGE_SIZE>> \in DOMAIN tab
    /\ \A b \in Nat : <<1, b>> \in DOMAIN tab => b >= PDS * VM_PAGE_SIZE
    /\ \A k \in DOMAIN tab :
          tab[k] \in Nat \ {0} /\ tab[k] % VM_PAGE_SIZE = 0 /\ tab[k] + VM_PAGE_SIZE <= bump
    /\ \A j, k \in DOMAIN tab : tab[j] = tab[k] => j = k

\* The entry for the table of level l and number b, for a page at level 0.
Wanted(tab, map, l, b) ==
    IF l = 0
    THEN IF b * VM_PAGE_SIZE \in DOMAIN map THEN Link(map[b * VM_PAGE_SIZE]) ELSE 0
    ELSE IF <<l, b>> \in DOMAIN tab THEN Link(tab[<<l, b>>])
    ELSE IF l = 1 /\ b < PDS * VM_PAGE_SIZE THEN Large(b * PtSpan) ELSE 0

\* Every word of every table is the entry wanted there.
Entries(m, tab, map) ==
    \A l \in 1 .. 4, b \in Nat : <<l, b>> \in DOMAIN tab =>
        \A i \in 0 .. VM_PAGE_SIZE - 1 :
            m[tab[<<l, b>>] + i] = Wanted(tab, map, l - 1, b * VM_PAGE_SIZE + i)

\* The mapped addresses are pages, and their page tables exist.
MappedIn(tab, map) ==
    \A p \in DOMAIN map :
        /\ p \in Nat /\ p % VM_PAGE_SIZE = 0 /\ map[p] \in Nat \ {0}
        /\ <<1, Prefix(p, 1)>> \in DOMAIN tab

\* A table's ancestors are tables.
LEMMA Ancestors == ASSUME NEW tab, NEW bump, Tables(tab, bump), NEW v \in Nat
  PROVE \A l \in 1 .. 3 : <<l, Prefix(v, l)>> \in DOMAIN tab => <<l + 1, Prefix(v, l + 1)>> \in DOMAIN tab
<1> SUFFICES ASSUME NEW l \in 1 .. 3, <<l, Prefix(v, l)>> \in DOMAIN tab
             PROVE <<l + 1, Prefix(v, l + 1)>> \in DOMAIN tab
  OBVIOUS
<1>1. l + 1 \in 2 .. 4 /\ (l + 1) - 1 = l /\ l \in 1 .. 4
  OBVIOUS
<1>2. Prefix(v, l + 1) = Prefix(v, l) \div VM_PAGE_SIZE /\ Prefix(v, l) \in Nat
  BY Zenon, <1>1, Digits
<1> QED BY <1>2 DEF Tables

\* The page of an address has the address's number and index at level 1.
LEMMA PageOf == ASSUME NEW v \in Nat
  PROVE LET page == v - (v % VM_PAGE_SIZE)
        IN  /\ page \in Nat /\ page % VM_PAGE_SIZE = 0
            /\ page = (v \div VM_PAGE_SIZE) * VM_PAGE_SIZE
            /\ page \div VM_PAGE_SIZE = v \div VM_PAGE_SIZE
            /\ \A l \in 1 .. 4 : Prefix(page, l) = Prefix(v, l)
<1> DEFINE page == v - (v % VM_PAGE_SIZE)
           q == v \div VM_PAGE_SIZE
<1>0. VM_PAGE_SIZE \in Nat \ {0}
  BY Spans
<1>1. q \in Nat /\ v % VM_PAGE_SIZE \in 0 .. VM_PAGE_SIZE - 1 /\ v = q * VM_PAGE_SIZE + (v % VM_PAGE_SIZE)
  BY Zenon, <1>0, NatDivision
<1> HIDE DEF q
<1>2. q * VM_PAGE_SIZE \in Nat
  BY <1>0, <1>1
<1>3. page = q * VM_PAGE_SIZE /\ page = q * VM_PAGE_SIZE + 0 /\ page \in Nat
  BY <1>0, <1>1, <1>2
<1>4. page \div VM_PAGE_SIZE = q /\ page % VM_PAGE_SIZE = 0
  <2>1. 0 \in 0 .. VM_PAGE_SIZE - 1 /\ q \in Int
    BY <1>0, <1>1
  <2>2. (q * VM_PAGE_SIZE + 0) \div VM_PAGE_SIZE = q /\ (q * VM_PAGE_SIZE + 0) % VM_PAGE_SIZE = 0
    BY <1>0, <2>1, Quotient
  <2> QED BY <1>3, <2>2
<1> HIDE DEF page
<1>5. ASSUME NEW l \in 1 .. 4 PROVE Prefix(page, l) = Prefix(v, l)
  <2>1. Span[l] \in Nat \ {0}
    BY Spans
  <2>2. (page \div VM_PAGE_SIZE) \div Span[l] = page \div (VM_PAGE_SIZE * Span[l])
    BY Zenon, <1>0, <1>3, <2>1, DivDiv
  <2>3. (v \div VM_PAGE_SIZE) \div Span[l] = v \div (VM_PAGE_SIZE * Span[l])
    BY <1>0, <2>1, DivDiv
  <2> QED BY <1>4, <2>2, <2>3 DEF Prefix, q
<1> QED BY <1>3, <1>4, <1>5 DEF page, q

\* A quotient is below n exactly when the dividend is below n divisors.
LEMMA QuotientBelow == ASSUME NEW v \in Nat, NEW s \in Nat \ {0}, NEW n \in Nat
  PROVE v \div s < n <=> v < n * s
<1> DEFINE q == v \div s
<1>1. q \in Nat /\ v % s \in 0 .. s - 1 /\ v = q * s + (v % s)
  BY Zenon, NatDivision
<1> HIDE DEF q
<1>2. CASE q < n
  <2>1. q * s + s <= n * s
    BY <1>1, <1>2, Step
  <2> QED BY <1>1, <1>2, <2>1 DEF q
<1>3. CASE n <= q
  <2>1. n * s <= q * s
    BY <1>1, <1>3
  <2> QED BY <1>1, <1>3, <2>1 DEF q
<1> QED BY <1>1, <1>2, <1>3

\* With such tables, vm_virt_to_phys finds what vm_map_page and vm_init were told.
LEMMA Translation ==
  ASSUME NEW tab, NEW bump, Tables(tab, bump), Entries(mem, tab, mapped), MappedIn(tab, mapped)
  PROVE TranslatesAsMapped
<1> SUFFICES ASSUME NEW v \in Virts
             PROVE vm_virt_to_phys(v) =
                     LET page == v - (v % VM_PAGE_SIZE)
                     IN  IF page \in DOMAIN mapped THEN mapped[page] + (v % VM_PAGE_SIZE)
                         ELSE IF v < PDS * PdSpan THEN v ELSE 0
  BY DEF TranslatesAsMapped
<1> DEFINE page == v - (v % VM_PAGE_SIZE)
           P(l) == Prefix(v, l)
           In(l) == <<l, P(l)>> \in DOMAIN tab
           Word(l) == mem[tab[<<l, P(l)>>] + Index(v, l)]
           off == v % VM_PAGE_SIZE
<1>1. v \in Nat /\ v < VM_PAGE_SIZE * Span[4]
  BY RoomAssumption, Spans
<1>2. P(4) = 0
  <2>1. VM_PAGE_SIZE * Span[4] \in Nat \ {0}
    BY Spans
  <2> QED BY <1>1, <2>1 DEF Prefix
<1>3. \A l \in 1 .. 4 : P(l) \in Nat /\ Index(v, l) \in 0 .. VM_PAGE_SIZE - 1
  BY Zenon, <1>1, Digits
<1>4. In(4) /\ (In(1) => In(2)) /\ (In(2) => In(3))
  <2>1. In(4)
    BY <1>2 DEF Tables
  <2> QED BY <1>1, <2>1, Ancestors
<1>5. /\ P(3) = P(4) * VM_PAGE_SIZE + Index(v, 4)
      /\ P(2) = P(3) * VM_PAGE_SIZE + Index(v, 3)
      /\ P(1) = P(2) * VM_PAGE_SIZE + Index(v, 2)
      /\ v \div VM_PAGE_SIZE = P(1) * VM_PAGE_SIZE + Index(v, 1)
  BY <1>1, Digits
<1>6. \A l \in 1 .. 4 : In(l) => Word(l) = Wanted(tab, mapped, l - 1, P(l) * VM_PAGE_SIZE + Index(v, l))
  <2> SUFFICES ASSUME NEW l \in 1 .. 4, In(l)
               PROVE Word(l) = Wanted(tab, mapped, l - 1, P(l) * VM_PAGE_SIZE + Index(v, l))
    OBVIOUS
  <2> QED BY <1>3 DEF Entries
<1>7. /\ In(4) => Word(4) = Wanted(tab, mapped, 3, P(3))
      /\ In(3) => Word(3) = Wanted(tab, mapped, 2, P(2))
      /\ In(2) => Word(2) = Wanted(tab, mapped, 1, P(1))
      /\ In(1) => Word(1) = Wanted(tab, mapped, 0, v \div VM_PAGE_SIZE)
  BY <1>4, <1>5, <1>6
<1>8. page \in Nat /\ page = (v \div VM_PAGE_SIZE) * VM_PAGE_SIZE /\ Prefix(page, 1) = P(1)
  BY <1>1, PageOf
<1>9. page \in DOMAIN mapped => In(1) /\ mapped[page] \in Nat \ {0}
  BY <1>8 DEF MappedIn
<1>10. v < PDS * PdSpan <=> P(2) < PDS
  <2>1. P(2) = v \div PdSpan /\ PDS \in Nat
    BY Spans, MemAssumption DEF Prefix
  <2> QED BY ONLY SMTT(30), <1>1, <2>1, Spans, QuotientBelow
<1>11. v < PDS * PdSpan <=> P(1) < PDS * VM_PAGE_SIZE
  <2>1. PDS * PdSpan = (PDS * VM_PAGE_SIZE) * PtSpan /\ PDS * VM_PAGE_SIZE \in Nat
    BY Spans, MemAssumption DEF PdSpan
  <2>2. P(1) = v \div PtSpan
    BY Spans DEF Prefix
  <2> QED BY <1>1, <2>1, <2>2, Spans, QuotientBelow
<1>12. v < PDS * PdSpan => In(2)
  <2>1. P(2) \in Nat /\ PDS \in Nat
    BY <1>3, MemAssumption
  <2>2. P(2) < PDS => P(2) \in 0 .. PDS - 1
    BY <2>1
  <2> QED BY <1>10, <2>2 DEF Tables
<1>13. In(1) => ~(v < PDS * PdSpan)
  <2>1. PDS * VM_PAGE_SIZE \in Nat
    BY MemAssumption
  <2> QED BY <1>3, <1>11, <2>1 DEF Tables
<1>14. off \in Nat
  BY <1>1, Spans
<1>16. tab[<<4, P(4)>>] = kernel_pml4
  BY <1>2 DEF Tables
<1>17. v = P(1) * PtSpan + (v % PtSpan) /\ P(1) * PtSpan \in Nat
  <2>1. P(1) = v \div PtSpan /\ PtSpan \in Nat \ {0}
    BY Spans DEF Prefix
  <2>2. v = (v \div PtSpan) * PtSpan + (v % PtSpan) /\ v \div PtSpan \in Nat
    BY Zenon, <1>1, <2>1, NatDivision
  <2> QED BY <2>1, <2>2
<1> DEFINE Tab(l) == tab[<<l, P(l)>>]
<1>15. (In(1) => Tab(1) \in Nat) /\ (In(2) => Tab(2) \in Nat) /\ (In(3) => Tab(3) \in Nat)
  BY DEF Tables
<1>0. /\ Word(4) = IF In(3) THEN Link(Tab(3)) ELSE 0
      /\ In(3) => Word(3) = IF In(2) THEN Link(Tab(2)) ELSE 0
      /\ In(2) => Word(2) = IF In(1) THEN Link(Tab(1))
                            ELSE IF P(1) < PDS * VM_PAGE_SIZE THEN Large(P(1) * PtSpan) ELSE 0
      /\ In(1) => Word(1) = IF page \in DOMAIN mapped THEN Link(mapped[page]) ELSE 0
  BY <1>4, <1>7, <1>8 DEF Wanted
<1> DEFINE R == IF page \in DOMAIN mapped THEN mapped[page] + off ELSE IF v < PDS * PdSpan THEN v ELSE 0
<1> HIDE DEF P, In, page, off, Word, Tab
<1>18. CASE ~In(3)
  <2>1. Word(4) = 0
    BY <1>0, <1>18
  <2>2. vm_virt_to_phys(v) = 0
    BY <2>1, <1>16, NoEntry DEF vm_virt_to_phys, Word, Tab
  <2>3. R = 0
    BY <1>4, <1>9, <1>12, <1>18
  <2> QED BY <2>2, <2>3 DEF page, off
<1>19. CASE In(3) /\ ~In(2)
  <2>1. Word(4) = Link(Tab(3)) /\ Word(3) = 0
    BY <1>0, <1>19
  <2>2. AddrOf(Word(4)) = Tab(3)
    BY <1>15, <1>19, <2>1, EntryFacts
  <2>3. vm_virt_to_phys(v) = 0
    BY <2>1, <2>2, <1>16, NoEntry DEF vm_virt_to_phys, Word, Tab
  <2>4. R = 0
    BY <1>4, <1>9, <1>12, <1>19
  <2> QED BY <2>3, <2>4 DEF page, off
<1>20. CASE In(3) /\ In(2) /\ ~In(1)
  <2>1. Word(4) = Link(Tab(3)) /\ Word(3) = Link(Tab(2))
    BY <1>0, <1>20
  <2>2. /\ AddrOf(Word(4)) = Tab(3) /\ Present(Word(4))
        /\ AddrOf(Word(3)) = Tab(2) /\ Present(Word(3))
    BY <1>15, <1>20, <2>1, EntryFacts
  <2>3. CASE v < PDS * PdSpan
    <3>1. Word(2) = Large(P(1) * PtSpan)
      BY <1>0, <1>11, <1>20, <2>3
    <3>2. Present(Word(2)) /\ Huge(Word(2)) /\ AddrOf(Word(2)) = P(1) * PtSpan
      BY <3>1, <1>17, EntryFacts
    <3>3. vm_virt_to_phys(v) = P(1) * PtSpan + (v % PtSpan)
      BY <2>2, <3>2, <1>16 DEF vm_virt_to_phys, Word, Tab
    <3>4. R = v
      BY <1>9, <1>20, <2>3
    <3> QED BY <3>3, <3>4, <1>17 DEF page, off
  <2>4. CASE ~(v < PDS * PdSpan)
    <3>1. Word(2) = 0
      BY ZenonT(40), <1>0, <1>11, <1>20, <2>4
    <3>2. vm_virt_to_phys(v) = 0
      BY <2>2, <3>1, <1>16, NoEntry DEF vm_virt_to_phys, Word, Tab
    <3>3. R = 0
      BY <1>9, <1>20, <2>4
    <3> QED BY <3>2, <3>3 DEF page, off
  <2> QED BY <2>3, <2>4
<1>21. CASE In(3) /\ In(2) /\ In(1)
  <2>1. /\ Word(4) = Link(Tab(3)) /\ Word(3) = Link(Tab(2))
        /\ Word(2) = Link(Tab(1))
        /\ Word(1) = IF page \in DOMAIN mapped THEN Link(mapped[page]) ELSE 0
    BY <1>0, <1>21
  <2>2. /\ AddrOf(Word(4)) = Tab(3) /\ Present(Word(4))
        /\ AddrOf(Word(3)) = Tab(2) /\ Present(Word(3))
        /\ AddrOf(Word(2)) = Tab(1) /\ Present(Word(2)) /\ ~Huge(Word(2))
    BY ZenonT(40), <1>15, <1>21, <2>1, EntryFacts
  <2>3. vm_virt_to_phys(v) = IF ~Present(Word(1)) THEN 0 ELSE AddrOf(Word(1)) + off
    BY <2>2, <1>16 DEF vm_virt_to_phys, Word, Tab, off
  <2>4. CASE page \in DOMAIN mapped
    BY <2>1, <2>3, <2>4, <1>9, EntryFacts DEF page, off
  <2>5. CASE page \notin DOMAIN mapped
    BY <2>1, <2>3, <2>5, <1>13, <1>21, NoEntry DEF page, off
  <2> QED BY <2>4, <2>5
<1> QED BY <1>18, <1>19, <1>20, <1>21

\* Memory with such tables.
Mapping(m, bump, tab, map) ==
    /\ m \in [Addr -> Int]
    /\ bump \in Nat /\ bump % VM_PAGE_SIZE = 0 /\ bump >= kernel_pd(PDS)
    /\ Tables(tab, bump) /\ Entries(m, tab, map) /\ MappedIn(tab, map)

\* What a call of vm_map_page may do on the way: take pages for new tables, and
\* write in the tables.
Grown(m, bump, tab, m2, bump2, tab2) ==
    /\ bump <= bump2
    /\ \A k \in DOMAIN tab : k \in DOMAIN tab2 /\ tab2[k] = tab[k]
    /\ \A k \in DOMAIN tab2 \ DOMAIN tab : tab2[k] \in bump .. bump2 - 1
    /\ \A a \in Addr : \/ m2[a] = m[a]
                       \/ a \in bump .. bump2 - 1
                       \/ \E k \in DOMAIN tab : a \in tab[k] .. tab[k] + VM_PAGE_SIZE - 1

\* Two such pieces of a call make one.
LEMMA GrownTwice ==
  ASSUME NEW m, NEW m1, NEW m2, NEW bump \in Nat, NEW bump1 \in Nat, NEW bump2 \in Nat,
         NEW tab, NEW tab1, NEW tab2, Tables(tab1, bump1),
         Grown(m, bump, tab, m1, bump1, tab1), Grown(m1, bump1, tab1, m2, bump2, tab2)
  PROVE Grown(m, bump, tab, m2, bump2, tab2)
<1>0. VM_PAGE_SIZE \in Nat \ {0}
  BY Spans
<1>1. bump <= bump2
  BY DEF Grown
<1>2. \A k \in DOMAIN tab : k \in DOMAIN tab2 /\ tab2[k] = tab[k]
  BY DEF Grown
<1>3. ASSUME NEW k \in DOMAIN tab2 \ DOMAIN tab PROVE tab2[k] \in bump .. bump2 - 1
  <2>1. CASE k \in DOMAIN tab1
    <3>1. tab2[k] = tab1[k] /\ tab1[k] \in bump .. bump1 - 1 /\ bump1 <= bump2
      BY <2>1, <1>3 DEF Grown
    <3> QED BY <3>1
  <2>2. CASE k \notin DOMAIN tab1
    <3>1. tab2[k] \in bump1 .. bump2 - 1 /\ bump <= bump1
      BY <2>2, <1>3 DEF Grown
    <3> QED BY <3>1
  <2> QED BY <2>1, <2>2
<1>4. ASSUME NEW a \in Addr, m2[a] # m[a], a \notin bump .. bump2 - 1
      PROVE \E k \in DOMAIN tab : a \in tab[k] .. tab[k] + VM_PAGE_SIZE - 1
  <2>1. bump <= bump1 /\ bump1 <= bump2 /\ a \in Int
    BY DEF Grown, Addr
  <2>2. a \notin bump .. bump1 - 1 /\ a \notin bump1 .. bump2 - 1
    BY <1>4, <2>1
  <2>3. CASE m1[a] # m[a]
    BY <2>2, <2>3 DEF Grown
  <2>4. CASE m2[a] # m1[a]
    <3>1. PICK k \in DOMAIN tab1 : a \in tab1[k] .. tab1[k] + VM_PAGE_SIZE - 1
      BY <2>2, <2>4 DEF Grown
    <3>2. k \in DOMAIN tab
      <4>1. SUFFICES ASSUME k \notin DOMAIN tab PROVE FALSE
        OBVIOUS
      <4>2. tab1[k] \in bump .. bump1 - 1
        BY <4>1 DEF Grown
      <4>3. tab1[k] \in Nat /\ tab1[k] + VM_PAGE_SIZE <= bump1
        BY DEF Tables
      <4> QED BY <1>0, <2>2, <3>1, <4>2, <4>3
    <3>3. tab1[k] = tab[k]
      BY <3>2 DEF Grown
    <3> QED BY <3>1, <3>2, <3>3
  <2> QED BY <1>4, <2>3, <2>4
<1> QED BY <1>1, <1>2, <1>3, <1>4 DEF Grown

\* A number and an index are told from their sum.
LEMMA SameDigits == ASSUME NEW b \in Nat, NEW c \in Nat, NEW i \in 0 .. VM_PAGE_SIZE - 1,
                           NEW j \in 0 .. VM_PAGE_SIZE - 1
  PROVE /\ (b * VM_PAGE_SIZE + i) \div VM_PAGE_SIZE = b
        /\ b * VM_PAGE_SIZE + i = c * VM_PAGE_SIZE + j => b = c /\ i = j
<1>1. VM_PAGE_SIZE \in Nat \ {0} /\ b \in Int /\ c \in Int
  BY Spans
<1>2. (b * VM_PAGE_SIZE + i) \div VM_PAGE_SIZE = b /\ (b * VM_PAGE_SIZE + i) % VM_PAGE_SIZE = i
  BY <1>1, Quotient
<1>3. (c * VM_PAGE_SIZE + j) \div VM_PAGE_SIZE = c /\ (c * VM_PAGE_SIZE + j) % VM_PAGE_SIZE = j
  BY <1>1, Quotient
<1> QED BY <1>2, <1>3

\* Two tables share no word.
LEMMA WordsApart ==
  ASSUME NEW tab, NEW bump, Tables(tab, bump), NEW k \in DOMAIN tab, NEW h \in DOMAIN tab,
         NEW i \in 0 .. VM_PAGE_SIZE - 1, NEW j \in 0 .. VM_PAGE_SIZE - 1,
         tab[k] + i = tab[h] + j
  PROVE k = h /\ i = j
<1> DEFINE T == tab[k]
           S == tab[h]
<1>1. T \in Nat /\ T % VM_PAGE_SIZE = 0 /\ S \in Nat /\ S % VM_PAGE_SIZE = 0
  BY DEF Tables
<1>2. VM_PAGE_SIZE \in Nat \ {0} /\ T + i = S + j
  BY PageFacts
<1> HIDE DEF T, S
<1>3. ~(T < S)
  <2>1. T < S => T + VM_PAGE_SIZE <= S
    BY Zenon, <1>1, <1>2, Apart
  <2> QED BY <1>1, <1>2, <2>1
<1>4. ~(S < T)
  <2>1. S < T => S + VM_PAGE_SIZE <= T
    BY Zenon, <1>1, <1>2, Apart
  <2> QED BY <1>1, <1>2, <2>1
<1>5. T = S /\ i = j
  BY <1>1, <1>2, <1>3, <1>4
<1> QED BY <1>5 DEF T, S, Tables

\* A step of the walk reaches the table below, and the mapping is as it was.
LEMMA DescendAt ==
  ASSUME NEW m, NEW bump, NEW tab, NEW map, Mapping(m, bump, tab, map),
         NEW l \in 2 .. 4, NEW b \in Nat, <<l, b>> \in DOMAIN tab, NEW i \in 0 .. VM_PAGE_SIZE - 1,
         bump + VM_PAGE_SIZE <= MaxAddr + 1,
         l = 2 => b * VM_PAGE_SIZE + i >= PDS * VM_PAGE_SIZE
  PROVE LET w == [mem |-> m, bump |-> bump, table |-> tab[<<l, b>>]]
            child == <<l - 1, b * VM_PAGE_SIZE + i>>
        IN  \E m2, bump2, tab2 :
              /\ Mapping(m2, bump2, tab2, map) /\ Grown(m, bump, tab, m2, bump2, tab2)
              /\ child \in DOMAIN tab2
              /\ Descend(w, i) = [mem |-> m2, bump |-> bump2, table |-> tab2[child]]
              /\ bump2 \in {bump, bump + VM_PAGE_SIZE}
<1> DEFINE PS == VM_PAGE_SIZE
           T == tab[<<l, b>>]
           w == [mem |-> m, bump |-> bump, table |-> T]
           c == b * PS + i
           child == <<l - 1, c>>
<1>0. /\ PS \in Nat \ {0} /\ PDS \in Nat /\ PDS * PS \in Nat /\ MaxAddr \in Nat
      /\ l \in 1 .. 4 /\ l - 1 \in 1 .. 3
  BY PageFacts
<1>1. T \in Nat \ {0} /\ T % PS = 0 /\ T + PS <= bump /\ bump \in Nat
  BY DEF Mapping, Tables
<1>2. c \in Nat /\ c \div PS = b
  BY <1>0, SameDigits
<1>3. m[T + i] = Wanted(tab, map, l - 1, c)
  BY <1>0 DEF Mapping, Entries
<1>4. CASE child \in DOMAIN tab
  <2>1. m[T + i] = Link(tab[child])
    BY <1>0, <1>3, <1>4 DEF Wanted
  <2>2. tab[child] \in Nat
    BY <1>4 DEF Mapping, Tables
  <2>3. Present(m[T + i]) /\ AddrOf(m[T + i]) = tab[child]
    BY <2>1, <2>2, EntryFacts
  <2>4. Descend(w, i) = [mem |-> m, bump |-> bump, table |-> tab[child]]
    BY <2>3 DEF Descend
  <2>5. Grown(m, bump, tab, m, bump, tab)
    BY <1>1 DEF Grown
  <2> HIDE DEF child, w, T, c
  <2> QED BY <1>4, <2>4, <2>5 DEF child, w, T, c
<1>5. CASE child \notin DOMAIN tab
  <2> DEFINE m2 == [Zeroed(m, bump) EXCEPT ![T + i] = Link(bump)]
             bump2 == bump + PS
             tab2 == [k \in DOMAIN tab \cup {child} |-> IF k = child THEN bump ELSE tab[k]]
  <2>1. m[T + i] = 0
    BY <1>0, <1>2, <1>3, <1>5 DEF Wanted
  <2>2. Descend(w, i) = [mem |-> m2, bump |-> bump2, table |-> bump]
    BY <2>1, NoEntry DEF Descend, Link
  <2>3. DOMAIN tab2 = DOMAIN tab \cup {child} /\ tab2[child] = bump
        /\ \A k \in DOMAIN tab : k \in DOMAIN tab2 /\ tab2[k] = tab[k]
    BY <1>5
  <2>4. T + i \in Addr /\ T + i < bump
    BY <1>0, <1>1 DEF Addr
  <2>5. m2 \in [Addr -> Int]
    <3>1. Link(bump) \in Int
      BY <1>1, EntryFacts
    <3>2. Zeroed(m, bump) \in [Addr -> Int]
      BY DEF Zeroed, Mapping
    <3> QED BY Zenon, <3>1, <3>2
  <2>6. \A a \in Addr : m2[a] = IF a = T + i THEN Link(bump)
                                ELSE IF a \in bump .. bump + PS - 1 THEN 0 ELSE m[a]
    BY <2>4 DEF Zeroed
  <2> HIDE DEF m2, tab2, bump2
  <2>7. Tables(tab2, bump2)
    <3> HIDE DEF T, c
    <3>1. DOMAIN tab2 \subseteq (1 .. 4) \X Nat
      BY <1>0, <1>2, <2>3 DEF Mapping, Tables
    <3>2. /\ <<4, 0>> \in DOMAIN tab2 /\ tab2[<<4, 0>>] = kernel_pml4 /\ <<3, 0>> \in DOMAIN tab2
          /\ \A j \in 0 .. PDS - 1 : <<2, j>> \in DOMAIN tab2
      BY <2>3 DEF Mapping, Tables
    <3>3. ASSUME NEW l1 \in 1 .. 3, NEW b1 \in Nat, <<l1, b1>> \in DOMAIN tab2
          PROVE <<l1 + 1, b1 \div VM_PAGE_SIZE>> \in DOMAIN tab2
      <4>1. CASE <<l1, b1>> = child
        <5>1. l1 + 1 = l /\ b1 \div VM_PAGE_SIZE = b
          BY <1>2, <4>1
        <5> QED BY <2>3, <5>1
      <4>2. CASE <<l1, b1>> \in DOMAIN tab
        BY <2>3, <4>2 DEF Mapping, Tables
      <4> QED BY <2>3, <3>3, <4>1, <4>2
    <3>4. ASSUME NEW b1 \in Nat, <<1, b1>> \in DOMAIN tab2 PROVE b1 >= PDS * VM_PAGE_SIZE
      <4>1. CASE <<1, b1>> = child
        BY <4>1 DEF c
      <4>2. CASE <<1, b1>> \in DOMAIN tab
        BY <4>2 DEF Mapping, Tables
      <4> QED BY <2>3, <3>4, <4>1, <4>2
    <3>5. ASSUME NEW k \in DOMAIN tab2
          PROVE tab2[k] \in Nat \ {0} /\ tab2[k] % VM_PAGE_SIZE = 0 /\ tab2[k] + VM_PAGE_SIZE <= bump2
      <4>1. CASE k = child
        BY <1>0, <1>1, <2>3, <4>1 DEF bump2, Mapping
      <4>2. CASE k \in DOMAIN tab
        <5>1. tab2[k] \in Nat \ {0} /\ tab2[k] % VM_PAGE_SIZE = 0 /\ tab2[k] + VM_PAGE_SIZE <= bump
          BY <2>3, <4>2 DEF Mapping, Tables
        <5> QED BY <1>0, <1>1, <5>1 DEF bump2
      <4> QED BY <2>3, <4>1, <4>2
    <3>6. ASSUME NEW j \in DOMAIN tab2, NEW k \in DOMAIN tab2, tab2[j] = tab2[k] PROVE j = k
      <4>1. \A h \in DOMAIN tab : tab[h] # bump
        BY <1>0, <1>1 DEF Mapping, Tables
      <4> QED BY <2>3, <3>6, <4>1 DEF Mapping, Tables
    <3> QED BY <3>1, <3>2, <3>3, <3>4, <3>5, <3>6 DEF Tables
  <2>8. Entries(m2, tab2, map)
    <3> SUFFICES ASSUME NEW l1 \in 1 .. 4, NEW b1 \in Nat, <<l1, b1>> \in DOMAIN tab2, NEW j \in 0 .. PS - 1
                 PROVE m2[tab2[<<l1, b1>>] + j] = Wanted(tab2, map, l1 - 1, b1 * PS + j)
      BY DEF Entries
    <3>1. CASE <<l1, b1>> = child
      <4>1. l1 = l - 1 /\ b1 = c
        BY <3>1
      <4>2. m2[bump + j] = 0
        <5>1. bump + j \in Addr /\ bump + j # T + i /\ bump + j \in bump .. bump + PS - 1
          BY <1>0, <1>1, <2>4 DEF Addr
        <5> QED BY <2>6, <5>1
      <4>3. c * PS + j \in Nat /\ (c * PS + j) \div PS = c
        BY <1>0, <1>2, SameDigits
      <4>4. CASE l1 = 1
        <5> DEFINE d == c * PS + j
                   p == d * PS
        <5>1. d \in Nat /\ d \div PS = c
          BY <4>3
        <5> HIDE DEF d
        <5>2. p \in Nat /\ p = d * PS + 0
          BY <1>0, <5>1
        <5>3. p \div PS = d
          <6>1. 0 \in 0 .. PS - 1
            BY <1>0
          <6>2. (d * PS + 0) \div PS = d
            BY <5>1, <6>1, SameDigits
          <6> QED BY <5>2, <6>2
        <5> HIDE DEF p
        <5>4. Prefix(p, 1) = (p \div PS) \div PS
          <6>1. (p \div PS) \div PS = p \div (PS * PS)
            BY <1>0, <5>2, DivDiv
          <6> QED BY <6>1, Spans DEF Prefix
        <5>5. p \notin DOMAIN map
          <6>1. SUFFICES ASSUME p \in DOMAIN map PROVE FALSE
            OBVIOUS
          <6>2. <<1, c>> \in DOMAIN tab
            BY <5>1, <5>3, <5>4, <6>1 DEF Mapping, MappedIn
          <6> QED BY <1>5, <4>1, <4>4, <6>2
        <5>6. Wanted(tab2, map, 0, d) = 0
          BY <5>5 DEF Wanted, p
        <5> QED BY <2>3, <3>1, <4>1, <4>2, <4>4, <5>6 DEF d
      <4>5. CASE l1 # 1
        <5> DEFINE d == c * PS + j
        <5>1. d \in Nat /\ d \div PS = c /\ l1 - 1 \in 1 .. 3 /\ l1 - 1 # 0
          BY <4>3, <4>5
        <5> HIDE DEF d
        <5>2. <<l1 - 1, d>> \notin DOMAIN tab2
          <6>1. SUFFICES ASSUME <<l1 - 1, d>> \in DOMAIN tab2 PROVE FALSE
            OBVIOUS
          <6>2. <<l1 - 1, d>> \in DOMAIN tab
            BY <2>3, <4>1, <6>1
          <6>3. <<(l1 - 1) + 1, d \div PS>> \in DOMAIN tab
            BY <5>1, <6>2 DEF Mapping, Tables
          <6> QED BY <1>5, <4>1, <5>1, <6>3
        <5>3. ~(l1 - 1 = 1 /\ d < PDS * PS)
          <6>1. SUFFICES ASSUME l1 = 2, d < PDS * PS PROVE FALSE
            OBVIOUS
          <6>2. c < PDS
            BY <1>0, <5>1, <6>1, QuotientBelow
          <6>3. c \in 0 .. PDS - 1
            BY <1>0, <1>2, <6>2
          <6>4. <<2, c>> \in DOMAIN tab
            BY <6>3 DEF Mapping, Tables
          <6> QED BY <1>5, <4>1, <6>1, <6>4
        <5>4. Wanted(tab2, map, l1 - 1, d) = 0
          BY <5>1, <5>2, <5>3 DEF Wanted
        <5> QED BY <2>3, <3>1, <4>1, <4>2, <5>4 DEF d
      <4> QED BY <4>4, <4>5
    <3>2. CASE <<l1, b1>> \in DOMAIN tab
      <4> DEFINE T1 == tab[<<l1, b1>>]
                 d == b1 * PS + j
      <4>1. T1 \in Nat \ {0} /\ T1 % PS = 0 /\ T1 + PS <= bump /\ tab2[<<l1, b1>>] = T1
        BY <2>3, <3>2 DEF Mapping, Tables
      <4>2. T1 + j \in Addr /\ T1 + j < bump
        BY <1>0, <1>1, <4>1 DEF Addr
      <4>3. m[T1 + j] = Wanted(tab, map, l1 - 1, d)
        BY <3>2 DEF Mapping, Entries
      <4>4. CASE l1 = l /\ b1 = b /\ j = i
        <5>1. m2[T1 + j] = Link(bump)
          BY <2>6, <4>2, <4>4
        <5>2. Wanted(tab2, map, l1 - 1, d) = Link(bump)
          BY <1>0, <2>3, <4>4 DEF Wanted
        <5> QED BY <4>1, <5>1, <5>2
      <4>5. CASE ~(l1 = l /\ b1 = b /\ j = i)
        <5>1. T1 + j # T + i
          <6>1. SUFFICES ASSUME T1 + j = T + i PROVE FALSE
            OBVIOUS
          <6>2. <<l1, b1>> = <<l, b>> /\ j = i
            BY <3>2, <6>1, WordsApart DEF Mapping
          <6> QED BY <4>5, <6>2
        <5>2. m2[T1 + j] = m[T1 + j]
          BY <1>1, <2>6, <4>2, <5>1
        <5>3. <<l1 - 1, d>> # child
          BY <4>5, SameDigits
        <5>4. Wanted(tab2, map, l1 - 1, d) = Wanted(tab, map, l1 - 1, d)
          BY <2>3, <5>3 DEF Wanted
        <5> QED BY <4>1, <4>3, <5>2, <5>4
      <4> QED BY <4>4, <4>5
    <3> QED BY <2>3, <3>1, <3>2
  <2>9. MappedIn(tab2, map)
    BY <2>3 DEF MappedIn, Mapping
  <2>10. bump2 \in Nat /\ bump2 % PS = 0 /\ bump2 >= kernel_pd(PDS)
    <3>1. bump % PS = 0 /\ bump >= kernel_pd(PDS) /\ kernel_pd(PDS) \in Int
      BY PageFacts DEF Mapping, kernel_pd
    <3>2. (bump + PS) % PS = 0
      BY <1>0, <1>1, <3>1, NextPage
    <3> QED BY <1>0, <1>1, <3>1, <3>2 DEF bump2
  <2>11. Grown(m, bump, tab, m2, bump2, tab2)
    <3>1. bump <= bump2
      BY <1>0, <1>1 DEF bump2
    <3>2. \A k \in DOMAIN tab2 \ DOMAIN tab : tab2[k] \in bump .. bump2 - 1
      BY <1>0, <1>1, <2>3 DEF bump2
    <3>3. ASSUME NEW a \in Addr, m2[a] # m[a], a \notin bump .. bump2 - 1
          PROVE \E k \in DOMAIN tab : a \in tab[k] .. tab[k] + VM_PAGE_SIZE - 1
      <4> HIDE DEF T
      <4>1. SUFFICES ASSUME a # T + i PROVE FALSE
        BY <1>0, <1>1, <4>1 DEF T
      <4>2. m2[a] = IF a \in bump .. bump + PS - 1 THEN 0 ELSE m[a]
        BY <2>6, <4>1
      <4>3. a \notin bump .. bump + PS - 1
        BY <1>0, <1>1, <3>3 DEF bump2
      <4> QED BY <3>3, <4>2, <4>3
    <3> QED BY <2>3, <3>1, <3>2, <3>3 DEF Grown
  <2>12. Mapping(m2, bump2, tab2, map)
    BY <2>5, <2>7, <2>8, <2>9, <2>10 DEF Mapping
  <2> HIDE DEF w, child
  <2>13. Descend(w, i) = [mem |-> m2, bump |-> bump2, table |-> tab2[child]]
    BY <2>2, <2>3
  <2>14. bump2 \in {bump, bump + VM_PAGE_SIZE} /\ child \in DOMAIN tab2
    BY <2>3 DEF bump2
  <2> QED BY <2>11, <2>12, <2>13, <2>14 DEF w, child, c, T
<1> QED BY Zenon, <1>4, <1>5

\* The walk w has reached table b of level l, and there is a page for a new table.
At(w, m, bump, tab, map, l, b) ==
    /\ Mapping(m, bump, tab, map) /\ bump + VM_PAGE_SIZE <= MaxAddr + 1
    /\ l \in 2 .. 4 /\ b \in Nat /\ <<l, b>> \in DOMAIN tab
    /\ w = [mem |-> m, bump |-> bump, table |-> tab[<<l, b>>]]

\* From there the walk w has reached the table k.
Onto(w, m, bump, tab, map, k) ==
    \E m2, bump2, tab2 :
        /\ Mapping(m2, bump2, tab2, map) /\ Grown(m, bump, tab, m2, bump2, tab2)
        /\ k \in DOMAIN tab2
        /\ w = [mem |-> m2, bump |-> bump2, table |-> tab2[k]]
        /\ bump2 \in {bump, bump + VM_PAGE_SIZE}

\* The same, in these words.
LEMMA DescendOk ==
  ASSUME NEW w, NEW m, NEW bump, NEW tab, NEW map, NEW l, NEW b, At(w, m, bump, tab, map, l, b),
         NEW i \in 0 .. VM_PAGE_SIZE - 1, NEW k, k = <<l - 1, b * VM_PAGE_SIZE + i>>,
         l = 2 => b * VM_PAGE_SIZE + i >= PDS * VM_PAGE_SIZE
  PROVE Onto(Descend(w, i), m, bump, tab, map, k)
BY DescendAt, ZenonT(40) DEF At, Onto

\* The memory after the last write of vm_map_page, and what is mapped then.
WithEntry(m, a, phys) == [m EXCEPT ![a] = Link(phys)]

WithPage(map, virt, phys) ==
    [v \in DOMAIN map \cup {virt} |-> IF v = virt THEN phys ELSE map[v]]

\* Writing the entry of a page maps this page and no other.
LEMMA WriteEntry ==
  ASSUME NEW m, NEW bump, NEW tab, NEW map, Mapping(m, bump, tab, map),
         NEW virt \in Nat, virt % VM_PAGE_SIZE = 0, NEW phys \in Nat \ {0},
         <<1, Prefix(virt, 1)>> \in DOMAIN tab, bump <= MaxAddr + 1
  PROVE LET m2 == WithEntry(m, tab[<<1, Prefix(virt, 1)>>] + Index(virt, 1), phys)
        IN  /\ Mapping(m2, bump, tab, WithPage(map, virt, phys))
            /\ Grown(m, bump, tab, m2, bump, tab)
<1> DEFINE PS == VM_PAGE_SIZE
           P == Prefix(virt, 1)
           I == Index(virt, 1)
           T == tab[<<1, P>>]
           m2 == WithEntry(m, T + I, phys)
           map2 == WithPage(map, virt, phys)
<1>0. PS \in Nat \ {0} /\ MaxAddr \in Nat
  BY PageFacts
<1>1. P \in Nat /\ I \in 0 .. PS - 1 /\ virt \div PS = P * PS + I
  BY Digits
<1>2. virt = (P * PS + I) * PS
  <2>1. virt = (virt \div PS) * PS + (virt % PS) /\ virt \div PS \in Nat
    BY Zenon, <1>0, NatDivision
  <2>2. virt = (virt \div PS) * PS
    BY <1>0, <2>1
  <2> QED BY Zenon, <1>1, <2>2
<1>3. T \in Nat \ {0} /\ T + PS <= bump /\ bump \in Nat
  BY DEF Mapping, Tables
<1>4. T + I \in Addr
  BY <1>0, <1>1, <1>3 DEF Addr
<1>5. m2 \in [Addr -> Int] /\ \A a \in Addr : m2[a] = IF a = T + I THEN Link(phys) ELSE m[a]
  <2>1. Link(phys) \in Int
    BY EntryFacts
  <2> QED BY <1>4, <2>1 DEF Mapping, WithEntry
<1>6. DOMAIN map2 = DOMAIN map \cup {virt} /\ map2[virt] = phys
      /\ \A v \in DOMAIN map : v # virt => map2[v] = map[v]
  BY DEF WithPage
<1> HIDE DEF m2, map2, P, I, T
<1>7. Entries(m2, tab, map2)
  <2> SUFFICES ASSUME NEW l \in 1 .. 4, NEW b \in Nat, <<l, b>> \in DOMAIN tab, NEW j \in 0 .. PS - 1
               PROVE m2[tab[<<l, b>>] + j] = Wanted(tab, map2, l - 1, b * PS + j)
    BY DEF Entries
  <2> DEFINE S == tab[<<l, b>>]
             d == b * PS + j
  <2>1. S \in Nat \ {0} /\ S + PS <= bump
    BY DEF Mapping, Tables
  <2>2. S + j \in Addr
    BY <1>0, <1>3, <2>1 DEF Addr
  <2>3. m[S + j] = Wanted(tab, map, l - 1, d)
    BY DEF Mapping, Entries
  <2>4. CASE l = 1 /\ b = P /\ j = I
    <3>1. m2[S + j] = Link(phys)
      BY <1>5, <2>2, <2>4 DEF T
    <3>2. Wanted(tab, map2, l - 1, d) = Link(phys)
      BY <1>2, <1>6, <2>4 DEF Wanted
    <3> QED BY <3>1, <3>2
  <2>5. CASE ~(l = 1 /\ b = P /\ j = I)
    <3>1. S + j # T + I
      <4>1. SUFFICES ASSUME S + j = T + I PROVE FALSE
        OBVIOUS
      <4>2. <<l, b>> = <<1, P>> /\ j = I
        BY <1>1, <4>1, WordsApart DEF Mapping, T, P
      <4> QED BY <2>5, <4>2
    <3>2. m2[S + j] = m[S + j]
      BY <1>5, <2>2, <3>1
    <3>3. CASE l = 1
      <4>1. d # P * PS + I /\ d \in Nat /\ P * PS + I \in Nat
        <5>1. d \in Nat /\ P * PS + I \in Nat
          BY <1>0, <1>1
        <5>2. d = P * PS + I => b = P /\ j = I
          BY <1>1, SameDigits
        <5> QED BY <2>5, <3>3, <5>1, <5>2
      <4> DEFINE q == P * PS + I
      <4> HIDE DEF d, q
      <4>2. d * PS # virt
        <5>1. virt = q * PS /\ q \in Nat /\ d \in Nat /\ d # q
          BY <1>2, <4>1 DEF q
        <5>2. q * PS # d * PS
          BY <1>0, <5>1, TimesApart
        <5> QED BY <5>1, <5>2
      <4>3. Wanted(tab, map2, l - 1, d) = Wanted(tab, map, l - 1, d)
        BY <1>6, <3>3, <4>2 DEF Wanted
      <4> QED BY <2>3, <3>2, <4>3 DEF d
    <3>4. CASE l # 1
      <4>1. Wanted(tab, map2, l - 1, d) = Wanted(tab, map, l - 1, d)
        BY <3>4 DEF Wanted
      <4> QED BY <2>3, <3>2, <4>1
    <3> QED BY <3>3, <3>4
  <2> QED BY <2>4, <2>5
<1>8. MappedIn(tab, map2)
  BY <1>6 DEF MappedIn, Mapping
<1>9. Mapping(m2, bump, tab, map2)
  BY <1>5, <1>7, <1>8 DEF Mapping
<1>10. Grown(m, bump, tab, m2, bump, tab)
  <2>1. ASSUME NEW a \in Addr, m2[a] # m[a]
        PROVE \E k \in DOMAIN tab : a \in tab[k] .. tab[k] + VM_PAGE_SIZE - 1
    <3>1. a = T + I
      BY <1>5, <2>1
    <3>2. T + I \in T .. T + VM_PAGE_SIZE - 1
      BY <1>0, <1>1, <1>3
    <3> QED BY <3>1, <3>2 DEF T, P
  <2> QED BY <1>3, <2>1 DEF Grown
<1> QED BY <1>9, <1>10 DEF m2, map2, T, P, I

\* MapPage by the tables it reaches.
LEMMA MapPageSteps ==
  ASSUME NEW virt, NEW phys, NEW pdpt, NEW pd, NEW pt,
         pdpt = Descend([mem |-> mem, bump |-> page_bump, table |-> kernel_pml4], Index(virt, 4)),
         pd = Descend(pdpt, Index(virt, 3)), pt = Descend(pd, Index(virt, 2)),
         virt % VM_PAGE_SIZE = 0, phys % VM_PAGE_SIZE = 0
  PROVE MapPage(virt, phys) =
          IF Huge(pd.mem[pd.table + Index(virt, 2)])
          THEN [ok |-> FALSE, mem |-> pd.mem, bump |-> pd.bump]
          ELSE [ok |-> TRUE, bump |-> pt.bump,
                mem |-> WithEntry(pt.mem, pt.table + Index(virt, 1), phys)]
BY Zenon DEF MapPage, WithEntry, Link

\* vm_map_page keeps the mapping in step with what it was told, also where it
\* fails on the way: the tables it has made by then are empty.
LEMMA MapPageOk ==
  ASSUME NEW tab, Mapping(mem, page_bump, tab, mapped), page_bump + 3 * VM_PAGE_SIZE <= MaxAddr + 1,
         NEW virt \in Virts, NEW phys \in Physes
  PROVE LET done == MapPage(virt, phys)
            map2 == IF done.ok THEN WithPage(mapped, virt, phys) ELSE mapped
        IN  \E tab2 :
              /\ Mapping(done.mem, done.bump, tab2, map2)
              /\ Grown(mem, page_bump, tab, done.mem, done.bump, tab2)
              /\ done.bump <= page_bump + 3 * VM_PAGE_SIZE
<1> DEFINE PS == VM_PAGE_SIZE
           done == MapPage(virt, phys)
           P(l) == Prefix(virt, l)
           I(l) == Index(virt, l)
           start == [mem |-> mem, bump |-> page_bump, table |-> kernel_pml4]
           pdpt == Descend(start, I(4))
           pd == Descend(pdpt, I(3))
           pt == Descend(pd, I(2))
           map2 == IF done.ok THEN WithPage(mapped, virt, phys) ELSE mapped
<1> HIDE DEF done
<1> SUFFICES \E tab2 : /\ Mapping(done.mem, done.bump, tab2, map2)
                       /\ Grown(mem, page_bump, tab, done.mem, done.bump, tab2)
                       /\ done.bump <= page_bump + 3 * VM_PAGE_SIZE
  BY DEF done
<1>0. PS \in Nat \ {0} /\ MaxAddr \in Nat /\ page_bump \in Nat /\ phys \in Nat \ {0}
  BY PageFacts, MemAssumption DEF Mapping
<1>1. virt \in Nat /\ P(4) = 0
  <2>1. virt \in Nat /\ virt < VM_PAGE_SIZE * Span[4]
    BY RoomAssumption, Spans
  <2>2. VM_PAGE_SIZE * Span[4] \in Nat \ {0}
    BY Spans
  <2> QED BY <2>1, <2>2 DEF Prefix
<1>2. /\ I(4) \in 0 .. PS - 1 /\ I(3) \in 0 .. PS - 1 /\ I(2) \in 0 .. PS - 1 /\ I(1) \in 0 .. PS - 1
      /\ P(3) \in Nat /\ P(2) \in Nat /\ P(1) \in Nat
  BY <1>1, Digits
<1>3. /\ P(3) = 0 * PS + I(4) /\ P(2) = P(3) * PS + I(3) /\ P(1) = P(2) * PS + I(2)
  BY <1>1, Digits
<1> HIDE DEF P, I
<1>4. CASE virt % VM_PAGE_SIZE # 0 \/ phys % VM_PAGE_SIZE # 0
  <2>1. done = [ok |-> FALSE, mem |-> mem, bump |-> page_bump]
    BY <1>4 DEF done, MapPage
  <2>2. Grown(mem, page_bump, tab, mem, page_bump, tab)
    BY <1>0 DEF Grown
  <2>3. page_bump <= page_bump + 3 * PS
    BY ONLY SMTT(30), <1>0
  <2> QED BY <2>1, <2>2, <2>3
<1>5. CASE virt % VM_PAGE_SIZE = 0 /\ phys % VM_PAGE_SIZE = 0
  <2>1. PICK m1, bump1, tab1 :
           /\ Mapping(m1, bump1, tab1, mapped) /\ Grown(mem, page_bump, tab, m1, bump1, tab1)
           /\ <<3, P(3)>> \in DOMAIN tab1
           /\ pdpt = [mem |-> m1, bump |-> bump1, table |-> tab1[<<3, P(3)>>]]
           /\ bump1 \in {page_bump, page_bump + PS}
    <3>1. <<4, 0>> \in DOMAIN tab /\ tab[<<4, 0>>] = kernel_pml4
      BY DEF Mapping, Tables
    <3>2. page_bump + PS <= MaxAddr + 1 /\ 4 \in 2 .. 4 /\ 0 \in Nat /\ 4 # 2
      BY <1>0
    <3>3. <<3, P(3)>> = <<4 - 1, 0 * PS + I(4)>>
      BY <1>3
    <3>4. start = [mem |-> mem, bump |-> page_bump, table |-> tab[<<4, 0>>]]
      BY <3>1
    <3>5. At(start, mem, page_bump, tab, mapped, 4, 0)
      BY <3>1, <3>2, <3>4 DEF At
    <3> HIDE DEF start
    <3>6. Onto(pdpt, mem, page_bump, tab, mapped, <<3, P(3)>>)
      BY Zenon, <1>2, <3>2, <3>3, <3>5, DescendOk
    <3> QED BY ZenonT(40), <3>6 DEF Onto
  <2>2. PICK m2, bump2, tab2 :
           /\ Mapping(m2, bump2, tab2, mapped) /\ Grown(m1, bump1, tab1, m2, bump2, tab2)
           /\ <<2, P(2)>> \in DOMAIN tab2
           /\ pd = [mem |-> m2, bump |-> bump2, table |-> tab2[<<2, P(2)>>]]
           /\ bump2 \in {bump1, bump1 + PS}
    <3>1. bump1 + PS <= MaxAddr + 1 /\ 3 \in 2 .. 4 /\ 3 # 2
      BY <1>0, <2>1
    <3>2. <<2, P(2)>> = <<3 - 1, P(3) * PS + I(3)>>
      BY <1>3
    <3> HIDE DEF pdpt
    <3>3. At(pdpt, m1, bump1, tab1, mapped, 3, P(3))
      BY <1>2, <2>1, <3>1 DEF At
    <3>4. Onto(pd, m1, bump1, tab1, mapped, <<2, P(2)>>)
      BY Zenon, <1>2, <3>1, <3>2, <3>3, DescendOk
    <3> QED BY ZenonT(40), <3>4 DEF Onto
  <2>8. done = IF Huge(pd.mem[pd.table + I(2)])
               THEN [ok |-> FALSE, mem |-> pd.mem, bump |-> pd.bump]
               ELSE [ok |-> TRUE, bump |-> pt.bump,
                     mem |-> WithEntry(pt.mem, pt.table + I(1), phys)]
    BY ZenonT(40), <1>5, MapPageSteps DEF done, I
  <2> HIDE DEF pdpt, pd, pt
  <2>3. bump1 \in Nat /\ bump2 \in Nat /\ bump2 <= page_bump + 2 * PS
    BY ONLY <1>0, <2>1, <2>2
  <2>4. Grown(mem, page_bump, tab, m2, bump2, tab2)
    BY Zenon, <1>0, <2>1, <2>2, <2>3, GrownTwice DEF Mapping
  <2> DEFINE e == m2[tab2[<<2, P(2)>>] + I(2)]
  <2>5. e = Wanted(tab2, mapped, 1, P(1))
    <3>1. e = Wanted(tab2, mapped, 2 - 1, P(2) * PS + I(2))
      BY ONLY <1>2, <2>2 DEF Mapping, Entries
    <3> QED BY ONLY SMTT(30), <1>3, <3>1
  <2>9. CASE Huge(e)
    <3>1. done = [ok |-> FALSE, mem |-> m2, bump |-> bump2]
      BY <2>2, <2>9, <2>8
    <3>2. bump2 <= page_bump + 3 * PS
      BY <1>0, <2>3
    <3> QED BY ZenonT(40), <2>2, <2>4, <3>1, <3>2
  <2>7. CASE ~Huge(e)
    <3>1. P(1) >= PDS * PS
      <4>0. \A x, y \in Nat : ~(x < y) => x >= y
        BY SMT
      <4>1. SUFFICES ASSUME P(1) < PDS * PS PROVE FALSE
        BY ZenonT(40), <1>2, <4>0, PageFacts
      <4>2. <<1, P(1)>> \notin DOMAIN tab2
        BY ONLY SMTT(30), <1>2, <2>2, <4>1, PageFacts DEF Mapping, Tables
      <4>3. e = Large(P(1) * PtSpan) /\ P(1) * PtSpan \in Nat
        BY <1>2, <2>5, <4>1, <4>2, Spans DEF Wanted
      <4> QED BY <2>7, <4>3, EntryFacts
    <3>2. PICK m3, bump3, tab3 :
             /\ Mapping(m3, bump3, tab3, mapped) /\ Grown(m2, bump2, tab2, m3, bump3, tab3)
             /\ <<1, P(1)>> \in DOMAIN tab3
             /\ pt = [mem |-> m3, bump |-> bump3, table |-> tab3[<<1, P(1)>>]]
             /\ bump3 \in {bump2, bump2 + PS}
      <4>1. bump2 + PS <= MaxAddr + 1 /\ 2 \in 2 .. 4
        BY <1>0, <2>3
      <4>2. <<1, P(1)>> = <<2 - 1, P(2) * PS + I(2)>> /\ P(2) * PS + I(2) >= PDS * PS
        BY ONLY SMTT(30), <1>3, <3>1
      <4>3. At(pd, m2, bump2, tab2, mapped, 2, P(2))
        BY <1>2, <2>2, <4>1 DEF At
      <4>4. Onto(pt, m2, bump2, tab2, mapped, <<1, P(1)>>)
        BY ZenonT(40), <1>2, <4>2, <4>3, DescendOk DEF pt
      <4> QED BY Zenon, <4>4 DEF Onto
    <3>3. bump3 \in Nat /\ bump3 <= page_bump + 3 * PS /\ bump3 <= MaxAddr + 1
      BY <1>0, <2>3, <3>2
    <3>4. Grown(mem, page_bump, tab, m3, bump3, tab3)
      BY ZenonT(40), <1>0, <2>2, <2>3, <2>4, <3>2, <3>3, GrownTwice DEF Mapping
    <3> DEFINE m4 == WithEntry(m3, tab3[<<1, P(1)>>] + I(1), phys)
    <3>5. /\ Mapping(m4, bump3, tab3, WithPage(mapped, virt, phys))
          /\ Grown(m3, bump3, tab3, m4, bump3, tab3)
      BY <1>0, <1>1, <1>5, <3>2, <3>3, WriteEntry DEF P, I
    <3>6. Grown(mem, page_bump, tab, m4, bump3, tab3)
      BY ZenonT(30), <1>0, <3>2, <3>3, <3>4, <3>5, GrownTwice DEF Mapping
    <3> HIDE DEF m4
    <3>7. done = [ok |-> TRUE, bump |-> bump3, mem |-> m4]
      BY Zenon, <2>2, <2>7, <2>8, <3>2 DEF m4
    <3> QED BY <3>3, <3>5, <3>6, <3>7
  <2> QED BY <2>9, <2>7
<1> QED BY <1>4, <1>5

\* A mapping whose tables keep their words is still there.
LEMMA MappingSame ==
  ASSUME NEW m, NEW bump, NEW tab, NEW map, Mapping(m, bump, tab, map),
         NEW m2 \in [Addr -> Int], NEW bump2 \in Nat, bump <= bump2, bump2 % VM_PAGE_SIZE = 0,
         \A k \in DOMAIN tab : \A a \in tab[k] .. tab[k] + VM_PAGE_SIZE - 1 : m2[a] = m[a]
  PROVE Mapping(m2, bump2, tab, map)
<1>0. VM_PAGE_SIZE \in Nat \ {0} /\ bump \in Nat /\ kernel_pd(PDS) \in Int
  BY PageFacts DEF Mapping, kernel_pd
<1>1. Tables(tab, bump2)
  <2>1. \A k \in DOMAIN tab : tab[k] \in Nat /\ tab[k] + VM_PAGE_SIZE <= bump2
    <3>1. \A k \in DOMAIN tab : tab[k] \in Nat /\ tab[k] + VM_PAGE_SIZE <= bump
      BY Zenon DEF Mapping, Tables
    <3>2. \A p \in Nat : p + VM_PAGE_SIZE <= bump => p + VM_PAGE_SIZE <= bump2
      BY <1>0
    <3> QED BY Zenon, <3>1, <3>2
  <2> QED BY Zenon, <2>1 DEF Mapping, Tables
<1>2. Entries(m2, tab, map)
  <2> SUFFICES ASSUME NEW l \in 1 .. 4, NEW b \in Nat, <<l, b>> \in DOMAIN tab,
                      NEW i \in 0 .. VM_PAGE_SIZE - 1
               PROVE m2[tab[<<l, b>>] + i] = Wanted(tab, map, l - 1, b * VM_PAGE_SIZE + i)
    BY Zenon DEF Entries
  <2>1. tab[<<l, b>>] \in Nat
    BY DEF Mapping, Tables
  <2>2. tab[<<l, b>>] + i \in tab[<<l, b>>] .. tab[<<l, b>>] + VM_PAGE_SIZE - 1
    BY <1>0, <2>1
  <2>3. m2[tab[<<l, b>>] + i] = m[tab[<<l, b>>] + i]
    BY <2>2
  <2> QED BY <2>3 DEF Mapping, Entries
<1> QED BY <1>0, <1>1, <1>2 DEF Mapping

\* The tables of vm_init.
StaticTables ==
    [k \in {<<4, 0>>, <<3, 0>>} \cup {<<2, i>> : i \in 0 .. PDS - 1} |->
        IF k[1] = 4 THEN kernel_pml4 ELSE IF k[1] = 3 THEN kernel_pdpt ELSE kernel_pd(k[2])]

\* Where the static tables lie.
LEMMA StaticPlaces ==
    /\ kernel_pml4 = VM_PAGE_SIZE /\ kernel_pdpt = VM_PAGE_SIZE + VM_PAGE_SIZE
    /\ kernel_pd(0) = kernel_pdpt + VM_PAGE_SIZE
    /\ \A i \in 0 .. PDS : /\ kernel_pd(i) \in Nat
                           /\ kernel_pd(i) = kernel_pd(0) + i * VM_PAGE_SIZE
    /\ \A i \in 0 .. PDS - 1 : kernel_pd(i) + VM_PAGE_SIZE <= kernel_pd(PDS)
    /\ kernel_pd(0) + VM_PAGE_SIZE <= kernel_pd(PDS)
<1>1. VM_PAGE_SIZE \in Nat \ {0} /\ PDS \in Nat \ {0}
  BY PageFacts
<1>2. ASSUME NEW i \in 0 .. PDS
      PROVE kernel_pd(i) \in Nat /\ kernel_pd(i) = kernel_pd(0) + i * VM_PAGE_SIZE
  <2>1. (3 + i) * VM_PAGE_SIZE = 3 * VM_PAGE_SIZE + i * VM_PAGE_SIZE /\ i * VM_PAGE_SIZE \in Nat
    BY <1>1
  <2> QED BY <1>1, <2>1 DEF kernel_pd
<1>3. ASSUME NEW i \in 0 .. PDS - 1 PROVE kernel_pd(i) + VM_PAGE_SIZE <= kernel_pd(PDS)
  <2>1. (3 + i) * VM_PAGE_SIZE + VM_PAGE_SIZE <= (3 + PDS) * VM_PAGE_SIZE
    BY <1>1, Step
  <2> QED BY <2>1 DEF kernel_pd
<1>4. 0 \in 0 .. PDS - 1
  BY <1>1
<1>5. kernel_pml4 = VM_PAGE_SIZE /\ kernel_pdpt = VM_PAGE_SIZE + VM_PAGE_SIZE
      /\ kernel_pd(0) = kernel_pdpt + VM_PAGE_SIZE
  BY <1>1 DEF kernel_pml4, kernel_pdpt, kernel_pd
<1> QED BY <1>2, <1>3, <1>4, <1>5

\* The words of the static tables.
LEMMA StaticWords ==
  ASSUME NEW i \in 0 .. VM_PAGE_SIZE - 1
  PROVE /\ vm_map_identity_2m(kernel_pml4 + i) = IF i = 0 THEN Link(kernel_pdpt) ELSE 0
        /\ vm_map_identity_2m(kernel_pdpt + i) = IF i < PDS THEN Link(kernel_pd(i)) ELSE 0
        /\ \A b \in 0 .. PDS - 1 :
              vm_map_identity_2m(kernel_pd(b) + i) = Large((b * VM_PAGE_SIZE + i) * PtSpan)
<1>0. VM_PAGE_SIZE \in Nat \ {0} /\ PDS \in Nat \ {0} /\ PDS <= VM_PAGE_SIZE
  BY PageFacts, MemAssumption
<1>1. kernel_pml4 \in Nat /\ kernel_pdpt = kernel_pml4 + VM_PAGE_SIZE
      /\ kernel_pd(0) = kernel_pdpt + VM_PAGE_SIZE /\ kernel_pd(PDS) \in Nat
  BY <1>0, StaticPlaces
<1> DEFINE A == kernel_pml4
           D == kernel_pdpt
           E == kernel_pd(0)
           F == kernel_pd(PDS)
<1>2. \A a : vm_map_identity_2m(a) =
         CASE a = A -> Link(D)
           [] a \in D .. D + PDS - 1 -> Link(kernel_pd(a - D))
           [] a \in E .. F - 1 -> Large((a - E) * PtSpan)
           [] OTHER -> 0
  BY DEF vm_map_identity_2m, Link, Large
<1>3. A \in Nat /\ D = A + VM_PAGE_SIZE /\ E = D + VM_PAGE_SIZE /\ F \in Nat
  BY <1>1
<1> HIDE DEF A, D, E, F
<1>4. vm_map_identity_2m(A + i) = IF i = 0 THEN Link(D) ELSE 0
  <2>1. (A + i = A <=> i = 0) /\ A + i \notin D .. D + PDS - 1 /\ A + i \notin E .. F - 1
    BY <1>0, <1>3
  <2> QED BY <1>2, <2>1
<1>5. vm_map_identity_2m(D + i) = IF i < PDS THEN Link(kernel_pd(i)) ELSE 0
  <2>1. D + i # A /\ (D + i \in D .. D + PDS - 1 <=> i < PDS) /\ D + i \notin E .. F - 1
        /\ (D + i) - D = i
    BY <1>0, <1>3
  <2> QED BY <1>2, <2>1
<1>6. ASSUME NEW b \in 0 .. PDS - 1
      PROVE vm_map_identity_2m(kernel_pd(b) + i) = Large((b * VM_PAGE_SIZE + i) * PtSpan)
  <2> DEFINE a == kernel_pd(b) + i
             x == b * VM_PAGE_SIZE
  <2>1. kernel_pd(b) = E + x /\ kernel_pd(b) + VM_PAGE_SIZE <= F /\ x \in Nat /\ kernel_pd(b) \in Nat
    <3>1. b \in 0 .. PDS /\ x \in Nat
      BY <1>0
    <3> QED BY <3>1, StaticPlaces DEF E, F
  <2> HIDE DEF x
  <2>2. a # A /\ a \notin D .. D + PDS - 1 /\ a \in E .. F - 1 /\ a - E = x + i
    BY <1>0, <1>3, <2>1
  <2> HIDE DEF a
  <2>3. vm_map_identity_2m(a) = Large((x + i) * PtSpan)
    BY <1>2, <2>2
  <2> QED BY <2>3 DEF a, x
<1> QED BY <1>4, <1>5, <1>6 DEF A, D

\* The mapping after vm_init.
LEMMA MappingInit ==
  ASSUME NEW m \in [Addr -> Int], NEW bump \in Nat, bump % VM_PAGE_SIZE = 0,
         bump >= kernel_pd(PDS), kernel_pd(PDS) <= MaxAddr + 1,
         \A a \in Addr : a < kernel_pd(PDS) => m[a] = vm_map_identity_2m(a)
  PROVE Mapping(m, bump, StaticTables, [v \in {} |-> 0])
<1> DEFINE tab == StaticTables
           PS == VM_PAGE_SIZE
           none == [v \in {} |-> 0]
<1>0. PS \in Nat \ {0} /\ PDS \in Nat \ {0} /\ MaxAddr \in Nat /\ PDS * PS \in Nat
  BY PageFacts
<1>1. DOMAIN tab = {<<4, 0>>, <<3, 0>>} \cup {<<2, i>> : i \in 0 .. PDS - 1}
  BY DEF StaticTables
<1>2. tab[<<4, 0>>] = kernel_pml4 /\ tab[<<3, 0>>] = kernel_pdpt
      /\ \A i \in 0 .. PDS - 1 : tab[<<2, i>>] = kernel_pd(i)
  BY DEF StaticTables
<1> HIDE DEF tab
<1>3. /\ kernel_pml4 = PS /\ kernel_pdpt = PS + PS /\ kernel_pd(0) = PS + PS + PS
      /\ kernel_pd(PDS) \in Nat /\ kernel_pd(0) + PS <= kernel_pd(PDS)
  BY <1>0, StaticPlaces
<1>4. ASSUME NEW i \in 0 .. PDS - 1
      PROVE /\ kernel_pd(i) \in Nat /\ kernel_pd(i) >= PS + PS + PS
            /\ kernel_pd(i) + PS <= kernel_pd(PDS)
            /\ kernel_pd(i) % PS = 0
  <2>1. i * PS \in Nat /\ i \in 0 .. PDS /\ 3 + i \in Int /\ 0 \in 0 .. PS - 1
    BY <1>0
  <2>2. ((3 + i) * PS + 0) % PS = 0
    BY <1>0, <2>1, Quotient
  <2>3. (3 + i) * PS + 0 = kernel_pd(i)
    BY <1>0 DEF kernel_pd
  <2> QED BY <1>0, <1>3, <2>1, <2>2, <2>3, StaticPlaces
<1>5. \A i, j \in 0 .. PDS - 1 : kernel_pd(i) = kernel_pd(j) => i = j
  <2> SUFFICES ASSUME NEW i \in 0 .. PDS - 1, NEW j \in 0 .. PDS - 1, i # j
               PROVE kernel_pd(i) # kernel_pd(j)
    OBVIOUS
  <2>1. (3 + i) * PS # (3 + j) * PS
    BY <1>0, TimesApart
  <2> QED BY <2>1 DEF kernel_pd
<1>6. kernel_pml4 % PS = 0 /\ kernel_pdpt % PS = 0
  <2>1. (1 * PS + 0) % PS = 0 /\ (2 * PS + 0) % PS = 0
    BY <1>0, Quotient
  <2> QED BY <1>0, <1>3, <2>1
<1>7. Tables(tab, bump)
  <2>1. DOMAIN tab \subseteq (1 .. 4) \X Nat
    BY <1>0, <1>1
  <2>2. /\ <<4, 0>> \in DOMAIN tab /\ <<3, 0>> \in DOMAIN tab
        /\ \A i \in 0 .. PDS - 1 : <<2, i>> \in DOMAIN tab
    BY <1>1
  <2>3. ASSUME NEW l \in 1 .. 3, NEW b \in Nat, <<l, b>> \in DOMAIN tab
        PROVE <<l + 1, b \div VM_PAGE_SIZE>> \in DOMAIN tab
    <3>1. (l = 3 /\ b = 0) \/ (l = 2 /\ b \in 0 .. PDS - 1)
      BY <1>1, <2>3
    <3>2. b \in 0 .. PS - 1
      BY <1>0, <3>1, MemAssumption
    <3>3. b \div PS = 0
      BY <1>0, <3>2
    <3> QED BY <2>2, <3>1, <3>3
  <2>4. \A b \in Nat : <<1, b>> \notin DOMAIN tab
    BY <1>1
  <2>5. ASSUME NEW k \in DOMAIN tab
        PROVE tab[k] \in Nat \ {0} /\ tab[k] % PS = 0 /\ tab[k] + PS <= bump
    <3>1. CASE k = <<4, 0>>
      BY <1>0, <1>2, <1>3, <1>6, <3>1
    <3>2. CASE k = <<3, 0>>
      BY <1>0, <1>2, <1>3, <1>6, <3>2
    <3>3. CASE \E i \in 0 .. PDS - 1 : k = <<2, i>>
      BY <1>0, <1>2, <1>3, <1>4, <3>3
    <3> QED BY <1>1, <3>1, <3>2, <3>3
  <2>6. ASSUME NEW j \in DOMAIN tab, NEW k \in DOMAIN tab, tab[j] = tab[k] PROVE j = k
    <3>1. kernel_pml4 # kernel_pdpt /\ \A i \in 0 .. PDS - 1 : kernel_pml4 # kernel_pd(i) /\ kernel_pdpt # kernel_pd(i)
      BY ONLY <1>0, <1>3, <1>4
    <3> QED BY <1>1, <1>2, <1>5, <2>6, <3>1
  <2> QED BY <1>2, <2>1, <2>2, <2>3, <2>4, <2>5, <2>6 DEF Tables
<1>8. Entries(m, tab, none)
  <2> SUFFICES ASSUME NEW l \in 1 .. 4, NEW b \in Nat, <<l, b>> \in DOMAIN tab, NEW i \in 0 .. PS - 1
               PROVE m[tab[<<l, b>>] + i] = Wanted(tab, none, l - 1, b * PS + i)
    BY DEF Entries
  <2>1. CASE l = 4 /\ b = 0
    <3>1. kernel_pml4 + i \in Addr /\ kernel_pml4 + i < kernel_pd(PDS)
      BY <1>0, <1>3 DEF Addr
    <3>2. m[tab[<<4, 0>>] + i] = IF i = 0 THEN Link(kernel_pdpt) ELSE 0
      BY <1>2, <3>1, StaticWords
    <3>3. Wanted(tab, none, 3, i) = IF i = 0 THEN Link(kernel_pdpt) ELSE 0
      BY <1>1, <1>2 DEF Wanted
    <3>4. 0 * PS + i = i
      BY <1>0
    <3> QED BY <2>1, <3>2, <3>3, <3>4
  <2>2. CASE l = 3 /\ b = 0
    <3>1. kernel_pdpt + i \in Addr /\ kernel_pdpt + i < kernel_pd(PDS)
      BY <1>0, <1>3 DEF Addr
    <3>2. m[tab[<<3, 0>>] + i] = IF i < PDS THEN Link(kernel_pd(i)) ELSE 0
      BY <1>2, <3>1, StaticWords
    <3>3. Wanted(tab, none, 2, i) = IF i < PDS THEN Link(kernel_pd(i)) ELSE 0
      <4>1. <<2, i>> \in DOMAIN tab <=> i < PDS
        BY <1>0, <1>1
      <4>2. i < PDS => tab[<<2, i>>] = kernel_pd(i)
        BY <1>0, <1>2
      <4> QED BY <4>1, <4>2 DEF Wanted
    <3>4. 0 * PS + i = i
      BY <1>0
    <3> QED BY <2>2, <3>2, <3>3, <3>4
  <2>3. CASE l = 2 /\ b \in 0 .. PDS - 1
    <3>1. kernel_pd(b) + i \in Addr /\ kernel_pd(b) + i < kernel_pd(PDS)
      <4>1. kernel_pd(b) \in Nat /\ kernel_pd(b) >= PS + PS + PS /\ kernel_pd(b) + PS <= kernel_pd(PDS)
        BY <1>4, <2>3
      <4>2. kernel_pd(PDS) <= MaxAddr + 1 /\ i \in 0 .. PS - 1
        OBVIOUS
      <4>3. ASSUME NEW k, NEW e, k = kernel_pd(b), e = kernel_pd(PDS)
            PROVE k + i \in 1 .. MaxAddr /\ k + i < e
        <5>1. k \in Nat /\ e \in Nat /\ k >= PS + PS + PS /\ k + PS <= e /\ e <= MaxAddr + 1
          BY Zenon, <1>3, <4>1, <4>2, <4>3
        <5>2. PS \in Nat \ {0} /\ MaxAddr \in Nat /\ i \in 0 .. PS - 1
          BY ZenonT(40), <1>0, <4>2
        <5> QED BY ONLY <5>1, <5>2, PageInside
      <4> QED BY Zenon, <4>3 DEF Addr
    <3>2. m[tab[<<2, b>>] + i] = Large((b * PS + i) * PtSpan)
      BY <1>2, <2>3, <3>1, StaticWords
    <3>3. b * PS + i < PDS * PS
      <4>1. b * PS + PS <= PDS * PS
        BY <1>0, <2>3, Step
      <4> QED BY <1>0, <4>1
    <3>4. <<1, b * PS + i>> \notin DOMAIN tab
      BY <1>1
    <3>5. Wanted(tab, none, 1, b * PS + i) = Large((b * PS + i) * PtSpan)
      BY <3>3, <3>4 DEF Wanted
    <3> QED BY <2>3, <3>2, <3>5
  <2> QED BY ZenonT(40), <1>1, <2>1, <2>2, <2>3
<1>9. MappedIn(tab, none)
  BY DEF MappedIn
<1> QED BY <1>7, <1>8, <1>9 DEF Mapping, tab

\* The words of the static tables are numbers.
LEMMA IdentityWord == ASSUME NEW a \in Addr PROVE vm_map_identity_2m(a) \in Int
<1> DEFINE A == kernel_pml4
           D == kernel_pdpt
           E == kernel_pd(0)
           F == kernel_pd(PDS)
<1>0. VM_PAGE_SIZE \in Nat \ {0} /\ PDS \in Nat \ {0} /\ PDS <= VM_PAGE_SIZE /\ a \in Nat
  BY PageFacts, MemAssumption DEF Addr
<1>1. A \in Nat /\ D = A + VM_PAGE_SIZE /\ E = D + VM_PAGE_SIZE /\ F \in Nat /\ PtSpan \in Nat
  BY <1>0, StaticPlaces DEF PtSpan
<1>2. vm_map_identity_2m(a) =
         CASE a = A -> Link(D)
           [] a \in D .. D + PDS - 1 -> Link(kernel_pd(a - D))
           [] a \in E .. F - 1 -> Large((a - E) * PtSpan)
           [] OTHER -> 0
  BY DEF vm_map_identity_2m, Link, Large
<1>3. A \notin D .. D + PDS - 1 /\ A \notin E .. F - 1
  BY <1>0, <1>1
<1>4. \A b \in D .. D + PDS - 1 : b # A /\ b \notin E .. F - 1 /\ b - D \in 0 .. PDS
  <2>1. D \in Nat /\ E \in Nat
    BY <1>0, <1>1
  <2> HIDE DEF A, D, E, F
  <2> QED BY <1>0, <1>1, <2>1
<1>5. a \in D .. D + PDS - 1 => kernel_pd(a - D) \in Nat
  BY <1>4, StaticPlaces
<1>6. D \in Nat /\ (a \in E .. F - 1 => (a - E) * PtSpan \in Nat)
  <2>1. D \in Nat /\ E \in Nat
    BY <1>0, <1>1
  <2> HIDE DEF A, D, E, F
  <2>2. a \in E .. F - 1 => a - E \in Nat
    BY <1>0, <1>1, <2>1
  <2> QED BY <1>1, <2>1, <2>2
<1> HIDE DEF A, D, E, F
<1>7. CASE a = A
  <2>1. vm_map_identity_2m(a) = Link(D)
    BY <1>2, <1>3, <1>7, ZenonT(40)
  <2> QED BY <1>6, <2>1, EntryFacts
<1>8. CASE a \in D .. D + PDS - 1
  <2>1. vm_map_identity_2m(a) = Link(kernel_pd(a - D))
    BY <1>2, <1>4, <1>8, ZenonT(40)
  <2> QED BY <1>5, <1>8, <2>1, EntryFacts
<1>9. CASE a # A /\ a \notin D .. D + PDS - 1 /\ a \in E .. F - 1
  <2>1. vm_map_identity_2m(a) = Large((a - E) * PtSpan)
    BY <1>2, <1>9, ZenonT(40)
  <2> QED BY <1>6, <1>9, <2>1, EntryFacts
<1>10. CASE a # A /\ a \notin D .. D + PDS - 1 /\ a \notin E .. F - 1
  <2>1. vm_map_identity_2m(a) = 0
    BY <1>2, <1>10, ZenonT(40)
  <2> QED BY <2>1
<1> QED BY <1>7, <1>8, <1>9, <1>10

----------------------------------------------------------------------------
(* Where things are.                                                       *)

\* Aligning up gives a multiple that is not below.
LEMMA AlignUp == ASSUME NEW v \in Nat, NEW a \in Nat \ {0}
  PROVE align_up(v, a) \in Nat /\ align_up(v, a) >= v /\ align_up(v, a) % a = 0
<1> DEFINE x == v + a - 1
           q == x \div a
<1>1. x \in Nat
  OBVIOUS
<1>2. q \in Nat /\ x % a \in 0 .. a - 1 /\ x = q * a + (x % a)
  BY Zenon, <1>1, NatDivision
<1> HIDE DEF q
<1>3. q * a \in Nat
  BY <1>2
<1>4. q * a >= v
  BY <1>2, <1>3
<1>5. (q * a) % a = 0
  BY <1>2, Multiple
<1> QED BY <1>3, <1>4, <1>5 DEF align_up, q

\* The image, with the static tables, lies below the heap and the pages.
LEMMA Layout ==
    /\ FirstPage \in Nat /\ FirstPage % VM_PAGE_SIZE = 0 /\ FirstPage >= kernel_pd(PDS)
    /\ heap_start \in Nat /\ heap_start >= kernel_pd(PDS) /\ heap_start # 0
    /\ kernel_pd(PDS) \in Nat /\ kernel_pd(PDS) # 0
    /\ MaxHeap \in Nat /\ MaxHeap <= MaxAddr /\ heap_start + 2 <= MaxHeap
<1>1. VM_PAGE_SIZE \in Nat \ {0} /\ PDS \in Nat \ {0}
  BY PageFacts
<1>2. KernelEnd \in Nat /\ KernelEnd >= kernel_pd(PDS)
  BY MemAssumption DEF kernel_pd
<1>3. FirstPage \in Nat /\ FirstPage % VM_PAGE_SIZE = 0 /\ FirstPage >= KernelEnd
  BY <1>1, <1>2, AlignUp DEF FirstPage
<1>4. heap_start \in Nat /\ heap_start >= KernelEnd
  BY <1>2, AlignUp DEF heap_start
<1>5. kernel_pd(PDS) \in Nat /\ kernel_pd(PDS) # 0
  <2>1. kernel_pd(PDS) \in Nat /\ kernel_pd(0) + VM_PAGE_SIZE <= kernel_pd(PDS)
        /\ kernel_pd(0) \in Nat
    BY <1>1, StaticPlaces
  <2> QED BY <1>1, <2>1
<1>6. MaxHeap \in Nat /\ MaxHeap <= MaxAddr /\ heap_start + 2 <= MaxHeap
  BY <1>4, MemAssumption, RoomAssumption DEF HDR
<1> QED BY <1>2, <1>3, <1>4, <1>5, <1>6

\* The bump pointer's bound is a page boundary in the modelled memory.
LEMMA LastBumpFacts == ASSUME uses \in Uses
  PROVE LastBump \in Nat /\ LastBump % VM_PAGE_SIZE = 0 /\ LastBump <= MaxAddr + 1 /\ FirstPage <= LastBump
<1> DEFINE n == MaxPages[uses]
<1>1. VM_PAGE_SIZE \in Nat \ {0} /\ n \in Nat
  BY MemAssumption
<1>2. FirstPage \in Nat /\ FirstPage % VM_PAGE_SIZE = 0
  BY Layout
<1>3. PICK q \in Nat : FirstPage = q * VM_PAGE_SIZE
  BY Zenon, <1>1, <1>2, Aligned
<1>4. LastBump = FirstPage + n * VM_PAGE_SIZE
  BY DEF LastBump, FirstPage
<1> HIDE DEF n
<1>5. n * VM_PAGE_SIZE \in Nat
  BY <1>1
<1>6. LastBump = (q + n) * VM_PAGE_SIZE /\ q + n \in Nat
  BY <1>1, <1>3, <1>4
<1>7. LastBump % VM_PAGE_SIZE = 0
  <2>1. ((q + n) * VM_PAGE_SIZE) % VM_PAGE_SIZE = 0
    BY <1>1, <1>6, Multiple
  <2> QED BY <1>6, <2>1
<1>8. FirstPage + n * VM_PAGE_SIZE <= MaxAddr + 1
  BY RoomAssumption DEF FirstPage, n
<1> QED BY <1>2, <1>4, <1>5, <1>7, <1>8

----------------------------------------------------------------------------
(* Pages and slots.                                                        *)

\* vm_alloc_page has returned p.
IsPage(p, bump) == p \in FirstPage .. bump - 1 /\ p % VM_PAGE_SIZE = 0

\* The live objects of each allocator.
Paged(lv) == {o \in lv : o.kind \in {"page", "table"}}

Slabbed(lv) == {o \in lv : o.kind = "slab"}

Heaped(lv) == {o \in lv : o.kind = "heap"}

\* Every page belongs to one object or one slab.
PagesOk(bump, lv, sl) ==
    /\ bump \in Nat /\ bump % VM_PAGE_SIZE = 0 /\ FirstPage <= bump /\ bump <= MaxAddr + 1
    /\ \A o \in Paged(lv) : o.size = VM_PAGE_SIZE /\ IsPage(o.ptr, bump)
    /\ sl \subseteq Nat \X Classes
    /\ \A s \in sl : IsPage(s[1], bump)
    /\ \A o, p \in Paged(lv) : o.ptr = p.ptr => o = p
    /\ \A s, t \in sl : s[1] = t[1] => s = t
    /\ \A o \in Paged(lv), s \in sl : o.ptr # s[1]

\* SlabObjects as a function of the slabs.
Slots(sl, ci) ==
    {SlotObject(s[1], ci, k) : s \in {t \in sl : t[2] = ci}, k \in 0 .. SlotsPerPage(ci) - 1}

\* The slots of slab objects.
UsedSlots(lv) == {o.ptr : o \in Slabbed(lv)}

\* Every slab object has a slot of its own, which is large enough, and the slots
\* have their headers.
SlotsOk(m, lv, sl) ==
    /\ \A o \in Slabbed(lv) : \E ci \in Classes : o.ptr \in Slots(sl, ci) /\ o.size + 1 <= ClassSizes[ci]
    /\ \A o, p \in Slabbed(lv) : o.ptr = p.ptr => o = p
    /\ \A ci \in Classes : \A x \in Slots(sl, ci) : m[x - 1] = SlabHeader(ci)

\* L lists the n objects of a free list, which ends.
List(m, head, free, n, L) ==
    /\ n \in Nat /\ L \in [0 .. n -> Int]
    /\ head = L[0] /\ L[n] = NULL
    /\ \A i \in 0 .. n - 1 : L[i] \in free /\ m[L[i]] = L[i + 1]
    /\ \A i, j \in 0 .. n - 1 : L[i] = L[j] => i = j
    /\ \A x \in free : \E i \in 0 .. n - 1 : L[i] = x

\* The free list of a class has the slots of the class that are not used.
ListOk(m, fl, lv, sl, ci) ==
    \E n, L : List(m, fl[ci], Slots(sl, ci) \ UsedSlots(lv), n, L)

\* All the classes have their free lists.
ListsOk(m, fl, lv, sl) == \A ci \in Classes : ListOk(m, fl, lv, sl, ci)

\* Classes have at least two words and fit in a page.
LEMMA ClassFacts == ASSUME NEW ci \in Classes
  PROVE /\ ClassSizes[ci] \in 2 .. VM_PAGE_SIZE
        /\ SlotsPerPage(ci) \in Nat \ {0} /\ SlotsPerPage(ci) * ClassSizes[ci] <= VM_PAGE_SIZE
<1>1. ClassSizes[ci] \in 2 .. VM_PAGE_SIZE /\ VM_PAGE_SIZE \in Nat \ {0}
  BY MemAssumption DEF Classes
<1> DEFINE c == ClassSizes[ci]
           q == VM_PAGE_SIZE \div c
<1>2. c \in Nat \ {0} /\ c <= VM_PAGE_SIZE
  BY <1>1
<1>3. SlotsPerPage(ci) = q
  BY DEF SlotsPerPage
<1> HIDE DEF c
<1>4. q \in Nat /\ VM_PAGE_SIZE % c \in 0 .. c - 1 /\ VM_PAGE_SIZE = q * c + (VM_PAGE_SIZE % c)
  BY Zenon, <1>1, <1>2, NatDivision
<1> HIDE DEF q
<1>5. q # 0
  BY <1>2, <1>4
<1>6. q * c <= VM_PAGE_SIZE
  BY <1>1, <1>2, <1>4
<1> QED BY <1>1, <1>3, <1>4, <1>5, <1>6 DEF c

\* A slot lies in its page.
LEMMA SlotInPage == ASSUME NEW p \in Nat, NEW ci \in Classes, NEW k \in 0 .. SlotsPerPage(ci) - 1
  PROVE LET x == SlotObject(p, ci, k)
        IN  x \in Nat /\ p <= x - 1 /\ x - 1 + ClassSizes[ci] <= p + VM_PAGE_SIZE
<1> DEFINE c == ClassSizes[ci]
           n == SlotsPerPage(ci)
<1>1. c \in Nat /\ n \in Nat /\ n * c <= VM_PAGE_SIZE /\ VM_PAGE_SIZE \in Nat
  BY ClassFacts, PageFacts
<1>2. k * c + c <= n * c /\ k * c \in Nat
  BY <1>1, Step
<1>3. SlotObject(p, ci, k) = p + k * c + 1
  BY DEF SlotObject
<1> HIDE DEF c, n
<1>4. n * c \in Nat
  BY <1>1
<1> QED BY <1>1, <1>2, <1>3, <1>4 DEF c

\* Two slots of a page do not overlap.
LEMMA SlotStep == ASSUME NEW p \in Nat, NEW ci \in Classes, NEW j \in 0 .. SlotsPerPage(ci) - 1,
                         NEW k \in 0 .. SlotsPerPage(ci) - 1, j < k
  PROVE SlotObject(p, ci, j) + ClassSizes[ci] <= SlotObject(p, ci, k)
<1> DEFINE c == ClassSizes[ci]
<1>1. c \in Nat
  BY ClassFacts
<1>2. j \in Int /\ k \in Int /\ SlotsPerPage(ci) \in Nat
  BY ClassFacts
<1> HIDE DEF c
<1>3. j * c + c <= k * c /\ j * c \in Int /\ k * c \in Int
  BY <1>1, <1>2, Step
<1> QED BY <1>1, <1>3 DEF c, SlotObject

\* Two aligned pages share no word.
LEMMA PagesApart == ASSUME NEW p \in Nat, NEW q \in Nat, p % VM_PAGE_SIZE = 0, q % VM_PAGE_SIZE = 0, p # q
  PROVE p + VM_PAGE_SIZE <= q \/ q + VM_PAGE_SIZE <= p
<1>1. VM_PAGE_SIZE \in Nat \ {0}
  BY PageFacts
<1>2. CASE p < q
  BY Zenon, <1>1, <1>2, Apart
<1>3. CASE q < p
  BY Zenon, <1>1, <1>3, Apart
<1> QED BY <1>2, <1>3

\* A page ends below the bump pointer.
LEMMA PageEnd == ASSUME NEW bump, NEW lv, NEW sl, PagesOk(bump, lv, sl), NEW p, IsPage(p, bump)
  PROVE p \in Nat /\ p + VM_PAGE_SIZE <= bump /\ p >= FirstPage /\ p % VM_PAGE_SIZE = 0
<1>1. FirstPage \in Nat /\ bump \in Nat /\ bump % VM_PAGE_SIZE = 0 /\ VM_PAGE_SIZE \in Nat \ {0}
  BY Layout, PageFacts DEF PagesOk
<1>2. p \in Nat /\ p < bump /\ p >= FirstPage /\ p % VM_PAGE_SIZE = 0
  BY <1>1 DEF IsPage
<1> QED BY ZenonT(40), <1>1, <1>2, Apart

\* x is slot k of the slab s, in its page.
InSlab(x, ci, s, k, bump) ==
    /\ s[2] = ci /\ s[1] \in Nat /\ s[1] % VM_PAGE_SIZE = 0 /\ s[1] \in FirstPage .. bump - 1
    /\ x = SlotObject(s[1], ci, k) /\ x \in Nat
    /\ s[1] <= x - 1 /\ x - 1 + ClassSizes[ci] <= s[1] + VM_PAGE_SIZE

\* A slot belongs to some slab.
LEMMA SlotOf == ASSUME NEW bump, NEW lv, NEW sl, PagesOk(bump, lv, sl), NEW ci \in Classes, NEW x \in Slots(sl, ci)
  PROVE \E s \in sl, k \in 0 .. SlotsPerPage(ci) - 1 : InSlab(x, ci, s, k, bump)
<1>1. PICK s \in sl, k \in 0 .. SlotsPerPage(ci) - 1 : s[2] = ci /\ x = SlotObject(s[1], ci, k)
  BY DEF Slots
<1>2. s[1] \in Nat /\ s[1] % VM_PAGE_SIZE = 0 /\ s[1] \in FirstPage .. bump - 1
  BY DEF PagesOk, IsPage
<1>3. x \in Nat /\ s[1] <= x - 1 /\ x - 1 + ClassSizes[ci] <= s[1] + VM_PAGE_SIZE
  BY <1>1, <1>2, SlotInPage
<1> QED BY <1>1, <1>2, <1>3 DEF InSlab

\* Two slots, of whatever classes, share no word.
LEMMA SlotsApart ==
  ASSUME NEW bump, NEW lv, NEW sl, PagesOk(bump, lv, sl), NEW c \in Classes, NEW d \in Classes,
         NEW x \in Slots(sl, c), NEW y \in Slots(sl, d)
  PROVE /\ x = y => c = d
        /\ x # y => x + ClassSizes[c] <= y \/ y + ClassSizes[d] <= x
<1>1. PICK s \in sl, k \in 0 .. SlotsPerPage(c) - 1 : InSlab(x, c, s, k, bump)
  BY Zenon, SlotOf
<1>2. PICK t \in sl, j \in 0 .. SlotsPerPage(d) - 1 : InSlab(y, d, t, j, bump)
  BY Zenon, SlotOf
<1>3. ClassSizes[c] \in Nat /\ ClassSizes[d] \in Nat /\ ClassSizes[c] >= 2 /\ ClassSizes[d] >= 2 /\ VM_PAGE_SIZE \in Nat
  BY ClassFacts, PageFacts
<1>4. CASE s[1] # t[1]
  <2>1. s[1] + VM_PAGE_SIZE <= t[1] \/ t[1] + VM_PAGE_SIZE <= s[1]
    BY <1>1, <1>2, <1>4, PagesApart DEF InSlab
  <2> QED BY <1>1, <1>2, <1>3, <2>1 DEF InSlab
<1>5. CASE s[1] = t[1]
  <2>1. s = t /\ c = d
    BY <1>1, <1>2, <1>5 DEF PagesOk, InSlab
  <2>2. CASE k < j
    BY <1>1, <1>2, <2>1, <2>2, SlotStep DEF InSlab
  <2>3. CASE j < k
    BY <1>1, <1>2, <2>1, <2>3, SlotStep DEF InSlab
  <2>4. CASE j = k
    BY <1>1, <1>2, <2>1, <2>4 DEF InSlab
  <2>5. j < k \/ k < j \/ j = k
    BY ClassFacts
  <2> QED BY <2>2, <2>3, <2>4, <2>5
<1> QED BY <1>4, <1>5

\* A slot is an address, and not NULL.
LEMMA SlotAddress == ASSUME NEW bump, NEW lv, NEW sl, PagesOk(bump, lv, sl),
                            NEW ci \in Classes, NEW x \in Slots(sl, ci)
  PROVE x \in Addr /\ x - 1 \in Addr /\ x # NULL /\ x < bump
<1>1. PICK s \in sl, k \in 0 .. SlotsPerPage(ci) - 1 : InSlab(x, ci, s, k, bump)
  BY Zenon, SlotOf
<1>2. FirstPage \in Nat \ {0} /\ ClassSizes[ci] \in Nat /\ ClassSizes[ci] >= 2 /\ VM_PAGE_SIZE \in Nat /\ MaxAddr \in Nat
  BY Layout, ClassFacts, PageFacts
<1>3. s[1] \in Nat /\ s[1] >= FirstPage /\ s[1] <= x - 1 /\ x \in Nat
      /\ x - 1 + ClassSizes[ci] <= s[1] + VM_PAGE_SIZE
  BY <1>1 DEF InSlab
<1>4. s[1] + VM_PAGE_SIZE <= bump /\ bump \in Nat /\ bump <= MaxAddr + 1
  BY Zenon, PageEnd DEF PagesOk
<1> QED BY <1>2, <1>3, <1>4 DEF Addr, NULL

----------------------------------------------------------------------------
(* The heap.                                                               *)

\* B lists the n blocks of the heap: each starts where the one before it ends, and
\* the last word of all is not above h; only the first of an unused heap is empty.  The
\* blocks that are not free are those of the live objects.
Blocks(m, lv, n, B, h) ==
    /\ n \in Nat \ {0} /\ B \in [0 .. n -> Int] /\ B[0] = heap_start /\ B[n] = NULL
    /\ \A i \in 0 .. n - 1 :
          /\ B[i] >= heap_start /\ m[B[i]] \in Nat /\ B[i] + HDR + m[B[i]] <= h + 1
          /\ m[B[i] + 1] \in {0, 1} /\ m[B[i] + 2] = B[i + 1]
          /\ m[B[i]] = 0 => n = 1 /\ m[B[i] + 1] = 1
          /\ i + 1 < n => B[i + 1] = B[i] + HDR + m[B[i]]
    /\ \A i, j \in 0 .. n - 1 : i < j => B[i] + HDR + m[B[i]] <= B[j]
    /\ \A o \in Heaped(lv) : \E i \in 0 .. n - 1 :
          o.ptr = B[i] + HDR /\ o.size <= m[B[i]] /\ m[B[i] + 1] = 0
    /\ \A i \in 0 .. n - 1 : m[B[i] + 1] = 0 => \E o \in Heaped(lv) : o.ptr = B[i] + HDR
    /\ \A o, p \in Heaped(lv) : o.ptr = p.ptr => o = p

\* The heap is a list of blocks.
HeapOk(m, lv, h) == \E n, B : Blocks(m, lv, n, B, h)

----------------------------------------------------------------------------
(* The inductive invariant.                                                *)

\* What the live objects may be.
Objects == [kind : {"page", "table", "slab", "heap"}, ptr : Addr, size : Nat]

\* The last word of a heap that ends at top; before the first block it is the last of
\* the header that kalloc_init makes.
LastWord(top) == IF top = heap_start THEN heap_start + HDR - 1 ELSE top - 1

\* No page covers a word of the heap, the header that kalloc_init makes included.
Kept(bump, top) == bump = FirstPage \/ LastWord(top) < FirstPage

\* Where heap_end can be.
HeapEnd(top) ==
    /\ top \in Nat /\ heap_start <= top /\ top <= MaxHeap + 1
    /\ top # heap_start => heap_start + HDR <= top

\* The heap has its blocks as long as no page covers it, and pages cover it only before
\* its first block.
HeapPart(m, bump, lv, top) ==
    /\ HeapEnd(top)
    /\ bump = FirstPage \/ top <= FirstPage
    /\ top = heap_start => Heaped(lv) = {}
    /\ Kept(bump, top) => HeapOk(m, lv, LastWord(top))

\* The last word of the heap is in memory, and where a page covers the heap it has no
\* objects.
LEMMA HeapFacts ==
  ASSUME NEW m, NEW bump, NEW lv, NEW top, HeapPart(m, bump, lv, top)
  PROVE /\ LastWord(top) \in Nat /\ LastWord(top) <= MaxHeap /\ LastWord(top) <= MaxAddr
        /\ heap_start + 2 <= LastWord(top) /\ top <= LastWord(top) + 1
        /\ ~Kept(bump, top) => Heaped(lv) = {} /\ bump # FirstPage /\ top = heap_start
<1>1. heap_start \in Nat /\ MaxHeap \in Nat /\ MaxHeap <= MaxAddr /\ MaxAddr \in Nat /\ heap_start + 2 <= MaxHeap
      /\ FirstPage \in Nat
  BY Layout, PageFacts
<1>2. /\ top \in Nat /\ heap_start <= top /\ top <= MaxHeap + 1 /\ (top # heap_start => heap_start + 3 <= top)
      /\ (bump = FirstPage \/ top <= FirstPage) /\ (top = heap_start => Heaped(lv) = {})
  BY DEF HeapPart, HeapEnd, HDR
<1>3. LastWord(top) = IF top = heap_start THEN heap_start + 2 ELSE top - 1
  BY <1>1 DEF LastWord, HDR
<1> HIDE DEF LastWord
<1>4. /\ LastWord(top) \in Nat /\ LastWord(top) <= MaxHeap /\ LastWord(top) <= MaxAddr
      /\ heap_start + 2 <= LastWord(top) /\ top <= LastWord(top) + 1
  BY <1>1, <1>2, <1>3
<1>5. ASSUME ~Kept(bump, top) PROVE bump # FirstPage /\ top = heap_start
  BY <1>1, <1>2, <1>3, <1>5 DEF Kept
<1> QED BY <1>2, <1>4, <1>5

\* The tables lie in the image or are live objects.
Owned(tab, lv) ==
    \A k \in DOMAIN tab : \/ tab[k] + VM_PAGE_SIZE <= kernel_pd(PDS)
                          \/ \E o \in lv : o.kind = "table" /\ o.ptr = tab[k]

\* The page tables make the mapping.
TablesPart(m, bump, lv, map) == \E tab : Mapping(m, bump, tab, map) /\ Owned(tab, lv)

\* The parts together.
Parts(m, bump, fl, lv, sl, map, top) ==
    /\ PagesOk(bump, lv, sl)
    /\ SlotsOk(m, lv, sl)
    /\ ListsOk(m, fl, lv, sl)
    /\ HeapPart(m, bump, lv, top)
    /\ TablesPart(m, bump, lv, map)

\* The inductive invariant, which the steps keep until the heap and the pages meet.
Inv ==
    /\ mem \in [Addr -> Int] /\ free_lists \in [Classes -> Int] /\ live \subseteq Objects
    /\ uses \in Uses /\ page_bump <= LastBump
    /\ Parts(mem, page_bump, free_lists, live, slabs, mapped, heap_end)

----------------------------------------------------------------------------
(* What holds whatever has happened to the memory: the two allocators that  *)
(* start at the same address only ever grow.                               *)

\* The bump pointer is a page boundary above the pages handed out.
Bumps ==
    /\ page_bump \in Nat /\ page_bump >= FirstPage /\ page_bump % VM_PAGE_SIZE = 0 /\ heap_end \in Nat
    /\ \A p \in PagesOut : p \in Nat /\ p + VM_PAGE_SIZE <= page_bump

\* Neither the pages nor the heap shrink in a step.
Grows == page_bump' >= page_bump /\ heap_end' >= heap_end

\* A step keeps Bumps if the pages it adds lie below the new bump pointer.
LEMMA MorePages ==
  ASSUME Bumps, page_bump' \in Nat, page_bump' >= page_bump, page_bump' % VM_PAGE_SIZE = 0, heap_end' \in Nat,
         NEW S, PagesOut' \subseteq PagesOut \cup S, \A p \in S : p \in Nat /\ p + VM_PAGE_SIZE <= page_bump'
  PROVE Bumps'
<1>1. VM_PAGE_SIZE \in Nat /\ FirstPage \in Nat
  BY PageFacts, Layout
<1>2. page_bump' >= FirstPage
  BY <1>1 DEF Bumps
<1>3. \A p \in PagesOut' : p \in Nat /\ p + VM_PAGE_SIZE <= page_bump'
  BY <1>1 DEF Bumps
<1> QED BY <1>2, <1>3 DEF Bumps, FirstPage

\* w has the bump pointer b, or the one after it.
AtOrAfter(w, b) ==
    \E m2, b2, t2 : w = [mem |-> m2, bump |-> b2, table |-> t2] /\ b2 \in {b, b + VM_PAGE_SIZE}

\* What Descend leaves of the bump pointer.
LEMMA DescendBump ==
  ASSUME NEW m, NEW b, NEW t, NEW i
  PROVE AtOrAfter(Descend([mem |-> m, bump |-> b, table |-> t], i), b)
<1> DEFINE w == [mem |-> m, bump |-> b, table |-> t]
           u == AddrOf(w.mem[w.table + i])
<1>3. [w EXCEPT !.table = u] = [mem |-> m, bump |-> b, table |-> u]
  <2> HIDE DEF u
  <2> QED OBVIOUS
<1>4. w.bump = b
  OBVIOUS
<1> HIDE DEF w
<1>1. CASE Present(w.mem[w.table + i])
  <2>1. Descend(w, i) = [w EXCEPT !.table = u]
    BY ZenonT(40), <1>1 DEF Descend
  <2>2. Descend(w, i) = [mem |-> m, bump |-> b, table |-> u]
    BY ZenonT(40), <1>3, <2>1
  <2> QED BY ZenonT(40), <2>2 DEF w, AtOrAfter
<1>2. CASE ~Present(w.mem[w.table + i])
  <2>1. Descend(w, i) = [mem |-> [Zeroed(w.mem, w.bump) EXCEPT ![w.table + i] = Entry(w.bump, FALSE)],
                         bump |-> w.bump + VM_PAGE_SIZE, table |-> w.bump]
    BY ZenonT(40), <1>2 DEF Descend
  <2> QED BY ZenonT(40), <1>4, <2>1 DEF w, AtOrAfter
<1> QED BY ZenonT(40), <1>1, <1>2 DEF w

\* The bump pointers that a page boundary reaches by whole pages.
Ahead(b, c) == b \in Nat /\ c \in Nat /\ b % VM_PAGE_SIZE = 0 /\ c % VM_PAGE_SIZE = 0 /\ b <= c

\* A table that is made, or found, leaves the bump pointer there.
LEMMA AheadStep ==
  ASSUME NEW b, NEW c, NEW d, Ahead(b, c), d \in {c, c + VM_PAGE_SIZE}
  PROVE Ahead(b, d)
<1>1. VM_PAGE_SIZE \in Nat \ {0}
  BY PageFacts
<1>2. d \in Nat /\ b <= d
  BY <1>1 DEF Ahead
<1>3. d % VM_PAGE_SIZE = 0
  BY ZenonT(40), <1>1, NextPage DEF Ahead
<1> QED BY ZenonT(40), <1>2, <1>3 DEF Ahead

\* A number of an interval is below its end.
LEMMA Below == ASSUME NEW b \in Nat, NEW c \in Nat, NEW p \in b .. c - 1 PROVE p \in Nat /\ p < c
OBVIOUS

\* vm_map_page takes whole pages.
LEMMA MapPageBump ==
  ASSUME Bumps, NEW virt, NEW phys
  PROVE Ahead(page_bump, MapPage(virt, phys).bump)
<1> DEFINE start == [mem |-> mem, bump |-> page_bump, table |-> kernel_pml4]
           pdpt  == Descend(start, Index(virt, 4))
           pd    == Descend(pdpt, Index(virt, 3))
           pt    == Descend(pd, Index(virt, 2))
<1>0. Ahead(page_bump, page_bump)
  BY DEF Ahead, Bumps
<1>1. PICK m1, b1, t1 : pdpt = [mem |-> m1, bump |-> b1, table |-> t1] /\ b1 \in {page_bump, page_bump + VM_PAGE_SIZE}
  <2>1. AtOrAfter(pdpt, page_bump)
    BY ZenonT(40), DescendBump
  <2> HIDE DEF pdpt
  <2> QED BY ZenonT(40), <2>1 DEF AtOrAfter
<1> HIDE DEF pdpt
<1>11. pd = Descend([mem |-> m1, bump |-> b1, table |-> t1], Index(virt, 3))
  BY ZenonT(40), <1>1
<1>2. PICK m2, b2, t2 : pd = [mem |-> m2, bump |-> b2, table |-> t2] /\ b2 \in {b1, b1 + VM_PAGE_SIZE}
  <2> HIDE DEF pd
  <2>1. AtOrAfter(pd, b1)
    BY ZenonT(40), <1>11, DescendBump
  <2> QED BY ZenonT(40), <2>1 DEF AtOrAfter
<1> HIDE DEF pd
<1>12. pt = Descend([mem |-> m2, bump |-> b2, table |-> t2], Index(virt, 2))
  BY ZenonT(40), <1>2
<1>3. PICK m3, b3, t3 : pt = [mem |-> m3, bump |-> b3, table |-> t3] /\ b3 \in {b2, b2 + VM_PAGE_SIZE}
  <2> HIDE DEF pt
  <2>1. AtOrAfter(pt, b2)
    BY ZenonT(40), <1>12, DescendBump
  <2> QED BY ZenonT(40), <2>1 DEF AtOrAfter
<1> HIDE DEF pt
<1>4. Ahead(page_bump, b1)
  BY ZenonT(40), <1>0, <1>1, AheadStep
<1>5. Ahead(page_bump, b2)
  BY ZenonT(40), <1>2, <1>4, AheadStep
<1>6. Ahead(page_bump, b3)
  BY ZenonT(40), <1>3, <1>5, AheadStep
<1>7. pd.bump = b2 /\ pt.bump = b3
  BY <1>2, <1>3
<1>8. CASE virt % VM_PAGE_SIZE # 0 \/ phys % VM_PAGE_SIZE # 0
  <2>1. MapPage(virt, phys) = [ok |-> FALSE, mem |-> mem, bump |-> page_bump]
    BY ZenonT(40), <1>8 DEF MapPage
  <2>2. MapPage(virt, phys).bump = page_bump
    BY <2>1
  <2> QED BY <1>0, <2>2
<1>9. CASE virt % VM_PAGE_SIZE = 0 /\ phys % VM_PAGE_SIZE = 0
  <2>1. MapPage(virt, phys) =
          IF Huge(pd.mem[pd.table + Index(virt, 2)])
          THEN [ok |-> FALSE, mem |-> pd.mem, bump |-> pd.bump]
          ELSE [ok |-> TRUE, bump |-> pt.bump,
                mem |-> WithEntry(pt.mem, pt.table + Index(virt, 1), phys)]
    BY ZenonT(40), <1>9, MapPageSteps DEF pdpt, pd, pt
  <2>2. MapPage(virt, phys).bump \in {b2, b3}
    BY <1>7, <2>1
  <2> QED BY <1>5, <1>6, <2>2
<1> QED BY <1>8, <1>9

\* The sizes that kalloc takes from the heap are not 0, nor is what they are
\* aligned to.
LEMMA HeapSize ==
  ASSUME NEW size \in Sizes, size > SmallLimit \/ \A ci \in Classes : ~class_for(size, ci)
  PROVE size \in Nat \ {0} /\ align_up(size, 2) \in Nat \ {0} /\ size <= align_up(size, 2)
<1>1. size \in Nat
  BY MemAssumption
<1>2. Len(ClassSizes) \in Nat \ {0} /\ ClassSizes \in Seq(2 .. VM_PAGE_SIZE) /\ VM_PAGE_SIZE \in Nat
  BY MemAssumption
<1>3. size # 0
  <2>1. CASE size > SmallLimit
    <3>1. SmallLimit \in 2 .. VM_PAGE_SIZE
      BY <1>2 DEF SmallLimit
    <3> QED BY <1>1, <1>2, <2>1, <3>1
  <2>2. CASE \A ci \in Classes : ~class_for(size, ci)
    <3>1. SUFFICES ASSUME size = 0 PROVE FALSE
      OBVIOUS
    <3>2. 1 \in Classes /\ \A c \in Classes : 1 <= c
      BY <1>2 DEF Classes
    <3>3. ClassSizes[1] \in 2 .. VM_PAGE_SIZE
      BY <1>2
    <3>4. class_for(0, 1)
      BY <1>2, <3>2, <3>3 DEF class_for
    <3> QED BY <2>2, <3>1, <3>2, <3>4
  <2> QED BY <2>1, <2>2
<1>4. align_up(size, 2) \in Nat /\ align_up(size, 2) >= size
  BY <1>1, AlignUp
<1> HIDE DEF align_up
<1> QED BY <1>1, <1>3, <1>4

\* The heap's end only moves up.
LEMMA HeapGrows ==
  ASSUME Bumps, NEW size \in Sizes,
         size > SmallLimit \/ \A ci \in Classes : ~class_for(size, ci),
         heap_reuse(align_up(size, 2), size) \/ heap_extend(align_up(size, 2), size)
  PROVE /\ heap_end' \in Nat /\ heap_end' >= heap_end
        /\ \E o : o.kind = "heap" /\ live' = live \cup {o}
<1> DEFINE s2 == align_up(size, 2)
<1>1. s2 \in Nat /\ size \in Nat /\ heap_start \in Nat /\ MaxHeap \in Nat /\ HDR = 3 /\ heap_end \in Nat
  BY HeapSize, Layout DEF HDR, Bumps
<1>2. \A x : Object("heap", x, size).kind = "heap"
  BY DEF Object
<1> HIDE DEF s2
<1>3. CASE heap_reuse(s2, size)
  <2>1. heap_end' = Higher(heap_end, heap_start + HDR) /\ \E x : live' = live \cup {Object("heap", x, size)}
    BY ZenonT(40), <1>3 DEF heap_reuse
  <2>2. heap_end' \in Nat /\ heap_end' >= heap_end
    BY <1>1, <2>1 DEF Higher
  <2> QED BY ZenonT(40), <1>2, <2>1, <2>2
<1>4. CASE heap_extend(s2, size)
  <2>1. PICK new : /\ new \in heap_start .. MaxHeap + 1 - HDR - s2 /\ heap_end' = Higher(heap_end, new + HDR + s2)
                   /\ live' = live \cup {Object("heap", new + HDR, size)}
    BY ZenonT(40), <1>4 DEF heap_extend
  <2>2. heap_end' \in Nat /\ heap_end' >= heap_end
    BY <1>1, <2>1 DEF Higher
  <2> QED BY ZenonT(40), <1>2, <2>1, <2>2
<1> QED BY <1>3, <1>4 DEF s2

\* Every operation keeps Bumps and moves no bound down.
LEMMA BumpStep == ASSUME Bumps, [Next]_vars PROVE Bumps' /\ Grows
<1>1. page_bump \in Nat /\ heap_end \in Nat /\ VM_PAGE_SIZE \in Nat \ {0}
  BY PageFacts DEF Bumps
<1>0. page_bump % VM_PAGE_SIZE = 0
  BY DEF Bumps
<1>12. page_bump + VM_PAGE_SIZE \in Nat /\ page_bump + VM_PAGE_SIZE >= page_bump /\ page_bump >= page_bump
  BY <1>1
<1>13. (page_bump + VM_PAGE_SIZE) % VM_PAGE_SIZE = 0
  BY ZenonT(40), <1>0, <1>1, NextPage
<1>2. page_bump + VM_PAGE_SIZE \in Nat /\ page_bump + VM_PAGE_SIZE >= page_bump
      /\ (page_bump + VM_PAGE_SIZE) % VM_PAGE_SIZE = 0
  BY ZenonT(40), <1>12, <1>13
<1>3. ASSUME page_bump' = page_bump, heap_end' \in Nat, heap_end' >= heap_end, PagesOut' \subseteq PagesOut \cup {}
      PROVE Bumps' /\ Grows
  <2>1. Bumps'
    <3> DEFINE S == {}
    <3>1. \A p \in S : p \in Nat /\ p + VM_PAGE_SIZE <= page_bump'
      OBVIOUS
    <3>2. page_bump' \in Nat /\ page_bump' >= page_bump /\ page_bump' % VM_PAGE_SIZE = 0
      BY ZenonT(40), <1>0, <1>1, <1>3, <1>12
    <3>3. PagesOut' \subseteq PagesOut \cup S
      BY <1>3
    <3> HIDE DEF S
    <3> QED BY ZenonT(40), <1>3, <3>1, <3>2, <3>3, MorePages
  <2> QED BY ZenonT(40), <1>3, <1>12, <2>1 DEF Grows
<1>4. ASSUME page_bump' = page_bump + VM_PAGE_SIZE, heap_end' = heap_end, PagesOut' \subseteq PagesOut \cup {page_bump}
      PROVE Bumps' /\ Grows
  <2> DEFINE S == {page_bump}
  <2>1. \A p \in S : p \in Nat /\ p + VM_PAGE_SIZE <= page_bump'
    BY <1>1, <1>4
  <2>2. page_bump' \in Nat /\ page_bump' >= page_bump /\ page_bump' % VM_PAGE_SIZE = 0 /\ heap_end' \in Nat
    BY ZenonT(40), <1>1, <1>2, <1>4
  <2>3. Bumps'
    <3>1. PagesOut' \subseteq PagesOut \cup S
      BY <1>4
    <3> HIDE DEF S
    <3> QED BY ZenonT(40), <2>1, <2>2, <3>1, MorePages
  <2> QED BY <1>1, <1>4, <2>2, <2>3 DEF Grows
<1>5. CASE vm_alloc_page
  <2>1. /\ page_bump' = page_bump + VM_PAGE_SIZE /\ heap_end' = heap_end /\ slabs' = slabs
        /\ live' = live \cup {Object("page", page_bump, VM_PAGE_SIZE)}
    BY <1>5 DEF vm_alloc_page
  <2>2. PagesOut' \subseteq PagesOut \cup {page_bump}
    BY <2>1 DEF PagesOut, Object
  <2> QED BY <1>4, <2>1, <2>2
<1>6. ASSUME NEW virt \in Virts, NEW phys \in Physes, vm_map_page(virt, phys) PROVE Bumps' /\ Grows
  <2> DEFINE S == {b \in page_bump .. page_bump' - 1 : b % VM_PAGE_SIZE = 0}
  <2>1. /\ page_bump' = MapPage(virt, phys).bump /\ heap_end' = heap_end /\ slabs' = slabs
        /\ live' = live \cup {Object("table", a, VM_PAGE_SIZE) : a \in S}
    BY <1>6 DEF vm_map_page
  <2>2. Ahead(page_bump, page_bump')
    <3>1. Ahead(page_bump, MapPage(virt, phys).bump)
      BY MapPageBump
    <3> QED BY ZenonT(40), <2>1, <3>1
  <2>3. page_bump' \in Nat /\ page_bump' >= page_bump /\ page_bump' % VM_PAGE_SIZE = 0
    BY <2>2 DEF Ahead
  <2>4. ASSUME NEW p \in S PROVE p \in Nat /\ p + VM_PAGE_SIZE <= page_bump'
    <3>1. p \in page_bump .. page_bump' - 1 /\ p % VM_PAGE_SIZE = 0
      OBVIOUS
    <3>2. page_bump' \in Nat /\ page_bump' % VM_PAGE_SIZE = 0
      BY <2>3
    <3>3. p \in Nat /\ p < page_bump'
      <4>1. p \in page_bump .. page_bump' - 1 /\ page_bump' \in Nat
        BY ZenonT(40), <3>1, <3>2
      <4> QED BY ZenonT(40), <1>1, <4>1, Below
    <3> QED BY ZenonT(40), <1>1, <3>1, <3>2, <3>3, Apart
  <2>5. PagesOut' \subseteq PagesOut \cup S
    <3> HIDE DEF S
    <3>1. \A a \in S : Object("table", a, VM_PAGE_SIZE).ptr = a
      BY DEF Object
    <3> QED BY <2>1, <3>1 DEF PagesOut
  <2> HIDE DEF S
  <2>6. Bumps'
    BY ZenonT(40), <1>1, <2>1, <2>3, <2>4, <2>5, MorePages
  <2> QED BY <1>1, <2>1, <2>3, <2>6 DEF Grows
<1>7. ASSUME NEW size \in Sizes, kalloc(size) PROVE Bumps' /\ Grows
  <2>1. CASE \E ci \in Classes : slab_alloc(size, ci)
    <3>1. PICK ci \in Classes : slab_alloc(size, ci)
      BY <2>1
    <3>2. heap_end' = heap_end /\ \E x : live' = live \cup {Object("slab", x, size)}
      BY ZenonT(40), <3>1 DEF slab_alloc
    <3>3. \/ slabs' = slabs /\ page_bump' = page_bump
          \/ slabs' = slabs \cup {<<page_bump, ci>>} /\ page_bump' = page_bump + VM_PAGE_SIZE
      BY ZenonT(40), <3>1 DEF slab_alloc
    <3>4. PICK x : live' = live \cup {Object("slab", x, size)}
      BY <3>2
    <3>5. Object("slab", x, size).kind = "slab"
      BY DEF Object
    <3>6. CASE slabs' = slabs /\ page_bump' = page_bump
      <4>1. PagesOut' \subseteq PagesOut \cup {}
        BY <3>4, <3>5, <3>6 DEF PagesOut
      <4> QED BY <1>1, <1>3, <3>2, <3>6, <4>1
    <3>7. CASE slabs' = slabs \cup {<<page_bump, ci>>} /\ page_bump' = page_bump + VM_PAGE_SIZE
      <4>1. PagesOut' \subseteq PagesOut \cup {page_bump}
        BY <3>4, <3>5, <3>7 DEF PagesOut
      <4> QED BY <1>4, <3>2, <3>7, <4>1
    <3> QED BY <3>3, <3>6, <3>7
  <2>2. CASE /\ size > SmallLimit \/ \A ci \in Classes : ~class_for(size, ci)
             /\ heap_reuse(align_up(size, 2), size) \/ heap_extend(align_up(size, 2), size)
             /\ UNCHANGED <<page_bump, free_lists, slabs, mapped, uses>>
    <3>1. /\ heap_end' \in Nat /\ heap_end' >= heap_end
          /\ \E o : o.kind = "heap" /\ live' = live \cup {o}
      BY ZenonT(40), <2>2, HeapGrows
    <3>2. PICK o : o.kind = "heap" /\ live' = live \cup {o}
      BY <3>1
    <3>3. PagesOut' \subseteq PagesOut \cup {}
      BY <2>2, <3>2 DEF PagesOut
    <3> QED BY <1>3, <2>2, <3>1, <3>3
  <2> QED BY <1>7, <2>1, <2>2 DEF kalloc
<1>8. ASSUME NEW o \in live, kfree(o) PROVE Bumps' /\ Grows
  <2>1. live' \subseteq live /\ page_bump' = page_bump /\ heap_end' = heap_end /\ slabs' = slabs
    BY <1>8 DEF kfree
  <2>2. PagesOut' \subseteq PagesOut \cup {}
    BY <2>1 DEF PagesOut
  <2> QED BY <1>1, <1>3, <2>1, <2>2
<1>9. ASSUME live' = live, page_bump' = page_bump, heap_end' = heap_end, slabs' = slabs PROVE Bumps' /\ Grows
  <2>1. PagesOut' \subseteq PagesOut \cup {}
    BY <1>9 DEF PagesOut
  <2> QED BY <1>1, <1>3, <1>9, <2>1
<1>10. ASSUME NEW o \in live, NEW w \in Fills, ClientWrite(o, w) PROVE Bumps' /\ Grows
  BY <1>9, <1>10 DEF ClientWrite
<1>11. CASE UNCHANGED vars
  BY <1>9, <1>11 DEF vars
<1> QED BY <1>5, <1>6, <1>7, <1>8, <1>10, <1>11 DEF Next

\* After vm_init no page is out.
LEMMA InitBumps == Init => Bumps
<1> SUFFICES ASSUME Init PROVE Bumps
  OBVIOUS
<1>1. page_bump = FirstPage /\ heap_end = heap_start /\ live = {} /\ slabs = {}
  BY DEF Init
<1>2. PagesOut = {}
  BY <1>1 DEF PagesOut
<1> QED BY <1>1, <1>2, Layout DEF Bumps

\* Once the heap and the pages have met they do not come apart.
LEMMA StayMet == ASSUME Bumps, [Next]_vars, RegionsApart' PROVE RegionsApart
<1>1. Bumps' /\ page_bump' >= page_bump /\ heap_end' >= heap_end
  BY BumpStep DEF Grows
<1>2. FirstPage \in Nat /\ FirstPage' = FirstPage
  BY Layout DEF FirstPage
<1>3. page_bump' = FirstPage \/ heap_end' <= FirstPage
  BY <1>2 DEF RegionsApart
<1>4. /\ page_bump \in Nat /\ page_bump >= FirstPage /\ heap_end \in Nat
      /\ page_bump' \in Nat /\ heap_end' \in Nat
  BY <1>1 DEF Bumps
<1> QED BY <1>1, <1>2, <1>3, <1>4 DEF RegionsApart
=============================================================================
