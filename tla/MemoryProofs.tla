---------------------------- MODULE MemoryProofs ----------------------------
(***************************************************************************)
(* Proofs about the memory of the kernel: the grants of a process, for any *)
(* number of threads and any sequence of mappings (Grants), and the frames *)
(* of the machine, for any memory map (FrameAllocator).                    *)
(***************************************************************************)
EXTENDS Grants, FrameAllocator, WellFoundedInduction, TLAPS

(* The strengthening of Disjoint: every grant is a positive number of      *)
(* whole pages above USER_GRANT_OFFSET.                                    *)
WholePages ==
    \A i \in 1 .. Len(grants) :
        /\ grants[i].start >= USER_GRANT_OFFSET
        /\ grants[i].size > 0
        /\ grants[i].size % 4096 = 0

GrantsInv == grants \in Seq(Grant) /\ WholePages /\ Disjoint

(* What capture_inner and physmap map is a positive number of pages.       *)
LEMMA FullSize ==
    ASSUME NEW address \in Nat, NEW size \in Nat, size # 0
    PROVE  /\ full_size(address, size) \in Nat
           /\ full_size(address, size) > 0
           /\ full_size(address, size) % 4096 = 0
<1> DEFINE x == (address % 4096) + size + 4096 - 1
           n == x \div 4096
<1>1. address % 4096 \in Nat
  OBVIOUS
<1>2. x \in Nat /\ x >= 4096
  BY <1>1
<1> HIDE DEF x
<1>3. n \in Nat /\ n >= 1
  BY <1>2
<1> HIDE DEF n
<1>4. n * 4096 \in Nat /\ n * 4096 > 0 /\ (n * 4096) % 4096 = 0
  BY <1>3
<1> QED  BY <1>4 DEF full_size, PAGE_SIZE, n, x

(* Rounding up to whole pages changes nothing for a grant of whole pages.  *)
LEMMA EndOfGrant ==
    ASSUME NEW g \in Grant, g.size % 4096 = 0
    PROVE  end(g) = g.start + g.size
<1>1. g.size \in Nat /\ g.start \in Nat
  BY DEF Grant
<1>2. ((g.size + 4096 - 1) \div 4096) * 4096 = g.size
  BY <1>1
<1> QED  BY <1>2 DEF end, PAGE_SIZE

(* The loop always ends at a place, and at the first one.                  *)
LEMMA PlaceFound ==
    ASSUME NEW gs \in Seq(Grant), NEW size \in Nat
    PROVE  /\ place(gs, size) \in 1 .. Len(gs) + 1
           /\ fits(gs, place(gs, size), size) \/ place(gs, size) = Len(gs) + 1
<1> DEFINE S == {i \in 1 .. Len(gs) + 1 : fits(gs, i, size) \/ i = Len(gs) + 1}
           R == OpToRel(<, Nat)
<1>1. S # {} /\ S \in SUBSET Nat
  <2>1. Len(gs) \in Nat
    OBVIOUS
  <2>2. Len(gs) + 1 \in S
    BY <2>1
  <2>3. 1 .. Len(gs) + 1 \subseteq Nat
    BY <2>1
  <2> QED  BY <2>2, <2>3
<1>2. IsWellFoundedOn(R, Nat)
  BY NatLessThanWellFounded
<1>3. \A x, y \in Nat : y < x => <<y, x>> \in R
  BY DEF OpToRel
<1> HIDE DEF R
<1>least. ASSUME NEW T \in SUBSET Nat, T # {}
          PROVE  \E i \in T : \A y \in T : ~ (<<y, i>> \in R)
  BY <1>2, <1>least, WFMin
<1>4. PICK i \in S : \A y \in S : ~ (<<y, i>> \in R)
  BY <1>1, <1>least
<1>5. \A y \in S : ~ (y < i)
  BY <1>1, <1>3, <1>4
<1>6. \A j \in 1 .. i - 1 : ~fits(gs, j, size)
  <2>1. ASSUME NEW j \in 1 .. i - 1  PROVE ~fits(gs, j, size)
    <3>1. i \in 1 .. Len(gs) + 1
      OBVIOUS
    <3>2. j \in 1 .. Len(gs) + 1 /\ j < i
      BY <3>1
    <3> QED  BY <1>5, <3>2
  <2> QED  BY <2>1
<1>7. i \in 1 .. Len(gs) + 1 /\ (fits(gs, i, size) \/ i = Len(gs) + 1)
  OBVIOUS
<1> QED  BY <1>6, <1>7 DEF place

(* The place that is found lies above all grants before it, and below all  *)
(* grants after it.                                                        *)
LEMMA PlaceFree ==
    ASSUME GrantsInv, NEW n \in Nat, n > 0, NEW i \in 1 .. Len(grants) + 1,
           fits(grants, i, n) \/ i = Len(grants) + 1
    PROVE  LET to == to_address(grants, i)
           IN  /\ to \in Nat
               /\ to >= USER_GRANT_OFFSET
               /\ \A k \in 1 .. Len(grants) : k < i => end(grants[k]) <= to
               /\ \A k \in 1 .. Len(grants) : k >= i => to + n < grants[k].start
<1> DEFINE to == to_address(grants, i)
<1>1. ASSUME NEW k \in 1 .. Len(grants)
      PROVE  /\ grants[k].start \in Nat
             /\ grants[k].size \in Nat
             /\ end(grants[k]) = grants[k].start + grants[k].size
             /\ grants[k].start >= USER_GRANT_OFFSET
  <2>1. grants[k] \in Grant
    BY DEF GrantsInv
  <2>2. grants[k].size % 4096 = 0 /\ grants[k].start >= USER_GRANT_OFFSET
    BY DEF GrantsInv, WholePages
  <2>3. end(grants[k]) = grants[k].start + grants[k].size
    BY <2>1, <2>2, EndOfGrant
  <2> QED  BY <2>1, <2>2, <2>3 DEF Grant
<1>2. Len(grants) \in Nat
  BY DEF GrantsInv
<1>3. /\ to \in Nat /\ to >= USER_GRANT_OFFSET
      /\ \A k \in 1 .. Len(grants) : k < i => end(grants[k]) <= to
  <2>1. CASE i = 1
    BY <2>1, <1>2, GrantsAssumption DEF to_address
  <2>2. CASE i # 1
    <3>1. i - 1 \in 1 .. Len(grants) /\ to = end(grants[i - 1])
      BY <2>2, <1>2 DEF to_address
    <3>2. ASSUME NEW k \in 1 .. Len(grants), k < i  PROVE end(grants[k]) <= to
      <4>1. CASE k = i - 1
        BY <4>1, <3>1, <1>1
      <4>2. CASE k < i - 1
        <5>1. end(grants[k]) <= grants[i - 1].start
          BY <4>2, <3>1, <1>2 DEF GrantsInv, Disjoint
        <5>2. /\ grants[i - 1].start \in Nat /\ grants[i - 1].size \in Nat
              /\ to = grants[i - 1].start + grants[i - 1].size
          BY <3>1, <1>1
        <5>3. end(grants[k]) \in Nat
          BY <1>1
        <5> HIDE DEF to
        <5> QED  BY <5>1, <5>2, <5>3
      <4> QED  BY <3>2, <4>1, <4>2, <1>2
    <3> QED  BY <3>1, <3>2, <1>1, GrantsAssumption
  <2> QED  BY <2>1, <2>2
<1>4. ASSUME NEW k \in 1 .. Len(grants), k >= i  PROVE to + n < grants[k].start
  <2>1. i \in 1 .. Len(grants) /\ to + n < grants[i].start
    BY <1>4, <1>2 DEF fits
  <2>2. CASE k = i
    BY <2>1, <2>2
  <2>3. CASE k > i
    <3>1. end(grants[i]) <= grants[k].start
      BY <2>1, <2>3 DEF GrantsInv, Disjoint
    <3> QED  BY <3>1, <2>1, <1>1, <1>3
  <2> QED  BY <2>2, <2>3, <1>4, <1>2
<1> QED  BY <1>3, <1>4

(* A new grant in a free place keeps the vector sorted.                    *)
LEMMA InsertKeeps ==
    ASSUME GrantsInv, NEW n \in Nat, n > 0, n % 4096 = 0,
           NEW i \in 1 .. Len(grants) + 1,
           fits(grants, i, n) \/ i = Len(grants) + 1,
           grants' = insert(grants, i, [start |-> to_address(grants, i), size |-> n])
    PROVE  GrantsInv'
<1> DEFINE to == to_address(grants, i)
           g == [start |-> to, size |-> n]
           L == Len(grants)
<1>1. /\ to \in Nat
      /\ to >= USER_GRANT_OFFSET
      /\ \A k \in 1 .. L : k < i => end(grants[k]) <= to
      /\ \A k \in 1 .. L : k >= i => to + n < grants[k].start
  BY PlaceFree
<1> HIDE DEF to
<1>2. g \in Grant /\ g.start = to /\ g.size = n /\ end(g) = to + n
  <2>1. g \in Grant /\ g.start = to /\ g.size = n
    BY <1>1 DEF Grant
  <2>2. g.size % 4096 = 0
    BY <2>1
  <2> HIDE DEF g
  <2>3. end(g) = g.start + g.size
    BY <2>1, <2>2, EndOfGrant
  <2> QED  BY <2>1, <2>3
<1> HIDE DEF g
<1>3. L \in Nat /\ grants \in Seq(Grant)
  BY DEF GrantsInv
<1>4. grants' = [j \in 1 .. L + 1 |-> IF j < i THEN grants[j] ELSE IF j = i THEN g ELSE grants[j - 1]]
  BY DEF insert, g, to
<1>5. \A j \in 1 .. L + 1 : (IF j < i THEN grants[j] ELSE IF j = i THEN g ELSE grants[j - 1]) \in Grant
  BY <1>2, <1>3
<1>6. grants' \in Seq(Grant) /\ Len(grants') = L + 1
  <2> DEFINE f == [j \in 1 .. L + 1 |-> IF j < i THEN grants[j] ELSE IF j = i THEN g ELSE grants[j - 1]]
  <2>1. f \in [1 .. L + 1 -> Grant]
    BY <1>5
  <2>2. grants' = f /\ L + 1 \in Nat
    BY <1>3, <1>4, SMTT(30)
  <2> HIDE DEF f, L
  <2> QED  BY <2>1, <2>2
<1>7. WholePages'
  <2>1. ASSUME NEW j \in 1 .. L + 1
        PROVE  grants'[j].start >= USER_GRANT_OFFSET /\ grants'[j].size > 0 /\ grants'[j].size % 4096 = 0
    <3>1. CASE j < i
      BY <3>1, <1>3, <1>4 DEF GrantsInv, WholePages
    <3>2. CASE j = i
      BY <3>2, <1>1, <1>2, <1>4
    <3>3. CASE j > i
      BY <3>3, <1>3, <1>4 DEF GrantsInv, WholePages
    <3> QED  BY <3>1, <3>2, <3>3, <1>3
  <2> QED  BY <2>1, <1>6 DEF WholePages
<1>8. Disjoint'
  <2>1. ASSUME NEW j \in 1 .. L + 1, NEW k \in 1 .. L + 1, j < k
        PROVE  end(grants'[j]) <= grants'[k].start
    <3>1. CASE k < i
      BY <3>1, <2>1, <1>3, <1>4 DEF GrantsInv, Disjoint
    <3>2. CASE k = i
      BY <3>2, <2>1, <1>1, <1>2, <1>3, <1>4
    <3>3. CASE k > i /\ j = i
      <4>1. k - 1 \in 1 .. L /\ k - 1 >= i /\ grants'[k] = grants[k - 1] /\ grants'[j] = g
        BY <3>3, <2>1, <1>3, <1>4
      <4>2. to + n < grants[k - 1].start
        BY <4>1, <1>1
      <4>3. grants[k - 1].start \in Nat
        <5>1. grants[k - 1] \in Grant
          BY <4>1, <1>3
        <5> QED  BY <5>1 DEF Grant
      <4> QED  BY <4>1, <4>2, <4>3, <1>1, <1>2
    <3>4. CASE k > i /\ j < i
      <4>1. k - 1 \in 1 .. L /\ j \in 1 .. L /\ j < k - 1 /\ grants'[k] = grants[k - 1] /\ grants'[j] = grants[j]
        BY <3>4, <2>1, <1>3, <1>4
      <4> QED  BY <4>1 DEF GrantsInv, Disjoint
    <3>5. CASE k > i /\ j > i
      <4>1. k - 1 \in 1 .. L /\ j - 1 \in 1 .. L /\ j - 1 < k - 1
            /\ grants'[k] = grants[k - 1] /\ grants'[j] = grants[j - 1]
        BY <3>5, <2>1, <1>3, <1>4
      <4> QED  BY <4>1 DEF GrantsInv, Disjoint
    <3> QED  BY <3>1, <3>2, <3>3, <3>4, <3>5, <1>3
  <2> QED  BY <2>1, <1>6 DEF Disjoint
<1> QED  BY <1>6, <1>7, <1>8 DEF GrantsInv

(* Taking a grant out keeps the vector sorted.                             *)
LEMMA RemoveKeeps ==
    ASSUME GrantsInv, NEW i \in 1 .. Len(grants), grants' = remove(grants, i)
    PROVE  GrantsInv'
<1> DEFINE L == Len(grants)
           from(j) == IF j < i THEN j ELSE j + 1
<1>1. L \in Nat /\ L >= 1 /\ grants \in Seq(Grant)
  BY DEF GrantsInv
<1>2. grants' = [j \in 1 .. L - 1 |-> IF j < i THEN grants[j] ELSE grants[j + 1]]
  BY DEF remove
<1>3. \A j \in 1 .. L - 1 : from(j) \in 1 .. L /\ grants'[j] = grants[from(j)]
  BY <1>1, <1>2
<1>4. \A j, k \in 1 .. L - 1 : j < k => from(j) < from(k)
  BY <1>1
<1> HIDE DEF from
<1>5. \A j \in 1 .. L - 1 : (IF j < i THEN grants[j] ELSE grants[j + 1]) \in Grant
  BY <1>1
<1>6. grants' \in Seq(Grant) /\ Len(grants') = L - 1
  BY <1>1, <1>2, <1>5
<1>7. WholePages'
  BY <1>3, <1>6 DEF GrantsInv, WholePages
<1>8. Disjoint'
  BY <1>3, <1>4, <1>6, SMTT(30) DEF GrantsInv, Disjoint
<1> QED  BY <1>6, <1>7, <1>8 DEF GrantsInv

(* Every call that changes the grants keeps the invariant.                 *)
LEMMA NextGrants ==
    ASSUME GrantsInv, [Next]_vars
    PROVE  GrantsInv'
<1>1. CASE UNCHANGED grants
  BY <1>1 DEF GrantsInv, WholePages, Disjoint
<1>2. ASSUME NEW c \in Threads, NEW address \in Addresses, NEW size \in Sizes,
             physmap(c, address, size)
      PROVE  GrantsInv'
  <2> DEFINE n == full_size(address, size)
             i == place(grants, n)
  <2>1. n \in Nat /\ n > 0 /\ n % 4096 = 0
    BY <1>2, FullSize, GrantsAssumption DEF physmap
  <2>2. grants' = insert(grants, i, [start |-> to_address(grants, i), size |-> n])
    BY <1>2 DEF physmap
  <2> HIDE DEF n
  <2>3. i \in 1 .. Len(grants) + 1 /\ (fits(grants, i, n) \/ i = Len(grants) + 1)
    BY <2>1, PlaceFound DEF GrantsInv
  <2> HIDE DEF i
  <2> QED  BY <2>1, <2>2, <2>3, InsertKeeps
<1>3. ASSUME NEW c \in Threads, NEW address, funmap(c, address)  PROVE GrantsInv'
  BY <1>3, RemoveKeeps DEF funmap
<1>4. ASSUME NEW c \in Threads, exit(c)  PROVE GrantsInv'
  <2>1. CASE grants' = <<>>
    BY <2>1 DEF GrantsInv, WholePages, Disjoint
  <2> QED  BY <2>1, <1>1, <1>4 DEF exit
<1>5. ASSUME NEW c \in Threads, NEW d \in Threads, clone(c, d)  PROVE GrantsInv'
  BY <1>1, <1>5 DEF clone
<1> QED  BY <1>1, <1>2, <1>3, <1>4, <1>5 DEF Next, vars

(* No two grants of a process ever overlap: Disjoint, for every number of  *)
(* threads and grants, and every address and size that is mapped.          *)
THEOREM GrantsDisjoint == Spec => []Disjoint
<1>1. Init => GrantsInv
  BY DEF Init, GrantsInv, WholePages, Disjoint
<1>2. GrantsInv /\ [Next]_vars => GrantsInv'
  BY NextGrants
<1>3. GrantsInv => Disjoint
  BY DEF GrantsInv
<1> QED  BY <1>1, <1>2, <1>3, PTL DEF Spec

-----------------------------------------------------------------------------
(* The page tables agree with the vector of grants in a process whose      *)
(* threads were all cloned while it had a grant.                           *)

(* The pages of the grants gs.                                             *)
all_pages(gs) == UNION {pages(gs[i]) : i \in 1 .. Len(gs)}

(* The strengthening of GrantsExact: a table is named after a thread that  *)
(* leads to it, a thread that leads to none has mapped nothing, and the    *)
(* threads of the process share their table as soon as there are two.      *)
SharedTables ==
    /\ live \subseteq Threads
    /\ p4 \in [Threads -> Threads \cup {None}]
    /\ mapped \in [Threads -> SUBSET Nat]
    /\ \A c \in Threads :
         IF p4[c] = None THEN mapped[c] = {} ELSE p4[p4[c]] = p4[c]
    /\ together => \A c, d \in live : c # d => p4[c] # None /\ p4[c] = p4[d]

TablesInv == GrantsInv /\ SharedTables /\ GrantsExact

(* The pages of a grant lie in it, and there is one.                       *)
LEMMA PagesInside ==
    ASSUME NEW g \in Grant, g.size > 0
    PROVE  /\ pages(g) \subseteq Nat
           /\ g.start \in pages(g)
           /\ \A p \in pages(g) : g.start <= p /\ p < g.start + g.size
<1>1. g.start \in Nat /\ g.size \in Nat
  BY DEF Grant
<1>2. (g.size - 1) \div 4096 \in Nat
  BY <1>1
<1>3. ASSUME NEW k \in 0 .. (g.size - 1) \div 4096
      PROVE  g.start + k * 4096 \in Nat /\ k * 4096 >= 0 /\ k * 4096 <= g.size - 1
  <2>1. k \in Nat /\ k <= (g.size - 1) \div 4096
    BY <1>2
  <2> QED  BY <1>1, <2>1
<1>4. 0 \in 0 .. (g.size - 1) \div 4096 /\ g.start + 0 * 4096 = g.start
  BY <1>1, <1>2
<1>5. \A p \in pages(g) : p \in Nat /\ g.start <= p /\ p < g.start + g.size
  <2>1. ASSUME NEW p \in pages(g)  PROVE p \in Nat /\ g.start <= p /\ p < g.start + g.size
    <3>1. PICK k \in 0 .. (g.size - 1) \div 4096 : p = g.start + k * 4096
      BY DEF pages, PAGE_SIZE
    <3>2. k * 4096 \in Nat
      BY <1>2
    <3> QED  BY <3>1, <3>2, <1>1, <1>3
  <2> QED  BY <2>1
<1>6. g.start \in pages(g)
  BY <1>4 DEF pages, PAGE_SIZE
<1> QED  BY <1>5, <1>6

(* A grant that lies before another shares no page with it.                *)
LEMMA PagesApart ==
    ASSUME NEW g \in Grant, NEW h \in Grant, g.size > 0, h.size > 0,
           g.start + g.size <= h.start
    PROVE  pages(g) \cap pages(h) = {}
<1>1. g.start \in Nat /\ g.size \in Nat /\ h.start \in Nat
  BY DEF Grant
<1>2. ASSUME NEW p \in pages(g), p \in pages(h)  PROVE FALSE
  <2>1. p \in Nat /\ p < g.start + g.size /\ h.start <= p
    BY <1>2, PagesInside
  <2> QED  BY <1>1, <2>1
<1> QED  BY <1>2

(* Every grant of the vector is one to which the lemmas apply.             *)
LEMMA GrantOfVector ==
    ASSUME GrantsInv, NEW k \in 1 .. Len(grants)
    PROVE  /\ grants[k] \in Grant
           /\ grants[k].size > 0
           /\ end(grants[k]) = grants[k].start + grants[k].size
<1>1. grants[k] \in Grant /\ grants[k].size > 0 /\ grants[k].size % 4096 = 0
  BY DEF GrantsInv, WholePages
<1> QED  BY <1>1, EndOfGrant

(* Vec::insert adds the pages of the new grant.                            *)
LEMMA InsertPages ==
    ASSUME NEW gs \in Seq(Grant), NEW g, NEW i \in 1 .. Len(gs) + 1
    PROVE  all_pages(insert(gs, i, g)) = all_pages(gs) \cup pages(g)
<1> DEFINE L == Len(gs)
           new == insert(gs, i, g)
<1>1. L \in Nat
  OBVIOUS
<1>2. new = [j \in 1 .. L + 1 |-> IF j < i THEN gs[j] ELSE IF j = i THEN g ELSE gs[j - 1]]
  BY DEF insert
<1>3. Len(new) = L + 1
  BY <1>1, <1>2
<1> HIDE DEF new
<1>4. ASSUME NEW j \in 1 .. L + 1  PROVE pages(new[j]) \subseteq all_pages(gs) \cup pages(g)
  <2>1. CASE j = i
    BY <2>1, <1>2
  <2>2. CASE j < i
    BY <2>2, <1>1, <1>2 DEF all_pages
  <2>3. CASE j > i
    <3>1. j - 1 \in 1 .. L /\ new[j] = gs[j - 1]
      BY <2>3, <1>1, <1>2
    <3> QED  BY <3>1 DEF all_pages
  <2> QED  BY <2>1, <2>2, <2>3, <1>1
<1>5. ASSUME NEW j \in 1 .. L  PROVE \E k \in 1 .. L + 1 : new[k] = gs[j]
  <2>1. CASE j < i
    BY <2>1, <1>1, <1>2
  <2>2. CASE j >= i
    <3>1. j + 1 \in 1 .. L + 1 /\ new[j + 1] = gs[j]
      BY <2>2, <1>1, <1>2
    <3> QED  BY <3>1
  <2> QED  BY <2>1, <2>2, <1>1
<1>6. new[i] = g
  BY <1>1, <1>2
<1>7. all_pages(new) \subseteq all_pages(gs) \cup pages(g)
  BY <1>3, <1>4 DEF all_pages
<1>8. all_pages(gs) \subseteq all_pages(new)
  <2>1. ASSUME NEW j \in 1 .. L  PROVE pages(gs[j]) \subseteq all_pages(new)
    <3>1. PICK k \in 1 .. L + 1 : new[k] = gs[j]
      BY <1>5
    <3> QED  BY <3>1, <1>3 DEF all_pages
  <2> QED  BY <2>1 DEF all_pages
<1>9. pages(g) \subseteq all_pages(new)
  BY <1>3, <1>6 DEF all_pages
<1> QED  BY <1>7, <1>8, <1>9 DEF new

(* Vec::remove takes the pages of the grant away, and those only.          *)
LEMMA RemovePages ==
    ASSUME GrantsInv, NEW i \in 1 .. Len(grants)
    PROVE  all_pages(remove(grants, i)) = all_pages(grants) \ pages(grants[i])
<1> DEFINE L == Len(grants)
           new == remove(grants, i)
<1>1. L \in Nat /\ L >= 1 /\ grants \in Seq(Grant)
  BY DEF GrantsInv
<1>2. new = [j \in 1 .. L - 1 |-> IF j < i THEN grants[j] ELSE grants[j + 1]]
  BY DEF remove
<1>3. Len(new) = L - 1
  BY <1>1, <1>2
<1> HIDE DEF new
<1>4. ASSUME NEW k \in 1 .. L, k # i  PROVE pages(grants[k]) \cap pages(grants[i]) = {}
  <2>1. CASE k < i
    <3>1. end(grants[k]) <= grants[i].start
      BY <2>1 DEF GrantsInv, Disjoint
    <3> QED  BY <3>1, GrantOfVector, PagesApart
  <2>2. CASE i < k
    <3>1. end(grants[i]) <= grants[k].start
      BY <2>2 DEF GrantsInv, Disjoint
    <3>2. pages(grants[i]) \cap pages(grants[k]) = {}
      BY <3>1, GrantOfVector, PagesApart
    <3> QED  BY <3>2
  <2> QED  BY <2>1, <2>2, <1>1, <1>4
<1>5. ASSUME NEW j \in 1 .. L - 1  PROVE \E k \in 1 .. L : k # i /\ new[j] = grants[k]
  <2>1. CASE j < i
    BY <2>1, <1>1, <1>2
  <2>2. CASE j >= i
    <3>1. j + 1 \in 1 .. L /\ j + 1 # i /\ new[j] = grants[j + 1]
      BY <2>2, <1>1, <1>2
    <3> QED  BY <3>1
  <2> QED  BY <2>1, <2>2, <1>1
<1>6. ASSUME NEW k \in 1 .. L, k # i  PROVE \E j \in 1 .. L - 1 : new[j] = grants[k]
  <2>1. CASE k < i
    BY <2>1, <1>1, <1>2
  <2>2. CASE k > i
    <3>1. k - 1 \in 1 .. L - 1 /\ new[k - 1] = grants[k]
      BY <2>2, <1>1, <1>2
    <3> QED  BY <3>1
  <2> QED  BY <2>1, <2>2, <1>1, <1>6
<1>7. ASSUME NEW p \in all_pages(new)  PROVE p \in all_pages(grants) \ pages(grants[i])
  <2>1. PICK j \in 1 .. L - 1 : p \in pages(new[j])
    BY <1>3, <1>7 DEF all_pages
  <2>2. PICK k \in 1 .. L : k # i /\ new[j] = grants[k]
    BY <1>5
  <2> QED  BY <2>1, <2>2, <1>4 DEF all_pages
<1>8. ASSUME NEW p \in all_pages(grants) \ pages(grants[i])  PROVE p \in all_pages(new)
  <2>1. PICK k \in 1 .. L : p \in pages(grants[k])
    BY <1>8 DEF all_pages
  <2>2. PICK j \in 1 .. L - 1 : new[j] = grants[k]
    BY <2>1, <1>6
  <2> QED  BY <2>1, <2>2, <1>3 DEF all_pages
<1> QED  BY <1>7, <1>8 DEF new

(* The pages of a place that was found are not those of a grant.           *)
LEMMA NewPagesFree ==
    ASSUME GrantsInv, NEW n \in Nat, n > 0, NEW i \in 1 .. Len(grants) + 1,
           fits(grants, i, n) \/ i = Len(grants) + 1
    PROVE  LET g == [start |-> to_address(grants, i), size |-> n]
           IN  pages(g) \subseteq Nat /\ pages(g) \cap all_pages(grants) = {}
<1> DEFINE to == to_address(grants, i)
           g == [start |-> to, size |-> n]
<1>1. /\ to \in Nat
      /\ \A k \in 1 .. Len(grants) : k < i => end(grants[k]) <= to
      /\ \A k \in 1 .. Len(grants) : k >= i => to + n < grants[k].start
  BY PlaceFree
<1> HIDE DEF to
<1>2. g \in Grant /\ g.start = to /\ g.size = n
  BY <1>1 DEF Grant
<1> HIDE DEF g
<1>3. Len(grants) \in Nat
  BY DEF GrantsInv
<1>4. ASSUME NEW k \in 1 .. Len(grants)  PROVE pages(grants[k]) \cap pages(g) = {}
  <2>1. CASE k < i
    <3>1. grants[k].start + grants[k].size <= g.start
      BY <2>1, <1>1, <1>2, GrantOfVector
    <3> QED  BY <3>1, <1>2, GrantOfVector, PagesApart
  <2>2. CASE k >= i
    <3>1. to + n < grants[k].start
      BY <2>2, <1>1
    <3>2. grants[k].start \in Nat
      BY GrantOfVector DEF Grant
    <3>3. g.start + g.size <= grants[k].start
      BY <3>1, <3>2, <1>1, <1>2
    <3>4. pages(g) \cap pages(grants[k]) = {}
      BY <3>3, <1>2, GrantOfVector, PagesApart
    <3> QED  BY <3>4
  <2> QED  BY <2>1, <2>2, <1>3
<1>5. pages(g) \subseteq Nat
  BY <1>2, PagesInside
<1>6. pages(g) \cap all_pages(grants) = {}
  BY <1>4 DEF all_pages
<1> QED  BY <1>5, <1>6 DEF g, to

(* A thread of a process with a grant has a table.                         *)
LEMMA GrantHasTable ==
    ASSUME TablesInv, together, NEW c \in live, grants # <<>>
    PROVE  p4[c] # None
<1>1. 1 \in 1 .. Len(grants)
  BY DEF TablesInv, GrantsInv
<1>2. grants[1].start \in all_pages(grants)
  BY <1>1, GrantOfVector, PagesInside DEF TablesInv, all_pages
<1> QED  BY <1>2 DEF TablesInv, GrantsExact, MappedExactly, all_pages

(* What a thread sees of the pages of the grants.                          *)
seen(c) == IF p4[c] = None THEN {} ELSE mapped[p4[c]]

LEMMA PhysmapKeeps ==
    ASSUME TablesInv, ~panicked, NEW c \in Threads, NEW address \in Addresses, NEW size \in Sizes,
           physmap(c, address, size)
    PROVE  SharedTables' /\ GrantsExact'
<1> DEFINE n == full_size(address, size)
           i == place(grants, n)
           g == [start |-> to_address(grants, i), size |-> n]
           t == IF p4[c] = None THEN c ELSE p4[c]
<1>1. n \in Nat /\ n > 0
  BY FullSize, GrantsAssumption DEF physmap
<1>2. /\ c \in live /\ grants' = insert(grants, i, g)
      /\ live' = live /\ together' = together
      /\ p4' = [p4 EXCEPT ![c] = t]
      /\ panicked' = (panicked \/ pages(g) \cap mapped[t] # {})
      /\ mapped' = [mapped EXCEPT ![t] = @ \cup pages(g)]
  BY DEF physmap, map_to
<1>3. grants \in Seq(Grant)
  BY DEF TablesInv, GrantsInv
<1> HIDE DEF n
<1>4. i \in 1 .. Len(grants) + 1 /\ (fits(grants, i, n) \/ i = Len(grants) + 1)
  BY <1>1, <1>3, PlaceFound
<1> HIDE DEF i
<1>5. pages(g) \subseteq Nat /\ pages(g) \cap all_pages(grants) = {}
  BY <1>1, <1>4, NewPagesFree DEF TablesInv
<1>6. all_pages(grants') = all_pages(grants) \cup pages(g)
  BY <1>2, <1>3, <1>4, InsertPages
<1> HIDE DEF g
<1>7. t \in Threads /\ p4'[c] = t /\ p4'[t] = t /\ t # None
  BY <1>2, GrantsAssumption DEF TablesInv, SharedTables
<1>8. /\ live' \subseteq Threads
      /\ p4' \in [Threads -> Threads \cup {None}]
      /\ mapped' \in [Threads -> SUBSET Nat]
  BY <1>2, <1>5, <1>7 DEF TablesInv, SharedTables
<1>9. ASSUME NEW x \in Threads
      PROVE  IF p4'[x] = None THEN mapped'[x] = {} ELSE p4'[p4'[x]] = p4'[x]
  <2>1. CASE x = c
    BY <2>1, <1>7
  <2>2. CASE x # c /\ p4[x] = None
    <3>1. p4'[x] = None /\ x # t
      BY <2>2, <1>2, <1>7 DEF TablesInv, SharedTables
    <3> QED  BY <3>1, <2>2, <1>2, <1>7 DEF TablesInv, SharedTables
  <2>3. CASE x # c /\ p4[x] # None
    <3>1. p4'[x] = p4[x] /\ p4[p4[x]] = p4[x]
      BY <2>3, <1>2 DEF TablesInv, SharedTables
    <3>2. p4[x] \in Threads
      BY <2>3 DEF TablesInv, SharedTables
    <3>3. p4[x] = c => t = c
      BY <2>3, <3>1, GrantsAssumption
    <3> QED  BY <2>3, <3>1, <3>2, <3>3, <1>2 DEF TablesInv, SharedTables
  <2> QED  BY <2>1, <2>2, <2>3
<1>10. CASE ~together
  BY <1>10, <1>2, <1>8, <1>9 DEF SharedTables, GrantsExact, NoPanicTogether, MappedExactly
<1>11. CASE together
  <2>1. mapped[t] = all_pages(grants)
    <3>1. seen(c) = all_pages(grants)
      BY <1>2, <1>11 DEF TablesInv, GrantsExact, MappedExactly, seen, all_pages
    <3> QED  BY <3>1 DEF TablesInv, SharedTables, seen
  <2>2. ~panicked'
    BY <1>2, <1>5, <2>1
  <2>3. ASSUME NEW x \in live  PROVE p4'[x] = t
    <3>1. CASE x = c
      BY <3>1, <1>7
    <3>2. CASE x # c
      BY <3>2, <1>2, <1>11 DEF TablesInv, SharedTables
    <3> QED  BY <3>1, <3>2
  <2>4. mapped'[t] = all_pages(grants')
    BY <1>2, <1>6, <1>7, <2>1 DEF TablesInv, SharedTables
  <2>5. MappedExactly'
    BY <1>2, <1>7, <2>3, <2>4 DEF MappedExactly, all_pages
  <2>6. SharedTables'
    BY <1>2, <1>7, <1>8, <1>9, <2>3 DEF SharedTables
  <2> QED  BY <2>2, <2>5, <2>6 DEF GrantsExact, NoPanicTogether, NoPanic
<1> QED  BY <1>10, <1>11

(* Unmapping the pages ps of grants from the table of c.                   *)
LEMMA UnmapKeeps ==
    ASSUME TablesInv, ~panicked, NEW c \in live, NEW ps \in SUBSET all_pages(grants),
           unmap_return(c, ps),
           p4' = p4, together' = together, live' \subseteq live,
           live' = {} \/ all_pages(grants') = all_pages(grants) \ ps
    PROVE  SharedTables' /\ GrantsExact'
<1>1. c \in Threads /\ live' \subseteq Threads
  BY DEF TablesInv, SharedTables
<1>2. /\ mapped' \in [Threads -> SUBSET Nat]
      /\ \A x \in Threads : IF p4'[x] = None THEN mapped'[x] = {} ELSE p4'[p4'[x]] = p4'[x]
  <2>1. CASE p4[c] = None
    BY <2>1 DEF unmap_return, TablesInv, SharedTables
  <2>2. CASE p4[c] # None
    <3>1. mapped' = [mapped EXCEPT ![p4[c]] = @ \ ps] /\ p4[c] \in Threads
      BY <2>2, <1>1 DEF unmap_return, TablesInv, SharedTables
    <3> QED  BY <3>1 DEF TablesInv, SharedTables
  <2> QED  BY <2>1, <2>2
<1>3. SharedTables'
  BY <1>1, <1>2 DEF TablesInv, SharedTables
<1>4. CASE ~together
  BY <1>3, <1>4 DEF GrantsExact, NoPanicTogether, MappedExactly
<1>5. CASE together
  <2>1. seen(c) = all_pages(grants)
    BY <1>5 DEF TablesInv, GrantsExact, MappedExactly, seen, all_pages
  <2>2. ~panicked'
    BY <2>1 DEF unmap_return, seen
  <2>3. ASSUME NEW x \in live'  PROVE seen(x)' = all_pages(grants')
    <3>1. all_pages(grants') = all_pages(grants) \ ps /\ x \in live
      BY <2>3
    <3>2. CASE p4[c] = None
      <4>1. x = c /\ all_pages(grants) = {}
        BY <3>1, <3>2, <2>1, <1>5 DEF TablesInv, SharedTables, seen
      <4> QED  BY <4>1, <3>1, <3>2 DEF seen
    <3>3. CASE p4[c] # None
      <4>1. p4[x] = p4[c] /\ p4[c] \in Threads
        BY <3>1, <3>3, <1>1, <1>5 DEF TablesInv, SharedTables
      <4>2. mapped'[p4[c]] = mapped[p4[c]] \ ps
        BY <3>3, <4>1 DEF unmap_return, TablesInv, SharedTables
      <4> QED  BY <4>1, <4>2, <3>1, <3>3, <2>1 DEF seen
    <3> QED  BY <3>2, <3>3
  <2>4. MappedExactly'
    BY <2>3 DEF MappedExactly, seen, all_pages
  <2> QED  BY <1>3, <2>2, <2>4 DEF GrantsExact, NoPanicTogether, NoPanic
<1> QED  BY <1>4, <1>5

LEMMA CloneKeeps ==
    ASSUME TablesInv, ~panicked, NEW c \in Threads, NEW d \in Threads, clone(c, d)
    PROVE  SharedTables' /\ GrantsExact'
<1>1. /\ c \in live /\ d \notin live /\ p4[d] = None
      /\ live' = live \cup {d} /\ grants' = grants /\ mapped' = mapped
      /\ together' => together /\ grants # <<>>
  BY DEF clone
<1>2. p4' = p4 \/ p4' = [p4 EXCEPT ![d] = p4[c]]
  BY DEF clone
<1>3. /\ live' \subseteq Threads
      /\ p4' \in [Threads -> Threads \cup {None}]
      /\ mapped' \in [Threads -> SUBSET Nat]
  BY <1>1, <1>2 DEF TablesInv, SharedTables
<1>4. ASSUME NEW x \in Threads
      PROVE  IF p4'[x] = None THEN mapped'[x] = {} ELSE p4'[p4'[x]] = p4'[x]
  <2>1. \A y \in Threads : p4[y] # None => p4[y] \in Threads /\ p4[y] # d /\ p4[p4[y]] = p4[y]
    BY <1>1 DEF TablesInv, SharedTables
  <2>2. \A y \in Threads : p4[y] # None => p4'[p4[y]] = p4[y]
    BY <1>2, <2>1 DEF TablesInv, SharedTables
  <2>3. p4'[x] = p4[x] \/ (x = d /\ p4'[x] = p4[c])
    BY <1>2 DEF TablesInv, SharedTables
  <2> QED  BY <1>1, <2>2, <2>3 DEF TablesInv, SharedTables
<1>5. CASE ~together'
  BY <1>3, <1>4, <1>5 DEF SharedTables, GrantsExact, NoPanicTogether, MappedExactly
<1>6. CASE together'
  <2>1. together /\ grants # <<>> /\ p4[c] # None
    BY <1>1, <1>6, GrantHasTable
  <2>2. p4' = [p4 EXCEPT ![d] = p4[c]] /\ ~panicked'
    BY <2>1 DEF clone
  <2>3. \A x \in live' : p4'[x] = p4[c]
    BY <1>1, <2>1, <2>2 DEF TablesInv, SharedTables
  <2>4. mapped[p4[c]] = all_pages(grants)
    BY <1>1, <2>1 DEF TablesInv, GrantsExact, MappedExactly, all_pages
  <2>5. MappedExactly'
    BY <1>1, <2>1, <2>3, <2>4 DEF MappedExactly, all_pages
  <2>6. SharedTables'
    BY <1>3, <1>4, <2>1, <2>3 DEF SharedTables
  <2> QED  BY <2>2, <2>5, <2>6 DEF GrantsExact, NoPanicTogether, NoPanic
<1> QED  BY <1>5, <1>6

LEMMA NextTables ==
    ASSUME TablesInv, [Next]_vars
    PROVE  TablesInv'
<1>1. GrantsInv'
  BY NextGrants DEF TablesInv
<1>2. CASE UNCHANGED vars
  BY <1>1, <1>2 DEF vars, TablesInv, SharedTables, GrantsExact, NoPanicTogether, NoPanic, MappedExactly
<1>3. ASSUME Next  PROVE SharedTables' /\ GrantsExact'
  <2>1. ~panicked
    BY <1>3 DEF Next
  <2>2. ASSUME NEW c \in Threads, NEW address, funmap(c, address)
        PROVE  SharedTables' /\ GrantsExact'
    <3>1. c \in live /\ live' = live /\ p4' = p4 /\ together' = together
      BY <2>2 DEF funmap
    <3>2. PICK i \in 1 .. Len(grants) : grants' = remove(grants, i) /\ unmap_return(c, pages(grants[i]))
      BY <2>2 DEF funmap
    <3>3. pages(grants[i]) \subseteq all_pages(grants)
      BY DEF all_pages
    <3>4. all_pages(grants') = all_pages(grants) \ pages(grants[i])
      BY <3>2, RemovePages DEF TablesInv
    <3> QED  BY <2>1, <3>1, <3>2, <3>3, <3>4, UnmapKeeps
  <2>3. ASSUME NEW c \in Threads, exit(c)  PROVE SharedTables' /\ GrantsExact'
    <3>1. c \in live /\ live' = live \ {c} /\ p4' = p4 /\ together' = together
      BY <2>3 DEF exit
    <3>2. CASE live = {c}
      <4>1. unmap_return(c, all_pages(grants)) /\ live' = {}
        BY <2>3, <3>1, <3>2 DEF exit, all_pages
      <4> QED  BY <2>1, <3>1, <4>1, UnmapKeeps
    <3>3. CASE live # {c}
      <4>1. grants' = grants /\ mapped' = mapped /\ panicked' = panicked
        BY <2>3, <3>3 DEF exit
      <4> QED  BY <3>1, <4>1 DEF TablesInv, SharedTables, GrantsExact, NoPanicTogether, NoPanic, MappedExactly
    <3> QED  BY <3>2, <3>3
  <2> QED  BY <1>3, <2>1, <2>2, <2>3, PhysmapKeeps, CloneKeeps DEF Next
<1> QED  BY <1>1, <1>2, <1>3 DEF TablesInv

(* In a process whose threads were all cloned while it had a grant, every  *)
(* thread sees the pages of the grants and no others, and no assertion of  *)
(* the page table code fails, for every number of threads and grants, and  *)
(* whichever thread maps, unmaps, clones or exits.                         *)
THEOREM GrantsMapped == Spec => []GrantsExact
<1>1. Init => TablesInv
  BY DEF Init, TablesInv, GrantsInv, WholePages, Disjoint, SharedTables, GrantsExact,
         NoPanicTogether, NoPanic, MappedExactly
<1>2. TablesInv /\ [Next]_vars => TablesInv'
  BY NextTables
<1>3. TablesInv => GrantsExact
  BY DEF TablesInv
<1> QED  BY <1>1, <1>2, <1>3, PTL DEF Spec

-----------------------------------------------------------------------------
(* No frame is returned twice and none outside the free memory, for every  *)
(* memory map, kernel and sequence of requests.                            *)

(* choose_next_area keeps what the invariant says of the area in use.      *)
LEMMA ChoiceKeeps ==
    ASSUME AllocatorIInv, choose_next_area(next_free_frame)
    PROVE  /\ next_free_frame' \in Nat
           /\ next_free_frame' >= next_free_frame
           /\ current_area' \in Areas \cup {NoArea}
           /\ current_area' # NoArea => current_area'.first <= next_free_frame'
<1>1. CASE current_area' = NoArea /\ next_free_frame' = next_free_frame
  BY <1>1 DEF AllocatorIInv, AllocatorTypeOK
<1>2. CASE \E a \in remaining(next_free_frame) :
             /\ current_area' = a
             /\ next_free_frame' = IF next_free_frame < a.first THEN a.first ELSE next_free_frame
  <2>1. PICK a \in Areas :
             /\ current_area' = a
             /\ next_free_frame' = IF next_free_frame < a.first THEN a.first ELSE next_free_frame
    BY <1>2 DEF remaining
  <2>2. a.first \in Nat
    BY FrameAssumption
  <2> QED
    BY <2>1, <2>2 DEF AllocatorIInv, AllocatorTypeOK
<1> QED
  BY <1>1, <1>2 DEF choose_next_area

(* The range that take returns is fresh, in the area and not the kernel's. *)
LEMMA TakeFresh ==
    ASSUME AllocatorIInv, take
    PROVE  AllocatorIInv'
<1>1. /\ current_area \in Areas
      /\ trying \in Nat \ {0}
      /\ next_free_frame \in Nat
  BY FrameAssumption DEF AllocatorIInv, AllocatorTypeOK, take
<1>2. PICK a : a = current_area
  OBVIOUS
<1>3. a \in Areas /\ a.first \in Nat /\ a.last \in Nat /\ a.first <= next_free_frame
  BY <1>1, <1>2, FrameAssumption DEF AllocatorIInv
<1>4. /\ end_frame \in Nat
      /\ end_frame <= a.last
      /\ next_free_frame > KernelEnd
      /\ next_free_frame' = end_frame + 1
  BY <1>1, <1>2, <1>3, FrameAssumption DEF take, end_frame, overflows, in_kernel, after
<1>5. /\ latest' = next_free_frame .. end_frame
      /\ allocated' = allocated \cup latest
      /\ trying' = 0
      /\ current_area' = current_area
      /\ depth' = depth
  BY DEF take
<1>6. latest' \subseteq Nat /\ latest' \subseteq a.first .. a.last
  BY <1>1, <1>3, <1>4, <1>5
<1>7. latest' \cap Kernel = {}
  BY <1>1, <1>4, <1>5, FrameAssumption DEF Kernel
<1>8. latest' \subseteq Memory
  BY <1>3, <1>6 DEF Memory
<1>9. \A f \in latest \cup allocated : f \in Nat /\ f < next_free_frame
  BY DEF AllocatorIInv, AllocatorTypeOK
<1>10. \A f \in latest' : f \in Nat /\ f >= next_free_frame /\ f < next_free_frame'
  BY <1>1, <1>4, <1>5
<1>11. AllocatorTypeOK'
  BY <1>1, <1>4, <1>5, <1>6 DEF AllocatorIInv, AllocatorTypeOK
<1>12. NoFrameTwice'
  BY <1>1, <1>5, <1>9, <1>10 DEF NoFrameTwice
<1>13. InFreeMemory'
  BY <1>5, <1>7, <1>8 DEF AllocatorIInv, InFreeMemory, Memory, Kernel
<1>14. \A f \in latest' \cup allocated' : f < next_free_frame'
  <2>1. next_free_frame <= next_free_frame'
    BY <1>1, <1>3, <1>4, <1>5 DEF end_frame
  <2> QED
    BY <1>1, <1>4, <1>5, <1>9, <1>10, <2>1
<1>15. current_area' # NoArea => current_area'.first <= next_free_frame'
  BY <1>1, <1>2, <1>3, <1>4, <1>5 DEF end_frame
<1> QED
  BY <1>11, <1>12, <1>13, <1>14, <1>15 DEF AllocatorIInv

(* A step that returns no frame keeps the invariant if next_free_frame     *)
(* does not go back and stays in or after the area.                        *)
LEMMA NoFrameTaken ==
    ASSUME AllocatorIInv,
           latest' = latest, allocated' = allocated,
           trying' \in Counts \cup {0}, depth' \in 0 .. MaxDepth,
           next_free_frame' \in Nat, next_free_frame' >= next_free_frame,
           current_area' \in Areas \cup {NoArea},
           current_area' # NoArea => current_area'.first <= next_free_frame'
    PROVE  AllocatorIInv'
<1>1. \A f \in latest' \cup allocated' : f < next_free_frame'
  BY DEF AllocatorIInv, AllocatorTypeOK
<1>2. AllocatorTypeOK' /\ NoFrameTwice' /\ InFreeMemory'
  BY DEF AllocatorIInv, AllocatorTypeOK, NoFrameTwice, InFreeMemory, Memory, Kernel
<1> QED
  BY <1>1, <1>2 DEF AllocatorIInv

LEMMA AllocatorSteps ==
    ASSUME AllocatorIInv, [AllocatorNext]_allocatorVars
    PROVE  AllocatorIInv'
<1>1. ASSUME NEW count \in Counts, allocate_frames(count) PROVE AllocatorIInv'
  BY <1>1, NoFrameTaken, FrameAssumption DEF allocate_frames, AllocatorIInv, AllocatorTypeOK
<1>2. CASE no_area
  BY <1>2, NoFrameTaken DEF no_area, AllocatorIInv, AllocatorTypeOK
<1>3. CASE switch_area
  <2>1. depth' \in 0 .. MaxDepth
    BY <1>3, FrameAssumption DEF switch_area, again, AllocatorIInv, AllocatorTypeOK
  <2>2. choose_next_area(next_free_frame)
        /\ trying' = trying /\ latest' = latest /\ allocated' = allocated
    BY <1>3 DEF switch_area
  <2>3. trying' \in Counts \cup {0}
    BY <2>2 DEF AllocatorIInv, AllocatorTypeOK
  <2> QED
    BY <2>1, <2>2, <2>3, ChoiceKeeps, NoFrameTaken
<1>4. CASE skip_kernel
  <2>1. depth' \in 0 .. MaxDepth
    BY <1>4, FrameAssumption DEF skip_kernel, again, AllocatorIInv, AllocatorTypeOK
  <2>2. /\ current_area \in Areas /\ current_area' = current_area
        /\ trying \in Nat \ {0} /\ trying' = trying
        /\ latest' = latest /\ allocated' = allocated
        /\ next_free_frame \in Nat /\ next_free_frame' = KernelEnd + 1
        /\ current_area.first \in Nat /\ current_area.first <= next_free_frame
    BY <1>4, FrameAssumption DEF skip_kernel, AllocatorIInv, AllocatorTypeOK
  <2>3. next_free_frame <= KernelEnd
    BY <1>4, <2>2, FrameAssumption DEF skip_kernel, in_kernel, end_frame
  <2>4. /\ next_free_frame' \in Nat /\ next_free_frame' >= next_free_frame
        /\ current_area'.first <= next_free_frame'
    BY <2>2, <2>3, FrameAssumption
  <2>5. trying' \in Counts \cup {0} /\ current_area' \in Areas \cup {NoArea}
    BY <2>2 DEF AllocatorIInv, AllocatorTypeOK
  <2> QED
    BY <2>1, <2>2, <2>4, <2>5, NoFrameTaken
<1>5. CASE take
  BY <1>5, TakeFresh
<1>6. CASE UNCHANGED allocatorVars
  BY <1>6, NoFrameTaken DEF allocatorVars, AllocatorIInv, AllocatorTypeOK
<1> QED
  BY <1>1, <1>2, <1>3, <1>4, <1>5, <1>6 DEF AllocatorNext

LEMMA AllocatorStarts ==
    ASSUME AllocatorInit
    PROVE  AllocatorIInv
<1>1. /\ next_free_frame \in Nat
      /\ current_area \in Areas \cup {NoArea}
      /\ current_area # NoArea => current_area.first <= next_free_frame
  BY FrameAssumption DEF AllocatorInit
<1> QED
  BY <1>1, FrameAssumption DEF AllocatorInit, AllocatorIInv, AllocatorTypeOK, NoFrameTwice, InFreeMemory

(* The invariant of the allocator: what was returned lies below            *)
(* next_free_frame, and that is not before the area in use.                *)
THEOREM AllocatorInvariant == AllocatorSpec => []AllocatorIInv
<1> QED
  BY AllocatorStarts, AllocatorSteps, PTL DEF AllocatorSpec

(* allocate_frames never returns a frame a second time.                    *)
THEOREM FramesReturnedOnce == AllocatorSpec => []NoFrameTwice
<1>1. AllocatorIInv => NoFrameTwice
  BY DEF AllocatorIInv
<1> QED
  BY <1>1, AllocatorInvariant, PTL

(* Every frame allocate_frames returns is free memory and not the kernel.  *)
THEOREM FramesInFreeMemory == AllocatorSpec => []InFreeMemory
<1>1. AllocatorIInv => InFreeMemory
  BY DEF AllocatorIInv
<1> QED
  BY <1>1, AllocatorInvariant, PTL

-----------------------------------------------------------------------------
(* No frame is lost: what next_free_frame passes was handed out, is the    *)
(* kernel's, or lies in no free area.                                      *)

(* Every frame of the memory map is a number, and in one of the areas.     *)
LEMMA MemoryFrames ==
    /\ Memory \subseteq Nat
    /\ \A f \in Memory : \E a \in Areas :
          a.first \in Nat /\ a.last \in Nat /\ a.first <= f /\ f <= a.last
<1>1. ASSUME NEW f \in Memory
      PROVE  /\ f \in Nat
             /\ \E a \in Areas : a.first \in Nat /\ a.last \in Nat /\ a.first <= f /\ f <= a.last
  <2>1. PICK a \in Areas : f \in a.first .. a.last
    BY DEF Memory
  <2>2. a.first \in Nat /\ a.last \in Nat
    BY FrameAssumption
  <2> QED
    BY <2>1, <2>2
<1> QED
  BY <1>1

(* The frames before the area that choose_next_area picks are in no area   *)
(* that remains, and when it picks none, no frame is left.                 *)
LEMMA ChoiceSkipsNothing ==
    ASSUME AllocatorIInv, NoFrameLost, choose_next_area(next_free_frame),
           latest' = latest, allocated' = allocated
    PROVE  NoFrameLost'
<1>0. next_free_frame \in Nat
  BY DEF AllocatorIInv, AllocatorTypeOK
<1>1. ASSUME NEW f \in Memory, f >= next_free_frame
      PROVE  \E b \in remaining(next_free_frame) : b.first \in Nat /\ b.first <= f
  BY <1>0, <1>1, MemoryFrames DEF remaining
<1>2. CASE remaining(next_free_frame) = {} /\ next_free_frame' = next_free_frame
  <2>1. Free = {} /\ Free' = {}
    BY <1>1, <1>2 DEF Free, Memory, Kernel
  <2> QED
    BY <2>1 DEF NoFrameLost, Memory, Kernel
<1>3. ASSUME NEW a \in remaining(next_free_frame),
             \A b \in remaining(next_free_frame) : a.first <= b.first,
             current_area' = a,
             next_free_frame' = IF next_free_frame < a.first THEN a.first ELSE next_free_frame
      PROVE  NoFrameLost'
  <2>1. a \in Areas /\ a.first \in Nat
    BY FrameAssumption DEF remaining
  <2>2. ASSUME NEW f \in Free  PROVE f \in Free'
    <3>1. f \in Memory /\ f \notin Kernel /\ f >= next_free_frame /\ f \in Nat
      BY MemoryFrames DEF Free
    <3>2. f >= a.first
      BY <1>1, <1>3, <2>1, <3>1
    <3>3. f >= next_free_frame'
      BY <1>3, <3>1, <3>2
    <3> QED
      BY <3>1, <3>3 DEF Free, Memory, Kernel
  <2>3. current_area' # NoArea
    BY <1>3, <2>1, FrameAssumption
  <2> QED
    BY <2>2, <2>3 DEF NoFrameLost, Memory, Kernel
<1> QED
  BY <1>2, <1>3 DEF choose_next_area

LEMMA NextLosesNothing ==
    ASSUME AllocatorIInv, NoFrameLost, [AllocatorNext]_allocatorVars
    PROVE  NoFrameLost'
<1>0. next_free_frame \in Nat
  BY DEF AllocatorIInv, AllocatorTypeOK
<1>1. CASE UNCHANGED <<next_free_frame, current_area, latest, allocated>>
  BY <1>1 DEF NoFrameLost, Free, Memory, Kernel
<1>2. CASE switch_area
  BY <1>2, ChoiceSkipsNothing DEF switch_area
<1>3. CASE skip_kernel
  <2>1. /\ next_free_frame' = KernelEnd + 1 /\ KernelEnd \in Nat
        /\ current_area' # NoArea /\ latest' = latest /\ allocated' = allocated
    BY <1>3, FrameAssumption DEF skip_kernel
  <2>2. ASSUME NEW f \in Free  PROVE f \in Free'
    <3>1. f \in Memory /\ f \in Nat /\ f \notin 0 .. KernelEnd
      BY MemoryFrames DEF Free, Kernel
    <3>2. f >= next_free_frame'
      BY <2>1, <3>1
    <3> QED
      BY <3>1, <3>2 DEF Free, Memory, Kernel
  <2> QED
    BY <2>1, <2>2 DEF NoFrameLost, Memory, Kernel
<1>4. CASE take
  <2>1. /\ trying \in Nat \ {0} /\ current_area' # NoArea
        /\ next_free_frame' = next_free_frame + trying
        /\ latest' = next_free_frame .. next_free_frame + (trying - 1)
        /\ allocated' = allocated \cup latest
    BY <1>4, FrameAssumption DEF take, after, end_frame, AllocatorIInv, AllocatorTypeOK
  <2>2. ASSUME NEW f \in Free  PROVE f \in Free' \cup latest'
    <3>1. f \in Memory /\ f \in Nat /\ f \notin Kernel /\ f >= next_free_frame
      BY MemoryFrames DEF Free
    <3>2. f >= next_free_frame' \/ f \in latest'
      BY <1>0, <2>1, <3>1
    <3> QED
      BY <3>1, <3>2 DEF Free, Memory, Kernel
  <2> QED
    BY <2>1, <2>2 DEF NoFrameLost, Memory, Kernel
<1> QED
  BY <1>1, <1>2, <1>3, <1>4 DEF AllocatorNext, allocatorVars, allocate_frames, no_area

(* AreaFrameAllocator::new starts at the lowest frame of the memory map.   *)
LEMMA InitLosesNothing ==
    ASSUME AllocatorInit
    PROVE  NoFrameLost
<1>1. ASSUME NEW f \in Memory  PROVE f >= next_free_frame /\ Areas # {}
  <2>1. PICK b \in Areas : b.first \in Nat /\ b.first <= f
    BY MemoryFrames
  <2>2. PICK a \in Areas : next_free_frame = a.first /\ a.first <= b.first
    BY <2>1 DEF AllocatorInit
  <2>3. a.first \in Nat /\ f \in Nat
    BY FrameAssumption, MemoryFrames
  <2> QED
    BY <2>1, <2>2, <2>3
<1>2. current_area = NoArea => Areas = {}
  BY FrameAssumption DEF AllocatorInit
<1> QED
  BY <1>1, <1>2 DEF NoFrameLost, Free

(* Every frame of the free memory was handed out or is counted as free,    *)
(* and allocate_frames runs out of areas only when no frame is free.       *)
THEOREM FramesNotLost == AllocatorSpec => []NoFrameLost
<1>1. AllocatorIInv /\ NoFrameLost /\ [AllocatorNext]_allocatorVars => NoFrameLost'
  BY NextLosesNothing
<1> QED
  BY <1>1, InitLosesNothing, AllocatorInvariant, PTL DEF AllocatorSpec
=============================================================================
