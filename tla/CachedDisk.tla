----------------------------- MODULE CachedDisk -----------------------------
(***************************************************************************)
(* The write-through block cache of the file: daemon                       *)
(* (schemes/redoxfs/scheme/cache/mod.rs): Cache<T> over an inner disk.     *)
(* The LRU cache it keeps is the list OrderedMap promises, which           *)
(* LinkedHashMap is shown to implement.                                    *)
(***************************************************************************)
EXTENDS Integers, FiniteSets, SequenceTheorems, WellFoundedInduction, TLAPS

CONSTANTS Block,       \* block numbers
          Value,       \* contents of a block
          Capacity,    \* LruCache.max_size (65536 in the code)
          MaxLen       \* blocks of the longest call

ASSUME CacheAssumption ==
    /\ Block \subseteq Nat /\ \A x, z \in Block : x .. z \subseteq Block
    /\ Capacity \in Nat /\ MaxLen \in Nat

VARIABLES inner,       \* the disk below
          list,        \* LruCache: pairs of block and contents, the least
                       \* recently used first
          reply        \* what the last call returned

vars == <<inner, list, reply>>

(***************************************************************************)
(* LruCache                                                                *)
(***************************************************************************)
cached(l) == {l[i][1] : i \in DOMAIN l}
place(l, k) == CHOOSE i \in DOMAIN l : l[i][1] = k
value(l, k) == l[place(l, k)][2]

(* A key has one place in the list.                                        *)
without(l, k) ==
    IF k \in cached(l)
    THEN [i \in 1 .. Len(l) - 1 |-> IF i < place(l, k) THEN l[i] ELSE l[i + 1]]
    ELSE l

get_mut(l, k) == Append(without(l, k), <<k, value(l, k)>>)

insert(l, k, v) ==
    LET new == Append(without(l, k), <<k, v>>)
    IN  IF Len(new) > Capacity THEN Tail(new) ELSE new

(***************************************************************************)
(* Cache<T>                                                                *)
(***************************************************************************)
Reply(code, data) == [code |-> code, data |-> data]

(* Bug: only the first block of a buffer enters the cache.                 *)
inserted_first(c, b, buf) == insert(c, b, buf[1])

(* The blocks b, b + 1, ... of a buffer enter the cache one by one.        *)
inserting(c, b, buf) ==
    LET upto[i \in 0 .. Len(buf)] ==
            IF i = 0 THEN c ELSE insert(upto[i - 1], b + i - 1, buf[i])
    IN  upto

inserted(c, b, buf) == inserting(c, b, buf)[Len(buf)]

(* get_mut on a block of the call, unless one before it was missing.       *)
refresh(u, x) ==
    IF u.hit /\ x \in cached(u.c) THEN [c |-> get_mut(u.c, x), hit |-> TRUE]
    ELSE [c |-> u.c, hit |-> FALSE]

refreshing(c, b, n) ==
    LET upto[i \in 0 .. n] ==
            IF i = 0 THEN [c |-> c, hit |-> TRUE] ELSE refresh(upto[i - 1], b + i - 1)
    IN  upto

refreshed(c, b, n) == refreshing(c, b, n)[n]

(* read_at: all from the cache, or all from the inner disk, which may fail. *)
read_at(b, n) ==
    LET r   == refreshed(list, b, n)
        buf == [i \in 1 .. n |-> inner[b + i - 1]]
    IN  /\ \/ r.hit /\ list' = r.c /\ reply' = Reply("ok", [i \in 1 .. n |-> value(list, b + i - 1)])
           \/ ~r.hit /\ list' = inserted(r.c, b, buf) /\ reply' = Reply("ok", buf)
           \/ ~r.hit /\ list' = r.c /\ reply' = Reply("EIO", <<>>)
        /\ UNCHANGED inner

(* write_at: the inner disk first; when it fails, it has written a first   *)
(* part of the buffer and the cache keeps what it had.                     *)
write_at(b, buf) ==
    LET on(x, n) == b <= x /\ x < b + n
        stored(n) == [x \in Block |-> IF on(x, n) THEN buf[x - b + 1] ELSE inner[x]]
    IN  \/ /\ inner' = stored(Len(buf))
           /\ list' = inserted(list, b, buf)
           /\ reply' = Reply("ok", <<>>)
        \/ \E n \in 0 .. Len(buf) :
           /\ inner' = stored(n)
           /\ UNCHANGED list
           /\ reply' = Reply("EIO", <<>>)

(* Cache::new, at the start of the daemon and when it starts again.        *)
restart ==
    /\ list' = <<>>
    /\ reply' = Reply("none", <<>>)
    /\ UNCHANGED inner

Init ==
    /\ inner \in [Block -> Value]
    /\ list = <<>>
    /\ reply = Reply("none", <<>>)

Ranges == {r \in Block \X (1 .. MaxLen) : r[1] + r[2] - 1 \in Block}

Next ==
    \/ \E r \in Ranges : read_at(r[1], r[2])
    \/ \E r \in Ranges : \E buf \in [1 .. r[2] -> Value] : write_at(r[1], buf)
    \/ restart

Spec == Init /\ [][Next]_vars

(***************************************************************************)
(* Properties                                                              *)
(***************************************************************************)
TypeOK ==
    /\ inner \in [Block -> Value]
    /\ list \in Seq(Block \X Value) /\ Len(list) <= Capacity

(* The cached disk is a disk: a block reads as it was last written,        *)
(* whatever was cached, evicted, partly written or lost in a restart in    *)
(* between (Cache::read_at, Cache::write_at).                              *)
seen(d, l) == [b \in Block |-> {d[b]} \cup {value(l, x) : x \in cached(l) \cap {b}}]

D == INSTANCE Disk WITH mem <- seen(inner, list), reply <- reply

DiskSpec == D!Spec
-----------------------------------------------------------------------------
(* Why the cached disk is a disk.  The list holds a block at most once.    *)
Unique(l) == \A i, j \in DOMAIN l : l[i][1] = l[j][1] => i = j

Lru(l) == l \in Seq(Block \X Value) /\ Len(l) <= Capacity /\ Unique(l)

(* The list l has the contents v for the block x.                          *)
Holds(l, x, v) == \E i \in DOMAIN l : l[i] = <<x, v>>

IInv == inner \in [Block -> Value] /\ Lru(list)

(* Induction over the naturals, for a set of them.                         *)
LEMMA SetInduction ==
    ASSUME NEW S, 0 \in S, \A n \in Nat : n \in S => n + 1 \in S
    PROVE  Nat \subseteq S
<1> DEFINE R == OpToRel(<, Nat)
           T == Nat \ S
<1>1. IsWellFoundedOn(R, Nat)
  BY NatLessThanWellFounded
<1>2. \A x, y \in Nat : y < x => <<y, x>> \in R
  BY DEF OpToRel
<1> HIDE DEF R
<1> SUFFICES ASSUME T # {}
             PROVE  FALSE
  OBVIOUS
<1>3. PICK m \in T : \A k \in T : ~ (<<k, m>> \in R)
  BY <1>1, WFMin
<1>4. m - 1 \in Nat /\ m - 1 < m /\ (m - 1) + 1 = m
  BY 0 \in S
<1>5. m - 1 \in S
  BY <1>2, <1>3, <1>4
<1> QED  BY <1>4, <1>5

(* What value() returns is the contents of the block in the list.          *)
LEMMA ValueHeld ==
    ASSUME NEW l, Lru(l), NEW x, x \in cached(l)
    PROVE  /\ Holds(l, x, value(l, x)) /\ value(l, x) \in Value
           /\ \A v : Holds(l, x, v) => v = value(l, x)
<1>1. place(l, x) \in DOMAIN l /\ l[place(l, x)][1] = x
  BY DEF cached, place
<1>2. \A i \in DOMAIN l : l[i] \in Block \X Value
  BY LenProperties DEF Lru
<1>3. l[place(l, x)] = <<x, value(l, x)>> /\ value(l, x) \in Value
  BY <1>1, <1>2 DEF value
<1>4. \A v : Holds(l, x, v) => v = value(l, x)
  <2> SUFFICES ASSUME NEW v, NEW i \in DOMAIN l, l[i] = <<x, v>>
               PROVE  v = value(l, x)
    BY DEF Holds
  <2>1. i = place(l, x)
    BY <1>1 DEF Lru, Unique
  <2> QED  BY <1>3, <2>1
<1> QED  BY <1>1, <1>3, <1>4 DEF Holds

LEMMA HeldIsCached ==
    ASSUME NEW l, NEW x, NEW v, Holds(l, x, v)
    PROVE  x \in cached(l)
  BY DEF Holds, cached

(* The list without the key k holds what it held for the others.           *)
LEMMA WithoutHolds ==
    ASSUME NEW l, Lru(l), NEW k
    PROVE  LET w == without(l, k)
           IN  /\ w \in Seq(Block \X Value) /\ Unique(w)
               /\ Len(w) = IF k \in cached(l) THEN Len(l) - 1 ELSE Len(l)
               /\ k \notin cached(w)
               /\ \A x, v : Holds(w, x, v) => x # k /\ Holds(l, x, v)
               /\ \A x, v : x # k /\ Holds(l, x, v) => Holds(w, x, v)
<1> DEFINE w == without(l, k)
<1>1. /\ l \in Seq(Block \X Value) /\ Len(l) \in Nat /\ DOMAIN l = 1 .. Len(l)
      /\ \A i \in 1 .. Len(l) : l[i] \in Block \X Value
  BY LenProperties DEF Lru
<1>2. CASE k \notin cached(l)
  <2>1. w = l
    BY <1>2 DEF without
  <2> HIDE DEF w
  <2>2. \A x, v : Holds(w, x, v) => x # k /\ Holds(l, x, v)
    BY <1>2, <2>1, HeldIsCached
  <2>3. k \notin cached(w)
    BY <1>2, <2>1
  <2> QED  BY <1>1, <1>2, <2>1, <2>2, <2>3 DEF Lru, w
<1>3. CASE k \in cached(l)
  <2> DEFINE p == place(l, k)
             n == Len(l) - 1
             at(i) == IF i < p THEN i ELSE i + 1
  <2>1. p \in 1 .. Len(l) /\ l[p][1] = k /\ n \in Nat
    <3>1. p \in DOMAIN l /\ l[p][1] = k
      BY <1>3 DEF cached, place
    <3> QED  BY <1>1, <3>1
  <2>2. w = [i \in 1 .. n |-> IF i < p THEN l[i] ELSE l[i + 1]]
    BY <1>3 DEF without
  <2> HIDE DEF w, p
  <2>3. \A i \in 1 .. n : at(i) \in 1 .. Len(l) /\ at(i) # p /\ w[i] = l[at(i)]
    BY <1>1, <2>1, <2>2
  <2>4. w \in [1 .. n -> Block \X Value] /\ DOMAIN w = 1 .. n
    BY <1>1, <2>2, <2>3
  <2>5. w \in Seq(Block \X Value) /\ Len(w) = n
    BY <2>1, <2>4
  <2>6. \A i, j \in 1 .. n : at(i) = at(j) => i = j
    BY <2>1
  <2>7. \A j \in 1 .. Len(l) : j # p => \E i \in 1 .. n : at(i) = j
    <3> SUFFICES ASSUME NEW j \in 1 .. Len(l), j # p
                 PROVE  \E i \in 1 .. n : at(i) = j
      OBVIOUS
    <3>1. CASE j < p
      BY <1>1, <2>1, <3>1, at(j) = j, j \in 1 .. n
    <3>2. CASE j > p
      BY <1>1, <2>1, <3>2, at(j - 1) = j, j - 1 \in 1 .. n
    <3> QED  BY <1>1, <2>1, <3>1, <3>2
  <2> HIDE DEF at
  <2>8. \A i, j \in 1 .. Len(l) : l[i][1] = l[j][1] => i = j
    BY <1>1 DEF Lru, Unique
  <2>9. Unique(w)
    BY <2>3, <2>4, <2>6, <2>8 DEF Unique
  <2>10. \A i \in 1 .. n : w[i][1] # k
    BY <2>1, <2>3, <2>8
  <2>11. k \notin cached(w)
    BY <2>4, <2>10 DEF cached
  <2>12. \A x, v : Holds(w, x, v) => x # k /\ Holds(l, x, v)
    <3> SUFFICES ASSUME NEW x, NEW v, NEW i \in 1 .. n, w[i] = <<x, v>>
                 PROVE  x # k /\ Holds(l, x, v)
      BY <2>4 DEF Holds
    <3>1. x # k
      BY <2>10
    <3> QED  BY <1>1, <2>3, <3>1 DEF Holds
  <2>13. \A x, v : x # k /\ Holds(l, x, v) => Holds(w, x, v)
    <3> SUFFICES ASSUME NEW x, NEW v, x # k, NEW j \in 1 .. Len(l), l[j] = <<x, v>>
                 PROVE  Holds(w, x, v)
      BY <1>1 DEF Holds
    <3>1. j # p
      BY <2>1
    <3>2. PICK i \in 1 .. n : at(i) = j
      BY <2>7, <3>1
    <3> QED  BY <2>3, <2>4, <3>2 DEF Holds
  <2> QED  BY <1>3, <2>5, <2>9, <2>11, <2>12, <2>13 DEF w
<1> QED  BY <1>2, <1>3

(* A block the list does not have enters at its end.                       *)
LEMMA AppendHolds ==
    ASSUME NEW l \in Seq(Block \X Value), Unique(l), NEW k \in Block, NEW v \in Value,
           k \notin cached(l)
    PROVE  LET a == Append(l, <<k, v>>)
           IN  /\ a \in Seq(Block \X Value) /\ Unique(a) /\ Len(a) = Len(l) + 1
               /\ \A x, u : Holds(a, x, u) <=> Holds(l, x, u) \/ (x = k /\ u = v)
<1> DEFINE a == Append(l, <<k, v>>)
           n == Len(l)
<1>1. n \in Nat /\ DOMAIN l = 1 .. n
  BY LenProperties
<1>2. /\ a \in Seq(Block \X Value) /\ Len(a) = n + 1
      /\ \A i \in 1 .. n : a[i] = l[i]
      /\ a[n + 1] = <<k, v>>
  BY AppendProperties
<1>3. DOMAIN a = 1 .. n + 1
  BY <1>2, LenProperties
<1> HIDE DEF a, n
<1>4. \A i \in 1 .. n : l[i][1] # k
  BY <1>1 DEF cached
<1>5. \A i \in 1 .. n + 1 : i \in 1 .. n \/ i = n + 1
  BY <1>1
<1>6. Unique(a)
  BY <1>1, <1>2, <1>3, <1>4, <1>5 DEF Unique
<1>7. \A i \in 1 .. n : i \in 1 .. n + 1
  BY <1>1
<1>8. n + 1 \in 1 .. n + 1
  BY <1>1
<1>9. \A x, u : Holds(a, x, u) <=> Holds(l, x, u) \/ (x = k /\ u = v)
  <2>1. ASSUME NEW x, NEW u, Holds(a, x, u)  PROVE Holds(l, x, u) \/ (x = k /\ u = v)
    <3>1. PICK i \in 1 .. n + 1 : a[i] = <<x, u>>
      BY <2>1, <1>3 DEF Holds
    <3>2. CASE i = n + 1
      BY <1>2, <3>1, <3>2
    <3>3. CASE i \in 1 .. n
      <4>1. l[i] = <<x, u>> /\ i \in DOMAIN l
        BY <1>1, <1>2, <3>1, <3>3
      <4> QED  BY <4>1 DEF Holds
    <3> QED  BY <1>5, <3>2, <3>3
  <2>2. ASSUME NEW x, NEW u, Holds(l, x, u)  PROVE Holds(a, x, u)
    <3>1. PICK i \in 1 .. n : l[i] = <<x, u>>
      BY <2>2, <1>1 DEF Holds
    <3> QED  BY <1>2, <1>3, <1>7, <3>1 DEF Holds
  <2>3. Holds(a, k, v)
    BY <1>2, <1>3, <1>8 DEF Holds
  <2> QED  BY <2>1, <2>2, <2>3
<1> QED  BY <1>2, <1>6, <1>9 DEF a, n

(* LruCache::get_mut moves a block to the end and changes no contents.     *)
LEMMA GetMutHolds ==
    ASSUME NEW l, Lru(l), NEW k \in Block, k \in cached(l)
    PROVE  LET g == get_mut(l, k)
           IN  Lru(g) /\ \A x, v : Holds(g, x, v) <=> Holds(l, x, v)
<1> DEFINE w == without(l, k)
           u == value(l, k)
<1>1. u \in Value /\ Holds(l, k, u) /\ \A v : Holds(l, k, v) => v = u
  BY ValueHeld
<1>2. /\ w \in Seq(Block \X Value) /\ Unique(w) /\ Len(w) = Len(l) - 1 /\ k \notin cached(w)
      /\ \A x, v : Holds(w, x, v) => x # k /\ Holds(l, x, v)
      /\ \A x, v : x # k /\ Holds(l, x, v) => Holds(w, x, v)
  BY WithoutHolds
<1>3. get_mut(l, k) = Append(w, <<k, u>>)
  BY DEF get_mut
<1> HIDE DEF w, u
<1> DEFINE g == Append(w, <<k, u>>)
<1>4. /\ g \in Seq(Block \X Value) /\ Unique(g) /\ Len(g) = Len(w) + 1
      /\ \A x, v : Holds(g, x, v) <=> Holds(w, x, v) \/ (x = k /\ v = u)
  BY <1>1, <1>2, AppendHolds
<1> HIDE DEF g
<1>5. Len(l) \in Nat /\ Len(l) <= Capacity
  BY LenProperties DEF Lru
<1>6. Len(g) = Len(l)
  BY <1>2, <1>4, <1>5
<1>7. Lru(g)
  BY <1>4, <1>5, <1>6 DEF Lru
<1>8. \A x, v : Holds(g, x, v) <=> Holds(l, x, v)
  BY <1>1, <1>2, <1>4
<1> QED  BY <1>3, <1>7, <1>8 DEF g

(* LruCache::insert: afterwards the list has v for k if it has k at all,   *)
(* and for the other blocks only what it had before.                       *)
LEMMA InsertHolds ==
    ASSUME NEW l, Lru(l), NEW k \in Block, NEW v \in Value
    PROVE  LET m == insert(l, k, v)
           IN  /\ Lru(m)
               /\ \A x, u : Holds(m, x, u) => (x = k /\ u = v) \/ (x # k /\ Holds(l, x, u))
<1> DEFINE w == without(l, k)
<1>1. /\ w \in Seq(Block \X Value) /\ Unique(w) /\ k \notin cached(w)
      /\ Len(w) = Len(l) - 1 \/ Len(w) = Len(l)
      /\ \A x, u : Holds(w, x, u) => x # k /\ Holds(l, x, u)
  BY WithoutHolds
<1> HIDE DEF w
<1> DEFINE a == Append(w, <<k, v>>)
<1>2. /\ a \in Seq(Block \X Value) /\ Unique(a) /\ Len(a) = Len(w) + 1
      /\ \A x, u : Holds(a, x, u) <=> Holds(w, x, u) \/ (x = k /\ u = v)
  BY <1>1, AppendHolds
<1>3. insert(l, k, v) = IF Len(a) > Capacity THEN Tail(a) ELSE a
  BY DEF insert, w
<1> HIDE DEF a
<1>4. Len(l) \in Nat /\ Len(l) <= Capacity /\ Len(w) \in Nat /\ Capacity \in Nat
  BY <1>1, LenProperties, CacheAssumption DEF Lru
<1>5. CASE Len(a) > Capacity
  <2> DEFINE t == Tail(a)
  <2>1. a # <<>>
    BY <1>2, <1>4
  <2>2. /\ t \in Seq(Block \X Value) /\ Len(t) = Len(a) - 1
        /\ \A i \in 1 .. Len(t) : t[i] = a[i + 1]
    BY <1>2, <2>1, HeadTailProperties
  <2> HIDE DEF t
  <2>3. Len(t) <= Capacity
    BY <1>1, <1>2, <1>4, <2>2
  <2>4. DOMAIN t = 1 .. Len(t) /\ DOMAIN a = 1 .. Len(a) /\ Len(a) \in Nat
    BY <1>2, <2>2, LenProperties
  <2>5. \A i \in 1 .. Len(t) : i + 1 \in 1 .. Len(a)
    BY <2>2, <2>4
  <2>6. Unique(t)
    <3> SUFFICES ASSUME NEW i \in 1 .. Len(t), NEW j \in 1 .. Len(t), t[i][1] = t[j][1]
                 PROVE  i = j
      BY <2>4 DEF Unique
    <3>1. a[i + 1][1] = a[j + 1][1]
      BY <2>2
    <3>2. i + 1 \in DOMAIN a /\ j + 1 \in DOMAIN a
      BY <2>4, <2>5
    <3>3. \A p, q \in DOMAIN a : a[p][1] = a[q][1] => p = q
      BY <1>2 DEF Unique
    <3>4. i + 1 = j + 1
      BY <3>1, <3>2, <3>3
    <3> QED  BY <3>4
  <2>7. \A x, u : Holds(t, x, u) => Holds(a, x, u)
    <3> SUFFICES ASSUME NEW x, NEW u, NEW i \in 1 .. Len(t), t[i] = <<x, u>>
                 PROVE  Holds(a, x, u)
      BY <2>4 DEF Holds
    <3> QED  BY <2>2, <2>4, <2>5 DEF Holds
  <2>8. insert(l, k, v) = t
    BY <1>3, <1>5 DEF t
  <2>9. Lru(t)
    BY <2>2, <2>3, <2>6 DEF Lru
  <2> QED  BY <1>1, <1>2, <2>7, <2>8, <2>9
<1>6. CASE ~(Len(a) > Capacity)
  <2>1. insert(l, k, v) = a
    BY <1>3, <1>6
  <2>2. Lru(a)
    BY <1>2, <1>4, <1>6 DEF Lru
  <2> QED  BY <1>1, <1>2, <2>1, <2>2
<1> QED  BY <1>5, <1>6

-----------------------------------------------------------------------------
(* The loop that fills the cache, step by step.                            *)
LEMMA InsertingSteps ==
    ASSUME NEW c, NEW b, NEW buf, Len(buf) \in Nat
    PROVE  LET f == inserting(c, b, buf)
           IN  /\ f[0] = c
               /\ \A i \in 1 .. Len(buf) : f[i] = insert(f[i - 1], b + i - 1, buf[i])
<1> DEFINE G(f, n) == [i \in 0 .. n |-> IF i = 0 THEN c ELSE insert(f[i - 1], b + i - 1, buf[i])]
           S == {n \in Nat : \E f : f = G(f, n)}
<1>1. 0 \in S
  <2> DEFINE g == [i \in 0 .. 0 |-> c]
  <2>1. g = G(g, 0)
    OBVIOUS
  <2> QED  BY <2>1
<1>2. \A n \in Nat : n \in S => n + 1 \in S
  <2> SUFFICES ASSUME NEW n \in Nat, n \in S
               PROVE  n + 1 \in S
    OBVIOUS
  <2>1. PICK g : g = G(g, n)
    OBVIOUS
  <2> DEFINE h == [i \in 0 .. n + 1 |-> IF i = n + 1 THEN insert(g[n], b + n, buf[n + 1]) ELSE g[i]]
  <2>2. \A i \in 0 .. n + 1 : h[i] = IF i = 0 THEN c ELSE insert(h[i - 1], b + i - 1, buf[i])
    <3> SUFFICES ASSUME NEW i \in 0 .. n + 1
                 PROVE  h[i] = IF i = 0 THEN c ELSE insert(h[i - 1], b + i - 1, buf[i])
      OBVIOUS
    <3>1. CASE i = n + 1
      <4>1. i # 0 /\ i - 1 = n /\ h[i - 1] = g[n]
        BY <3>1
      <4>2. h[i] = insert(g[n], b + n, buf[n + 1])
        BY <3>1
      <4> QED  BY <3>1, <4>1, <4>2
    <3>2. CASE i # n + 1
      <4>1. i \in 0 .. n /\ h[i] = g[i]
        BY <3>2
      <4>2. g[i] = IF i = 0 THEN c ELSE insert(g[i - 1], b + i - 1, buf[i])
        BY <2>1, <4>1
      <4>3. i # 0 => i - 1 \in 0 .. n + 1 /\ i - 1 # n + 1 /\ h[i - 1] = g[i - 1]
        BY <4>1
      <4> QED  BY <4>1, <4>2, <4>3
    <3> QED  BY <3>1, <3>2
  <2>3. h = G(h, n + 1)
    BY <2>2
  <2>4. \E f : f = G(f, n + 1)
    BY <2>3
  <2>5. n + 1 \in Nat
    OBVIOUS
  <2> QED  BY ONLY <2>4, <2>5
<1>3. \E f : f = G(f, Len(buf))
  <2>1. Nat \subseteq S
    BY <1>1, <1>2, SetInduction
  <2> QED  BY <2>1
<1>4. inserting(c, b, buf) = CHOOSE f : f = G(f, Len(buf))
  BY DEF inserting
<1>5. inserting(c, b, buf) = G(inserting(c, b, buf), Len(buf))
  BY <1>3, <1>4
<1> QED  BY <1>5

(* After the loop the cache has the buffer for what it has of the blocks   *)
(* of the call, and for the others only what it had before.                *)
LEMMA InsertedHolds ==
    ASSUME NEW c, Lru(c), NEW b \in Nat, NEW n \in Nat, NEW buf \in [1 .. n -> Value],
           b .. b + n - 1 \subseteq Block
    PROVE  LET r == inserted(c, b, buf)
           IN  /\ Lru(r)
               /\ \A x, u : Holds(r, x, u) =>
                     \/ x \in b .. b + n - 1 /\ u = buf[x - b + 1]
                     \/ x \notin b .. b + n - 1 /\ Holds(c, x, u)
<1> DEFINE f == inserting(c, b, buf)
           P(i) == /\ Lru(f[i])
                   /\ \A x, u : Holds(f[i], x, u) =>
                         \/ x \in b .. b + i - 1 /\ u = buf[x - b + 1]
                         \/ x \notin b .. b + i - 1 /\ Holds(c, x, u)
           S == {i \in Nat : i <= n => P(i)}
<1>1. Len(buf) = n
  OBVIOUS
<1>2. f[0] = c /\ \A i \in 1 .. n : f[i] = insert(f[i - 1], b + i - 1, buf[i])
  <2>1. Len(buf) \in Nat
    BY <1>1
  <2>2. /\ inserting(c, b, buf)[0] = c
        /\ \A i \in 1 .. Len(buf) :
              inserting(c, b, buf)[i] = insert(inserting(c, b, buf)[i - 1], b + i - 1, buf[i])
    BY ONLY <2>1, InsertingSteps
  <2> QED  BY <1>1, <2>2
<1>3. inserted(c, b, buf) = f[n]
  BY <1>1 DEF inserted
<1> HIDE DEF f
<1>4. 0 \in S
  <2>1. P(0)
    BY <1>2
  <2> QED  BY <2>1
<1>5. \A i \in Nat : i \in S => i + 1 \in S
  <2> HIDE DEF P
  <2> SUFFICES ASSUME NEW i \in Nat, P(i), i + 1 <= n
               PROVE  P(i + 1)
    OBVIOUS
  <2> USE DEF P
  <2> DEFINE k == b + i
             v == buf[i + 1]
             m == f[i + 1]
  <2>1. i + 1 \in 1 .. n /\ k \in b .. b + n - 1 /\ b + (i + 1) - 1 = k /\ (i + 1) - 1 = i
    OBVIOUS
  <2>2. k \in Block /\ v \in Value
    BY <2>1
  <2>3. m = insert(f[i], k, v)
    BY <1>2, <2>1
  <2>4. Lru(f[i])
    OBVIOUS
  <2>5. /\ Lru(m)
        /\ \A x, u : Holds(m, x, u) => (x = k /\ u = v) \/ (x # k /\ Holds(f[i], x, u))
    BY <2>2, <2>3, <2>4, InsertHolds
  <2> HIDE DEF m
  <2>6. ASSUME NEW x, NEW u, Holds(m, x, u)
        PROVE  \/ x \in b .. b + (i + 1) - 1 /\ u = buf[x - b + 1]
               \/ x \notin b .. b + (i + 1) - 1 /\ Holds(c, x, u)
    <3>1. CASE x = k /\ u = v
      BY <3>1
    <3>2. CASE x # k /\ Holds(f[i], x, u)
      <4>1. \/ x \in b .. b + i - 1 /\ u = buf[x - b + 1]
            \/ x \notin b .. b + i - 1 /\ Holds(c, x, u)
        BY <3>2
      <4>2. x \in b .. b + (i + 1) - 1 <=> x \in b .. b + i - 1
        BY <3>2
      <4> QED  BY <4>1, <4>2
    <3> QED  BY <2>5, <2>6, <3>1, <3>2
  <2> QED  BY <2>5, <2>6 DEF m
<1>6. P(n)
  <2>1. n \in S
    BY <1>4, <1>5, SetInduction
  <2> QED  BY <2>1
<1> QED  BY <1>3, <1>6

(* The loop that looks the blocks up, step by step.                        *)
LEMMA RefreshingSteps ==
    ASSUME NEW c, NEW b, NEW n \in Nat
    PROVE  LET f == refreshing(c, b, n)
           IN  /\ f[0] = [c |-> c, hit |-> TRUE]
               /\ \A i \in 1 .. n : f[i] = refresh(f[i - 1], b + i - 1)
<1> DEFINE e == [c |-> c, hit |-> TRUE]
           G(f, m) == [i \in 0 .. m |-> IF i = 0 THEN e ELSE refresh(f[i - 1], b + i - 1)]
           S == {m \in Nat : \E f : f = G(f, m)}
<1>4. refreshing(c, b, n) = CHOOSE f : f = G(f, n)
  BY DEF refreshing
<1> HIDE DEF e
<1>1. 0 \in S
  <2> DEFINE g == [i \in 0 .. 0 |-> e]
  <2>1. g = G(g, 0)
    OBVIOUS
  <2> QED  BY <2>1
<1>2. \A m \in Nat : m \in S => m + 1 \in S
  <2> SUFFICES ASSUME NEW m \in Nat, m \in S
               PROVE  m + 1 \in S
    OBVIOUS
  <2>1. PICK g : g = G(g, m)
    OBVIOUS
  <2> DEFINE h == [i \in 0 .. m + 1 |-> IF i = m + 1 THEN refresh(g[m], b + i - 1) ELSE g[i]]
  <2>2. \A i \in 0 .. m + 1 : h[i] = IF i = 0 THEN e ELSE refresh(h[i - 1], b + i - 1)
    <3> SUFFICES ASSUME NEW i \in 0 .. m + 1
                 PROVE  h[i] = IF i = 0 THEN e ELSE refresh(h[i - 1], b + i - 1)
      OBVIOUS
    <3>1. CASE i = m + 1
      <4>1. i # 0 /\ i - 1 = m /\ h[i - 1] = g[m]
        BY <3>1
      <4>2. h[i] = refresh(g[m], b + i - 1)
        BY <3>1
      <4> QED  BY <3>1, <4>1, <4>2
    <3>2. CASE i # m + 1
      <4>1. i \in 0 .. m /\ h[i] = g[i]
        BY <3>2
      <4>2. g[i] = IF i = 0 THEN e ELSE refresh(g[i - 1], b + i - 1)
        BY <2>1, <4>1
      <4>3. i # 0 => i - 1 \in 0 .. m + 1 /\ i - 1 # m + 1 /\ h[i - 1] = g[i - 1]
        BY <4>1
      <4> QED  BY <4>1, <4>2, <4>3
    <3> QED  BY <3>1, <3>2
  <2>3. h = G(h, m + 1)
    BY <2>2
  <2>4. \E f : f = G(f, m + 1)
    BY <2>3
  <2>5. m + 1 \in Nat
    OBVIOUS
  <2> QED  BY ONLY <2>4, <2>5
<1>3. \E f : f = G(f, n)
  <2>1. Nat \subseteq S
    BY <1>1, <1>2, SetInduction
  <2> QED  BY <2>1
<1>5. refreshing(c, b, n) = G(refreshing(c, b, n), n)
  BY <1>3, <1>4
<1>6. \A i \in 0 .. n : refreshing(c, b, n)[i] =
                          IF i = 0 THEN e ELSE refresh(refreshing(c, b, n)[i - 1], b + i - 1)
  BY <1>5
<1>7. refreshing(c, b, n)[0] = e
  BY <1>6
<1>8. \A i \in 1 .. n : refreshing(c, b, n)[i] = refresh(refreshing(c, b, n)[i - 1], b + i - 1)
  BY <1>6
<1> QED  BY <1>7, <1>8 DEF e

(* The lookups change no contents, and are a hit only if every block of    *)
(* the call is cached.                                                     *)
LEMMA RefreshedHolds ==
    ASSUME NEW c, Lru(c), NEW b \in Nat, NEW n \in Nat, b .. b + n - 1 \subseteq Block
    PROVE  LET r == refreshed(c, b, n)
           IN  /\ Lru(r.c)
               /\ \A x, v : Holds(r.c, x, v) <=> Holds(c, x, v)
               /\ r.hit => b .. b + n - 1 \subseteq cached(c)
<1> DEFINE f == refreshing(c, b, n)
           P(i) == /\ Lru(f[i].c)
                   /\ \A x, v : Holds(f[i].c, x, v) <=> Holds(c, x, v)
                   /\ f[i].hit => b .. b + i - 1 \subseteq cached(c)
           S == {i \in Nat : i <= n => P(i)}
<1>1. f[0] = [c |-> c, hit |-> TRUE] /\ \A i \in 1 .. n : f[i] = refresh(f[i - 1], b + i - 1)
  BY RefreshingSteps
<1>2. refreshed(c, b, n) = f[n]
  BY DEF refreshed
<1> HIDE DEF f
<1>3. 0 \in S
  <2>1. f[0].c = c /\ b .. b + 0 - 1 = {}
    BY <1>1
  <2>2. P(0)
    BY <2>1
  <2> QED  BY <2>2
<1>4. \A i \in Nat : i \in S => i + 1 \in S
  <2> HIDE DEF P
  <2> SUFFICES ASSUME NEW i \in Nat, P(i), i + 1 <= n
               PROVE  P(i + 1)
    OBVIOUS
  <2> USE DEF P
  <2> DEFINE k == b + i
             u == f[i]
             m == f[i + 1]
  <2>1. i + 1 \in 1 .. n /\ k \in b .. b + n - 1 /\ b + (i + 1) - 1 = k /\ (i + 1) - 1 = i
    OBVIOUS
  <2>2. k \in Block
    BY <2>1
  <2>3. m = refresh(u, k)
    BY <1>1, <2>1
  <2>4. Lru(u.c) /\ \A x, v : Holds(u.c, x, v) <=> Holds(c, x, v)
    OBVIOUS
  <2>5. u.hit => b .. b + i - 1 \subseteq cached(c)
    OBVIOUS
  <2> HIDE DEF m, u
  <2>6. CASE u.hit /\ k \in cached(u.c)
    <3>1. m.c = get_mut(u.c, k)
      BY <2>3, <2>6 DEF refresh
    <3>2. Lru(m.c) /\ \A x, v : Holds(m.c, x, v) <=> Holds(u.c, x, v)
      BY <2>2, <2>4, <2>6, <3>1, GetMutHolds
    <3>3. k \in cached(c)
      BY <2>4, <2>6, ValueHeld, HeldIsCached
    <3>4. b .. b + (i + 1) - 1 = (b .. b + i - 1) \cup {k}
      OBVIOUS
    <3>5. b .. b + (i + 1) - 1 \subseteq cached(c)
      BY <2>5, <2>6, <3>3, <3>4
    <3> QED  BY <2>4, <3>2, <3>5 DEF m
  <2>7. CASE ~(u.hit /\ k \in cached(u.c))
    <3>1. m.c = u.c /\ m.hit = FALSE
      BY <2>3, <2>7 DEF refresh
    <3> QED  BY <2>4, <3>1 DEF m
  <2> QED  BY <2>6, <2>7
<1>5. P(n)
  <2>1. n \in S
    BY <1>3, <1>4, SetInduction
  <2> QED  BY <2>1
<1> QED  BY <1>2, <1>5

-----------------------------------------------------------------------------
(* What the abstract disk may return for a block: what is stored or cached. *)
LEMMA SeenIs ==
    ASSUME NEW d \in [Block -> Value], NEW l, Lru(l)
    PROVE  /\ seen(d, l) \in [Block -> (SUBSET Value) \ {{}}]
           /\ \A x \in Block : \A w : w \in seen(d, l)[x] <=> w = d[x] \/ Holds(l, x, w)
<1>1. ASSUME NEW x \in Block, NEW w
      PROVE  w \in seen(d, l)[x] <=> w = d[x] \/ Holds(l, x, w)
  <2>1. w \in seen(d, l)[x] <=> w = d[x] \/ (x \in cached(l) /\ w = value(l, x))
    BY DEF seen
  <2>2. x \in cached(l) /\ w = value(l, x) => Holds(l, x, w)
    BY ValueHeld
  <2>3. Holds(l, x, w) => x \in cached(l) /\ w = value(l, x)
    BY ValueHeld, HeldIsCached
  <2> QED  BY <2>1, <2>2, <2>3
<1>2. ASSUME NEW x \in Block
      PROVE  seen(d, l)[x] \in (SUBSET Value) \ {{}}
  <2>1. \A w : w \in seen(d, l)[x] => w = d[x] \/ (x \in cached(l) /\ w = value(l, x))
    BY DEF seen
  <2>2. \A w \in seen(d, l)[x] : w \in Value
    BY <2>1, ValueHeld
  <2>3. d[x] \in seen(d, l)[x]
    BY <1>1
  <2> QED  BY <2>2, <2>3
<1>3. seen(d, l) \in [Block -> (SUBSET Value) \ {{}}]
  <2> DEFINE F(x) == {d[x]} \cup {value(l, z) : z \in cached(l) \cap {x}}
  <2>1. seen(d, l) = [x \in Block |-> F(x)]
    BY DEF seen
  <2>2. \A x \in Block : F(x) \in (SUBSET Value) \ {{}}
    BY <1>2, <2>1
  <2> HIDE DEF F
  <2> QED  BY <2>1, <2>2
<1> QED  BY <1>1, <1>3

(* The blocks of a call are blocks of the disk.                            *)
LEMMA SpanInDisk ==
    ASSUME NEW r \in Ranges
    PROVE  /\ r[1] \in Nat /\ r[2] \in Nat /\ r[2] \in 1 .. MaxLen /\ r[1] \in Block
           /\ r[1] .. r[1] + r[2] - 1 \subseteq Block
           /\ D!span(r[1], r[2]) = r[1] .. r[1] + r[2] - 1
<1>1. r[1] \in Block /\ r[2] \in 1 .. MaxLen /\ r[1] + r[2] - 1 \in Block
  BY DEF Ranges
<1>2. r[1] \in Nat /\ r[2] \in Nat
  <2>1. Block \subseteq Nat /\ MaxLen \in Nat
    BY CacheAssumption
  <2>2. \A i \in 1 .. MaxLen : i \in Nat
    BY <2>1
  <2>3. r[1] \in Nat
    BY <1>1, <2>1
  <2>4. r[2] \in Nat
    BY <1>1, <2>2
  <2> QED  BY <2>3, <2>4
<1>3. r[1] .. r[1] + r[2] - 1 \subseteq Block
  BY <1>1, CacheAssumption
<1>4. Block \subseteq Nat
  BY CacheAssumption
<1>5. D!span(r[1], r[2]) = r[1] .. r[1] + r[2] - 1
  <2>1. D!span(r[1], r[2]) = {x \in Block : r[1] <= x /\ x < r[1] + r[2]}
    BY DEF D!span
  <2>2. \A x \in Nat : r[1] <= x /\ x < r[1] + r[2] <=> x \in r[1] .. r[1] + r[2] - 1
    BY <1>2
  <2>3. r[1] .. r[1] + r[2] - 1 \subseteq Nat
    BY <1>2
  <2> QED  BY <1>3, <1>4, <2>1, <2>2, <2>3
<1> QED  BY <1>1, <1>2, <1>3, <1>5

(* Cache::read_at is a read of the abstract disk, or a failed call.        *)
LEMMA ReadImplements ==
    ASSUME IInv, NEW r \in Ranges, read_at(r[1], r[2])
    PROVE  IInv' /\ D!Next
<1> DEFINE b == r[1]
           n == r[2]
           u == refreshed(list, b, n)
           buf == [i \in 1 .. n |-> inner[b + i - 1]]
<1>1. /\ b \in Nat /\ n \in Nat /\ b \in Block /\ b .. b + n - 1 \subseteq Block
      /\ D!span(b, n) = b .. b + n - 1 /\ r \in D!Ranges
  BY SpanInDisk DEF Ranges, D!Ranges
<1>2. inner \in [Block -> Value] /\ Lru(list) /\ inner' = inner
  BY DEF IInv, read_at
<1>3. /\ \/ u.hit /\ list' = u.c /\ reply' = Reply("ok", [i \in 1 .. n |-> value(list, b + i - 1)])
         \/ ~u.hit /\ list' = inserted(u.c, b, buf) /\ reply' = Reply("ok", buf)
         \/ ~u.hit /\ list' = u.c /\ reply' = Reply("EIO", <<>>)
  BY DEF read_at
<1>4. /\ Lru(u.c)
      /\ \A x, v : Holds(u.c, x, v) <=> Holds(list, x, v)
      /\ u.hit => b .. b + n - 1 \subseteq cached(list)
  BY <1>1, <1>2, RefreshedHolds
<1>5. \A i \in 1 .. n : b + i - 1 \in b .. b + n - 1 /\ b + i - 1 \in Block
  BY <1>1
<1>6. buf \in [1 .. n -> Value] /\ Len(buf) = n
  BY <1>1, <1>2, <1>5
<1>7. \A x \in b .. b + n - 1 : x - b + 1 \in 1 .. n /\ buf[x - b + 1] = inner[x]
  BY <1>1
<1> HIDE DEF u, buf
<1>8. /\ Lru(inserted(u.c, b, buf))
      /\ \A x, v : Holds(inserted(u.c, b, buf), x, v) =>
                      \/ x \in b .. b + n - 1 /\ v = buf[x - b + 1]
                      \/ x \notin b .. b + n - 1 /\ Holds(u.c, x, v)
  BY <1>1, <1>4, <1>6, InsertedHolds
<1>9. Lru(list') /\ \A x, v : Holds(list', x, v) => Holds(list, x, v) \/ (x \in Block /\ v = inner[x])
  <2>1. CASE list' = u.c
    BY <1>4, <2>1
  <2>2. CASE list' = inserted(u.c, b, buf)
    <3>1. ASSUME NEW x, NEW v, Holds(list', x, v)
          PROVE  Holds(list, x, v) \/ (x \in Block /\ v = inner[x])
      <4>1. CASE x \in b .. b + n - 1 /\ v = buf[x - b + 1]
        BY <1>1, <1>7, <4>1
      <4>2. CASE Holds(u.c, x, v)
        BY <1>4, <4>2
      <4> QED  BY <1>8, <2>2, <3>1, <4>1, <4>2
    <3> QED  BY <1>8, <2>2, <3>1
  <2> QED  BY <1>3, <2>1, <2>2
<1> DEFINE s == seen(inner, list)
           t == seen(inner', list')
<1>10. \A x \in Block : \A w : w \in s[x] <=> w = inner[x] \/ Holds(list, x, w)
  BY <1>2, SeenIs
<1>11. t \in [Block -> (SUBSET Value) \ {{}}] /\ \A x \in Block : \A w : w \in t[x] <=> w = inner[x] \/ Holds(list', x, w)
  <2>1. inner' \in [Block -> Value]
    BY <1>2
  <2> QED  BY <1>2, <1>9, <2>1, SeenIs
<1> HIDE DEF s, t
<1>12. \A x \in Block : t[x] \subseteq s[x]
  BY <1>9, <1>10, <1>11
<1>13. IInv'
  BY <1>2, <1>9 DEF IInv
<1>14. CASE u.hit /\ reply' = Reply("ok", [i \in 1 .. n |-> value(list, b + i - 1)])
  <2> DEFINE data == [i \in 1 .. n |-> value(list, b + i - 1)]
  <2>1. reply'.code = "ok" /\ reply'.data = data
    BY <1>14 DEF Reply
  <2>2. Len(data) = n /\ \A i \in 1 .. n : data[i] = value(list, b + i - 1)
    BY <1>1
  <2>3. \A i \in 1 .. n : Holds(list, b + i - 1, value(list, b + i - 1))
    BY <1>2, <1>4, <1>5, <1>14, ValueHeld
  <2>4. \A i \in 1 .. n : value(list, b + i - 1) \in s[b + i - 1]
    BY <1>5, <1>10, <2>3
  <2> HIDE DEF data
  <2>5. D!Read(b, n)
    BY <1>11, <1>12, <2>1, <2>2, <2>4 DEF D!Read, s, t
  <2> QED  BY <1>1, <1>13, <2>5 DEF D!Next
<1>15. CASE reply' = Reply("ok", buf)
  <2>1. reply'.code = "ok" /\ reply'.data = buf
    BY <1>15 DEF Reply
  <2>2. \A i \in 1 .. n : buf[i] \in s[b + i - 1]
    BY <1>5, <1>10 DEF buf
  <2>3. D!Read(b, n)
    BY <1>6, <1>11, <1>12, <2>1, <2>2 DEF D!Read, s, t
  <2> QED  BY <1>1, <1>13, <2>3 DEF D!Next
<1>16. CASE reply' = Reply("EIO", <<>>)
  <2>1. \A x \in D!span(b, Len(buf)) : x \in Block
    BY DEF D!span
  <2>2. reply' = D!Reply("EIO", <<>>)
    BY <1>16 DEF D!Reply, Reply
  <2>3. /\ \A x \in D!span(b, Len(buf)) : t[x] \subseteq s[x] \cup {buf[x - b + 1]}
        /\ \A x \in Block \ D!span(b, Len(buf)) : t[x] \subseteq s[x]
    BY <1>12, <2>1
  <2>4. D!Fail(b, buf)
    BY <1>11, <2>2, <2>3 DEF D!Fail, s, t
  <2> QED  BY <1>1, <1>6, <1>13, <2>4 DEF D!Next
<1> QED  BY <1>3, <1>14, <1>15, <1>16

(* Cache::write_at is a write of the abstract disk, or a failed call.      *)
LEMMA WriteImplements ==
    ASSUME IInv, NEW r \in Ranges, NEW buf \in [1 .. r[2] -> Value], write_at(r[1], buf)
    PROVE  IInv' /\ D!Next
<1> DEFINE b == r[1]
           n == r[2]
           stored(k) == [x \in Block |-> IF b <= x /\ x < b + k THEN buf[x - b + 1] ELSE inner[x]]
           s == seen(inner, list)
           t == seen(inner', list')
<1>1. /\ b \in Nat /\ n \in Nat /\ b \in Block /\ b .. b + n - 1 \subseteq Block
      /\ D!span(b, n) = b .. b + n - 1 /\ r \in D!Ranges /\ Block \subseteq Nat
  BY SpanInDisk, CacheAssumption DEF Ranges, D!Ranges
<1>2. inner \in [Block -> Value] /\ Lru(list) /\ Len(buf) = n
  BY <1>1 DEF IInv
<1>3. \/ /\ inner' = stored(n) /\ list' = inserted(list, b, buf) /\ reply' = Reply("ok", <<>>)
      \/ \E k \in 0 .. n : inner' = stored(k) /\ list' = list /\ reply' = Reply("EIO", <<>>)
  BY <1>2 DEF write_at
<1>4. \A k \in 0 .. n : \A x \in Block :
         b <= x /\ x < b + k => x \in b .. b + n - 1 /\ x - b + 1 \in 1 .. n /\ buf[x - b + 1] \in Value
  BY <1>1
<1>5. \A k \in 0 .. n : stored(k) \in [Block -> Value]
  BY <1>2, <1>4
<1>6. /\ Lru(inserted(list, b, buf))
      /\ \A x, v : Holds(inserted(list, b, buf), x, v) =>
                      \/ x \in b .. b + n - 1 /\ v = buf[x - b + 1]
                      \/ x \notin b .. b + n - 1 /\ Holds(list, x, v)
  BY <1>1, <1>2, InsertedHolds
<1>7. \A x \in Block : \A w : w \in s[x] <=> w = inner[x] \/ Holds(list, x, w)
  BY <1>2, SeenIs
<1>8. ASSUME inner' \in [Block -> Value], Lru(list')
      PROVE  /\ t \in [Block -> (SUBSET Value) \ {{}}]
             /\ \A x \in Block : \A w : w \in t[x] <=> w = inner'[x] \/ Holds(list', x, w)
  BY <1>8, SeenIs
<1> HIDE DEF s, t
<1>9. CASE inner' = stored(n) /\ list' = inserted(list, b, buf) /\ reply' = Reply("ok", <<>>)
  <2>1. inner' \in [Block -> Value] /\ Lru(list')
    BY <1>1, <1>5, <1>6, <1>9
  <2>2. \A x \in b .. b + n - 1 : x \in Block /\ inner'[x] = buf[x - b + 1]
    BY <1>1, <1>9
  <2>3. \A x \in Block \ (b .. b + n - 1) : inner'[x] = inner[x]
    BY <1>1, <1>9
  <2> HIDE DEF stored
  <2>4. ASSUME NEW x \in b .. b + n - 1
        PROVE  t[x] = {buf[x - b + 1]}
    <3>1. \A w : w \in t[x] <=> w = inner'[x] \/ Holds(list', x, w)
      BY <1>8, <2>1, <2>2
    <3>2. \A w : Holds(list', x, w) => w = buf[x - b + 1]
      BY <1>6, <1>9
    <3> QED  BY <2>2, <3>1, <3>2
  <2>5. ASSUME NEW x \in Block \ (b .. b + n - 1)
        PROVE  t[x] \subseteq s[x]
    <3>1. \A w : w \in t[x] <=> w = inner[x] \/ Holds(list', x, w)
      BY <1>8, <2>1, <2>3
    <3>2. \A w : Holds(list', x, w) => Holds(list, x, w)
      BY <1>6, <1>9
    <3> QED  BY <1>7, <3>1, <3>2
  <2>6. reply' = D!Reply("ok", <<>>)
    BY <1>9 DEF D!Reply, Reply
  <2>7. t \in [Block -> (SUBSET Value) \ {{}}]
    BY <1>8, <2>1
  <2>8. D!Write(b, buf)
    BY <1>1, <1>2, <2>4, <2>5, <2>6, <2>7 DEF D!Write, s, t
  <2> QED  BY <1>1, <2>1, <2>8 DEF D!Next, IInv
<1>10. CASE \E k \in 0 .. n : inner' = stored(k) /\ list' = list /\ reply' = Reply("EIO", <<>>)
  <2>1. PICK k \in 0 .. n : inner' = stored(k) /\ list' = list /\ reply' = Reply("EIO", <<>>)
    BY <1>10
  <2>2. inner' \in [Block -> Value] /\ Lru(list')
    BY <1>2, <1>5, <2>1
  <2>3. \A x \in b .. b + n - 1 : x \in Block /\ inner'[x] \in {inner[x], buf[x - b + 1]}
    BY <1>1, <2>1
  <2>4. \A x \in Block \ (b .. b + n - 1) : inner'[x] = inner[x]
    <3> SUFFICES ASSUME NEW x \in Block \ (b .. b + n - 1)
                 PROVE  inner'[x] = inner[x]
      OBVIOUS
    <3>1. ~(b <= x /\ x < b + k)
      BY <1>4
    <3> QED  BY <2>1, <3>1
  <2> HIDE DEF stored
  <2>5. t \in [Block -> (SUBSET Value) \ {{}}] /\ \A x \in Block : \A w : w \in t[x] <=> w = inner'[x] \/ Holds(list, x, w)
    BY <1>8, <2>1, <2>2
  <2>6. \A x \in b .. b + n - 1 : t[x] \subseteq s[x] \cup {buf[x - b + 1]}
    BY <1>7, <2>3, <2>5
  <2>7. \A x \in Block \ (b .. b + n - 1) : t[x] \subseteq s[x]
    BY <1>7, <2>4, <2>5
  <2>8. reply' = D!Reply("EIO", <<>>)
    BY <2>1 DEF D!Reply, Reply
  <2>9. D!Fail(b, buf)
    BY <1>1, <1>2, <2>5, <2>6, <2>7, <2>8 DEF D!Fail, s, t
  <2> QED  BY <1>1, <2>2, <2>9 DEF D!Next, IInv
<1> QED  BY <1>3, <1>9, <1>10

(* The cached disk implements the disk, for every set of blocks and values *)
(* and every capacity of the cache: every call of Cache::read_at and       *)
(* Cache::write_at, and every restart, is a step the abstract disk takes.  *)
THEOREM CacheImplementsDisk == Spec => DiskSpec
<1>1. Init => IInv /\ D!Init
  <2> SUFFICES ASSUME Init
               PROVE  IInv /\ D!Init
    OBVIOUS
  <2>1. list = <<>> /\ inner \in [Block -> Value] /\ reply = Reply("none", <<>>)
    BY DEF Init
  <2>2. Lru(list) /\ \A x, v : ~Holds(list, x, v)
    BY <2>1, CacheAssumption DEF Lru, Unique, Holds
  <2>3. seen(inner, list) \in [Block -> (SUBSET Value) \ {{}}]
    BY <2>1, <2>2, SeenIs
  <2>4. \A x \in Block : seen(inner, list)[x] = {inner[x]}
    BY <2>1, <2>2, SeenIs
  <2>5. seen(inner, list) \in [Block -> {{v} : v \in Value}]
    BY <2>1, <2>3, <2>4
  <2> QED  BY <2>1, <2>2, <2>5 DEF IInv, D!Init, D!Reply, Reply
<1>2. IInv /\ [Next]_vars => IInv' /\ [D!Next]_(D!vars)
  <2> SUFFICES ASSUME IInv, [Next]_vars
               PROVE  IInv' /\ [D!Next]_(D!vars)
    OBVIOUS
  <2>1. ASSUME NEW r \in Ranges, read_at(r[1], r[2])
        PROVE  IInv' /\ D!Next
    BY <2>1, ReadImplements
  <2>2. ASSUME NEW r \in Ranges, NEW buf \in [1 .. r[2] -> Value], write_at(r[1], buf)
        PROVE  IInv' /\ D!Next
    BY <2>2, WriteImplements
  <2>3. CASE restart
    <3>1. inner' = inner /\ list' = <<>> /\ reply' = Reply("none", <<>>)
      BY <2>3 DEF restart
    <3>2. Lru(list') /\ \A x, v : ~Holds(list', x, v)
      BY <3>1, CacheAssumption DEF Lru, Unique, Holds
    <3>3. inner \in [Block -> Value] /\ inner' \in [Block -> Value] /\ Lru(list)
      BY <3>1 DEF IInv
    <3> DEFINE s == seen(inner, list)
               t == seen(inner', list')
    <3>4. t \in [Block -> (SUBSET Value) \ {{}}] /\ \A x \in Block : \A w : w \in t[x] <=> w = inner[x]
      BY <3>1, <3>2, <3>3, SeenIs
    <3>5. \A x \in Block : inner[x] \in s[x]
      BY <3>3, SeenIs
    <3>6. D!Restart
      BY <3>1, <3>4, <3>5 DEF D!Restart, D!Reply, Reply
    <3> QED  BY <3>2, <3>3, <3>6 DEF IInv, D!Next
  <2>4. CASE UNCHANGED vars
    BY <2>4 DEF vars, IInv, D!vars
  <2> QED  BY <2>1, <2>2, <2>3, <2>4 DEF Next
<1> QED  BY <1>1, <1>2, PTL DEF Spec, DiskSpec, D!Spec
=============================================================================
