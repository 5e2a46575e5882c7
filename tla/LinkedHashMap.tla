---------------------------- MODULE LinkedHashMap ----------------------------
(***************************************************************************)
(* schemes/redoxfs/scheme/cache/linked_hash_map.rs and lru_cache.rs, at    *)
(* the level of raw pointers.  Entries are boxes that the hash map owns    *)
(* and that also form a ring through a guard: next leads from the most to  *)
(* the least recently used one, prev back.  Boxes of removed entries are   *)
(* kept in a list, linked by next, and used again.                         *)
(***************************************************************************)
EXTENDS Integers, Sequences, FiniteSets

CONSTANTS Key, Value,
          Sizes,     \* values of max_size
          Boxes      \* addresses

VARIABLES heap,      \* address -> [next, prev, key, value, live]
          map,       \* key -> address of its box
          head,      \* the guard's address, or null
          free,      \* the first recycled box, or null
          max_size,
          it,        \* an iterator: [head, tail, remaining], or none
          ret        \* what the last call returned: <<>> or a pair

vars == <<heap, map, head, free, max_size, it, ret>>

null == 0
none == [head |-> null, tail |-> null, remaining |-> -1]
self == [heap |-> heap, map |-> map, head |-> head, free |-> free]

is(s) == heap' = s.heap /\ map' = s.map /\ head' = s.head /\ free' = s.free

fresh(s) == CHOOSE a \in Boxes : ~ s.heap[a].live /\ \A b \in Boxes : ~ s.heap[b].live => a <= b
pair(s, a) == <<s.heap[a].key, s.heap[a].value>>

(* A box that is not allocated; what it holds is never read.               *)
Blank == [next |-> null, prev |-> null, key |-> CHOOSE k \in Key : TRUE,
          value |-> CHOOSE v \in Value : TRUE, live |-> FALSE]

drop(s, as) == [s EXCEPT !.heap = [a \in Boxes |-> IF a \in as THEN Blank ELSE @[a]]]

-----------------------------------------------------------------------------
detach(s, n) ==
    LET h == [s.heap EXCEPT ![s.heap[n].prev].next = s.heap[n].next]
    IN  [s EXCEPT !.heap = [h EXCEPT ![h[n].next].prev = h[n].prev]]

(* Bug: the entry that was first still leads back to the guard.            *)
attach_half(s, n) ==
    LET h == [s.heap EXCEPT ![n].next = s.heap[s.head].next, ![n].prev = s.head]
    IN  [s EXCEPT !.heap = [h EXCEPT ![s.head].next = n]]

attach(s, n) ==
    LET h == [s.heap EXCEPT ![n].next = s.heap[s.head].next, ![n].prev = s.head]
        g == [h EXCEPT ![s.head].next = n]
    IN  [s EXCEPT !.heap = [g EXCEPT ![g[n].next].prev = n]]

(* The guard is made by the first insert.                                  *)
guarded(s) ==
    LET a == fresh(s)
    IN  IF s.head # null THEN s
        ELSE [s EXCEPT !.head = a, !.heap[a] = [@ EXCEPT !.live = TRUE, !.next = a, !.prev = a]]

(* A box for a new entry: a recycled one if there is one.                  *)
boxed(s, k, v) ==
    LET a == IF s.free = null THEN fresh(s) ELSE s.free
    IN  [s EXCEPT !.heap[a] = [next |-> null, prev |-> null, key |-> k, value |-> v, live |-> TRUE],
                  !.free = IF s.free = null THEN null ELSE s.heap[s.free].next,
                  !.map = [x \in DOMAIN s.map \cup {k} |-> IF x = k THEN a ELSE s.map[x]]]

map_insert(s, k, v) ==
    LET g == guarded(s)
        b == boxed(g, k, v)
    IN  IF k \in DOMAIN g.map
        THEN attach(detach([g EXCEPT !.heap[g.map[k]].value = v], g.map[k]), g.map[k])
        ELSE attach(b, b.map[k])

unmapped(s, k) == [s EXCEPT !.map = [x \in DOMAIN s.map \ {k} |-> s.map[x]]]

(* pop_front and pop_back: the box at a leaves the ring and is dropped.    *)
pop(s, a) == drop(unmapped(detach(s, a), s.heap[a].key), {a})
lru(s) == s.heap[s.head].prev
mru(s) == s.heap[s.head].next

(* LruCache::insert, remove_lru and set_capacity.                          *)
evict(s, n) ==
    LET popped[i \in 0 .. Cardinality(Key)] ==
            IF i = 0 \/ Cardinality(DOMAIN s.map) - i < n THEN s ELSE pop(popped[i - 1], lru(popped[i - 1]))
        len == Cardinality(DOMAIN s.map)
    IN  IF len > n THEN popped[len - n] ELSE s

-----------------------------------------------------------------------------
found(k) == IF k \in DOMAIN map THEN pair(self, map[k]) ELSE <<>>

insert(k, v) ==
    /\ is(evict(map_insert(self, k, v), max_size))
    /\ ret' = found(k)
    /\ UNCHANGED <<max_size, it>>

(* get_refresh, the get_mut and contains_key of LruCache.                  *)
get_mut(k) ==
    /\ is(IF k \in DOMAIN map THEN attach(detach(self, map[k]), map[k]) ELSE self)
    /\ ret' = found(k)
    /\ UNCHANGED <<max_size, it>>

remove(k) ==
    /\ LET a == map[k]
           s == detach(unmapped(self, k), a)
       IN  is(IF k \in DOMAIN map THEN [s EXCEPT !.heap[a] = [Blank EXCEPT !.next = free, !.live = TRUE], !.free = a]
              ELSE self)
    /\ ret' = found(k)
    /\ UNCHANGED <<max_size, it>>

pop_front ==
    /\ map # <<>>
    /\ is(pop(self, lru(self))) /\ ret' = pair(self, lru(self))
    /\ UNCHANGED <<max_size, it>>

pop_back ==
    /\ map # <<>>
    /\ is(pop(self, mru(self))) /\ ret' = pair(self, mru(self))
    /\ UNCHANGED <<max_size, it>>

clear ==
    /\ LET s == [drop(self, {map[k] : k \in DOMAIN map}) EXCEPT !.map = <<>>]
       IN  is(IF head = null THEN s
              ELSE [s EXCEPT !.heap[head].prev = head, !.heap[head].next = head])
    /\ ret' = <<>>
    /\ UNCHANGED <<max_size, it>>

set_capacity(n) ==
    /\ is(evict(self, n)) /\ max_size' = n
    /\ ret' = <<>> /\ UNCHANGED it

(* shrink_to_fit: clear_free_list.                                         *)
recycled ==
    LET from[i \in 0 .. Cardinality(Boxes)] ==
            IF i = 0 THEN free ELSE IF from[i - 1] = null THEN null ELSE heap[from[i - 1]].next
    IN  {from[i] : i \in 0 .. Cardinality(Boxes)} \ {null}

shrink_to_fit ==
    /\ is([drop(self, recycled) EXCEPT !.free = null])
    /\ ret' = <<>> /\ UNCHANGED <<max_size, it>>

(* iter and iter_mut: from the least recently used entry, by prev; rev     *)
(* goes from the guard by next.  Both ends may be used in turn.            *)
iter ==
    /\ it' = [head |-> IF head = null THEN null ELSE heap[head].prev,
              tail |-> head, remaining |-> Cardinality(DOMAIN map)]
    /\ ret' = <<>>
    /\ UNCHANGED <<heap, map, head, free, max_size>>

next ==
    /\ it.head # it.tail
    /\ it' = [it EXCEPT !.head = heap[it.head].prev, !.remaining = @ - 1]
    /\ ret' = pair(self, it.head)
    /\ UNCHANGED <<heap, map, head, free, max_size>>

next_back ==
    /\ it.head # it.tail
    /\ it' = [it EXCEPT !.tail = heap[it.tail].next, !.remaining = @ - 1]
    /\ ret' = pair(self, heap[it.tail].next)
    /\ UNCHANGED <<heap, map, head, free, max_size>>

iter_end ==
    /\ it # none /\ it' = none /\ ret' = <<>>
    /\ UNCHANGED <<heap, map, head, free, max_size>>

Init ==
    /\ heap = [a \in Boxes |-> Blank]
    /\ map = <<>> /\ head = null /\ free = null /\ it = none /\ ret = <<>>
    /\ max_size \in Sizes

Next ==
    \/ /\ it = none      \* an iterator borrows the map
       /\ \/ \E k \in Key : (\E v \in Value : insert(k, v)) \/ get_mut(k) \/ remove(k)
          \/ pop_front \/ pop_back \/ clear \/ shrink_to_fit \/ iter
          \/ \E n \in Sizes : set_capacity(n)
    \/ it # none /\ (next \/ next_back \/ iter_end)

Spec == Init /\ [][Next]_vars

-----------------------------------------------------------------------------
(* The pairs from the box a on, by prev, up to the box z.                  *)
span(a, z) ==
    LET from[i \in 0 .. Cardinality(Boxes)] ==
            IF i = 0 THEN a ELSE IF from[i - 1] = z THEN z ELSE heap[from[i - 1]].prev
        len == Cardinality({i \in 0 .. Cardinality(Boxes) : from[i] # z})
    IN  [i \in 1 .. len |-> pair(self, from[i - 1])]

(* Every box is owned once: the guard, the entries of the map, which are   *)
(* the ring, and the recycled boxes are distinct and are all that is       *)
(* allocated, each key finds its own entry, and an iterator counts right.  *)
BoxesOwned ==
    LET ring == {a \in Boxes : heap[a].live} \ (recycled \cup {head})
    IN  /\ \A k \in DOMAIN map : map[k] \in ring /\ heap[map[k]].key = k
        /\ ring = {map[k] : k \in DOMAIN map}
        /\ recycled \subseteq {a \in Boxes : heap[a].live} \ {head}
        /\ it # none => it.remaining = Len(span(it.head, it.tail))
=============================================================================
