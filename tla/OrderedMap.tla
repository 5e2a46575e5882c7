----------------------------- MODULE OrderedMap -----------------------------
(***************************************************************************)
(* What LruCache and LinkedHashMap (schemes/redoxfs/scheme/cache) promise: *)
(* a list of pairs with distinct keys, the least recently used first.      *)
(***************************************************************************)
EXTENDS Naturals, Sequences

CONSTANTS Key, Value, Sizes

VARIABLES list,      \* the pairs
          max_size,  \* LruCache.max_size
          rest,      \* the pairs an iterator still has to give, in its order
          ret        \* what the last call returned: <<>> or a pair

vars == <<list, max_size, rest, ret>>

At(k) == {i \in DOMAIN list : list[i][1] = k}
Without(k) == SelectSeq(list, LAMBDA e : e[1] # k)
Last(n) == IF Len(list) > n THEN SubSeq(list, Len(list) - n + 1, Len(list)) ELSE list
Found(k) == IF At(k) = {} THEN <<>> ELSE list[CHOOSE i \in At(k) : TRUE]

Insert(k, v) ==
    LET new == Append(Without(k), <<k, v>>)
    IN  /\ list' = IF Len(new) > max_size THEN Tail(new) ELSE new
        /\ ret' = Found(k)
        /\ UNCHANGED <<max_size, rest>>

Refresh(k) ==
    /\ list' = IF At(k) = {} THEN list ELSE Append(Without(k), Found(k))
    /\ ret' = Found(k)
    /\ UNCHANGED <<max_size, rest>>

Remove(k) ==
    /\ list' = Without(k) /\ ret' = Found(k)
    /\ UNCHANGED <<max_size, rest>>

PopFront ==
    /\ list # <<>>
    /\ list' = Tail(list) /\ ret' = Head(list)
    /\ UNCHANGED <<max_size, rest>>

PopBack ==
    /\ list # <<>>
    /\ list' = SubSeq(list, 1, Len(list) - 1) /\ ret' = list[Len(list)]
    /\ UNCHANGED <<max_size, rest>>

Clear == list' = <<>> /\ ret' = <<>> /\ UNCHANGED <<max_size, rest>>

Resize(n) ==
    /\ max_size' = n /\ list' = Last(n)
    /\ ret' = <<>> /\ UNCHANGED rest

Start == rest' = list /\ ret' = <<>> /\ UNCHANGED <<list, max_size>>

Give ==
    /\ rest # <<>>
    /\ \/ rest' = Tail(rest) /\ ret' = Head(rest)
       \/ rest' = SubSeq(rest, 1, Len(rest) - 1) /\ ret' = rest[Len(rest)]
    /\ UNCHANGED <<list, max_size>>

Stop == rest' = <<>> /\ ret' = <<>> /\ UNCHANGED <<list, max_size>>

Init == list = <<>> /\ rest = <<>> /\ ret = <<>> /\ max_size \in Sizes

Next ==
    \/ \E k \in Key : (\E v \in Value : Insert(k, v)) \/ Refresh(k) \/ Remove(k)
    \/ PopFront \/ PopBack \/ Clear \/ Start \/ Give \/ Stop
    \/ \E n \in Sizes : Resize(n)

Spec == Init /\ [][Next]_vars
=============================================================================
