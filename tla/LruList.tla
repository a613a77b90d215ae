------------------------------- MODULE LruList --------------------------------
(***************************************************************************)
(* The list of cached blocks in fs/src/cache.c, least recently used first, *)
(* pointer by pointer: detach and attach_tail may be applied to an entry   *)
(* that is not on the list, or to a list some entries have dropped out of. *)
(***************************************************************************)
EXTENDS Integers

CONSTANT CACHE_CAPACITY   \* entries of cache_arr

Slots == 1..CACHE_CAPACITY
NULL  == 0
Ptr   == Slots \cup {NULL}

List == [head : Ptr, tail : Ptr, prev : [Slots -> Ptr], next : [Slots -> Ptr]]

EmptyList == [head |-> NULL, tail |-> NULL,
              prev |-> [s \in Slots |-> NULL], next |-> [s \in Slots |-> NULL]]

detach(l, e) ==
    LET p == l.prev[e]
        n == l.next[e]
    IN  [head |-> IF p = NULL THEN n ELSE l.head,
         tail |-> IF n = NULL THEN p ELSE l.tail,
         prev |-> [x \in Slots |-> IF x = e THEN NULL ELSE IF x = n THEN p ELSE l.prev[x]],
         next |-> [x \in Slots |-> IF x = e THEN NULL ELSE IF x = p THEN n ELSE l.next[x]]]

\* attach_tail without its last line.
attach_tail_no_head(l, e) ==
    [head |-> l.head,
     tail |-> e,
     prev |-> [l.prev EXCEPT ![e] = l.tail],
     next |-> [x \in Slots |-> IF x = l.tail THEN e ELSE IF x = e THEN NULL ELSE l.next[x]]]

attach_tail(l, e) ==
    [head |-> IF l.head = NULL THEN e ELSE l.head,
     tail |-> e,
     prev |-> [l.prev EXCEPT ![e] = l.tail],
     next |-> [x \in Slots |-> IF x = l.tail THEN e ELSE IF x = e THEN NULL ELSE l.next[x]]]

=============================================================================
