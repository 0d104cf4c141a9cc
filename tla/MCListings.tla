----------------------------- MODULE MCListings -----------------------------
(* Listings for TLC: what each client may ask.                              *)
EXTENDS Listings

CONSTANTS c1, c2

Walk(tool, limit, from) == [tool |-> tool, limit |-> limit, offset |-> from, since |-> 2]
RemoveAll(ids, checked) == [tool |-> "remove", ids |-> ids, checked |-> checked]

(* c1 walks; c2 removes: rows of the list, one that comes later or never,   *)
(* and one of them twice.                                                   *)
Requests == [c \in Call |->
    CASE c = c1 -> {Walk("window", limit, from) : limit \in {0, 2, 9}, from \in {-1, 1}}
                   \cup {Walk("whole", 2, 0), Walk("whole", 9, 1), Walk("recent", 2, 0), Walk("recent", 0, 1)}
      [] c = c2 -> {RemoveAll(<<1, 3>>, TRUE), RemoveAll(<<2, 2>>, TRUE), RemoveAll(<<4, 1>>, FALSE)}]
=============================================================================
