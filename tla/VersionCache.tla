----------------------------- MODULE VersionCache -----------------------------
(***************************************************************************)
(* SIT_NAT_cache on top of generic_cache_manager and lru_replacer: the     *)
(* cache of SIT or NAT blocks.  A block's reference count is the number of *)
(* handles on it plus the number of journal entries on it that the SSD has *)
(* not applied (host version minus SSD version); a block is pinned, and so *)
(* not replaced, from the moment its count becomes 1 until it is 0 again.  *)
(*                                                                         *)
(* A cache is [ref, lru, data]: the counts and contents of the cached      *)
(* blocks, and the unpinned ones, least recently used first.  The pinned   *)
(* list is the rest; its order is never used.                              *)
(***************************************************************************)
EXTENDS Integers, FiniteSets, SequencesExt

\* ref_count is a uint32_t; this modulus stands for 2^32.
RefMod == 256

EmptyCache == [ref |-> <<>>, lru |-> <<>>, data |-> <<>>]

Cached(c, b) == b \in DOMAIN c.ref

\* do_replace: while there are more than size blocks, drop the least recently
\* used unpinned one.
do_replace(c, size) ==
    LET over == Cardinality(DOMAIN c.ref) - size
        k    == IF over <= 0 THEN 0 ELSE IF over < Len(c.lru) THEN over ELSE Len(c.lru)
        kept == DOMAIN c.ref \ {c.lru[i] : i \in 1 .. k}
    IN  [ref  |-> Restrict(c.ref, kept), lru |-> SubSeq(c.lru, k + 1, Len(c.lru)),
         data |-> Restrict(c.data, kept)]

\* get_cache_entry_inner: a miss reads the block, whose content is fresh, and
\* adds it unpinned; a hit counts as an access if the caller says so.
get_cache_entry_inner(c, b, fresh, is_access) ==
    IF ~Cached(c, b)
    THEN [ref |-> (b :> 0) @@ c.ref, lru |-> Append(c.lru, b), data |-> (b :> fresh) @@ c.data]
    ELSE IF is_access /\ Contains(c.lru, b)
    THEN [c EXCEPT !.lru = Append(Remove(@, b), b)]
    ELSE c

add_refcount(c, b) ==
    LET r == (c.ref[b] + 1) % RefMod IN
    [c EXCEPT !.ref[b] = r, !.lru = IF r = 1 THEN Remove(@, b) ELSE @]

sub_refcount_UnpinsAtOne(c, b, size) ==
    LET r == (c.ref[b] - 1) % RefMod
        d == [c EXCEPT !.ref[b] = r]
    IN  IF r > 1 THEN d
        ELSE do_replace([d EXCEPT !.lru = IF Contains(@, b) THEN @ ELSE Append(@, b)], size)
sub_refcount(c, b, size) ==
    LET r == (c.ref[b] - 1) % RefMod
        d == [c EXCEPT !.ref[b] = r]
    IN  IF r # 0 THEN d
        ELSE do_replace([d EXCEPT !.lru = IF Contains(@, b) THEN @ ELSE Append(@, b)], size)

\* get: a handle on block b; its destructor is sub_refcount.
get(c, b, fresh, size) ==
    do_replace(add_refcount(get_cache_entry_inner(c, b, fresh, TRUE), b), size)

\* A journal entry was written for block b / the SSD has applied one.
add_host_version(c, b) == add_refcount(c, b)
add_SSD_version(c, b, fresh, size) ==
    sub_refcount(get_cache_entry_inner(c, b, fresh, FALSE), b, size)
===============================================================================
