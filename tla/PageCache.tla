------------------------------ MODULE PageCache ------------------------------
(***************************************************************************)
(* page_cache over generic_cache_manager: the pages of one file.           *)
(*                                                                         *)
(* A cache is [ent, lru, dirty_pages, cur_size].  ent[e] is the page_entry *)
(* object e; live says whether it exists, and a live entry is indexed by   *)
(* its blkoff.  lru holds the blkoff of the unpinned entries, the least    *)
(* recently used first.  dirty_pages is the set of entries the map of that *)
(* name holds a handle on.  A buffer's content is one value per block, 0   *)
(* being zeros.                                                            *)
(*                                                                         *)
(* Operators are what a method does under its lock; a failed assert is the *)
(* value of an operator named Asserts.                                     *)
(***************************************************************************)
EXTENDS Integers, FiniteSets, SequencesExt

\* cur_size is a size_t; this modulus stands for 2^64.
SizeMod == 16

NoEntry == 0
INVALID_LPA == 0

\* page_entry's constructor, with the buffer that block_buffer zeroes.
page_entry(b) ==
    [blkoff |-> b, lpa |-> INVALID_LPA, content_state |-> "invalid", page |-> 0,
     ref_count |-> 0, is_dirty |-> FALSE, live |-> TRUE]

EmptyPageCache(Entries) ==
    [ent |-> [e \in Entries |-> [page_entry(0) EXCEPT !.live = FALSE]],
     lru |-> <<>>, dirty_pages |-> {}, cur_size |-> 0]

LiveEntries(c) == {e \in DOMAIN c.ent : c.ent[e].live}
IndexOf(c, b) == {e \in LiveEntries(c) : c.ent[e].blkoff = b}
IsCached(c, b) == IndexOf(c, b) # {}
EntryOf(c, b) == CHOOSE e \in IndexOf(c, b) : TRUE
IsPinned(c, e) == ~Contains(c.lru, c.ent[e].blkoff)

\* A key that is pinned already is left as it is.
pin(c, b) ==
    IF Contains(c.lru, b)
    THEN [c EXCEPT !.lru = RemoveAt(@, CHOOSE i \in DOMAIN c.lru : c.lru[i] = b)] ELSE c
\* key_states.at throws for a key that is not cached; ~page_entry_handle
\* swallows the exception.
unpin(c, b) ==
    IF IsCached(c, b) /\ ~Contains(c.lru, b) THEN [c EXCEPT !.lru = Append(@, b)] ELSE c

add_refcount(c, e) ==
    LET d == [c EXCEPT !.ent[e].ref_count = @ + 1] IN
    IF c.ent[e].ref_count = 0 THEN pin(d, c.ent[e].blkoff) ELSE d

\* sub_refcount is two steps: the count is reduced without a lock; the thread
\* that brought it to 0 then takes cache_lock and looks again.
DropRef(c, e) == [c EXCEPT !.ent[e].ref_count = @ - 1]
RecheckAndUnpin_NoRecheck(c, e) == unpin(c, c.ent[e].blkoff)
RecheckAndUnpin(c, e) ==
    IF c.ent[e].ref_count = 0 THEN unpin(c, c.ent[e].blkoff) ELSE c

\* cur_size above expect_size: drop unpinned entries, the oldest first.
do_replace(c, expect_size) ==
    LET over == c.cur_size - expect_size
        k    == IF over <= 0 THEN 0 ELSE IF over < Len(c.lru) THEN over ELSE Len(c.lru)
        gone == UNION {IndexOf(c, c.lru[i]) : i \in 1 .. k}
    IN  [c EXCEPT !.ent = [e \in DOMAIN c.ent |-> IF e \in gone THEN [c.ent[e] EXCEPT !.live = FALSE]
                                                  ELSE c.ent[e]],
                  !.lru = SubSeq(@, k + 1, Len(@)),
                  !.cur_size = @ - k]

Recycled_StaysReady(c, b, expect_size) ==
    LET v == EntryOf(c, Head(c.lru))
        d == [c EXCEPT !.ent[v].blkoff = b, !.lru = Append(Tail(@), b)]
    IN  do_replace(add_refcount(d, v), expect_size)
\* get on a miss with a victim: the entry changes its key and keeps its lpa
\* and the contents of its buffer.
Recycled(c, b, expect_size) ==
    LET v == EntryOf(c, Head(c.lru))
        d == [c EXCEPT !.ent[v].blkoff = b, !.ent[v].content_state = "invalid",
                       !.lru = Append(Tail(@), b)]
    IN  do_replace(add_refcount(d, v), expect_size)
Created(c, b) ==
    LET e == CHOOSE x \in DOMAIN c.ent : ~c.ent[x].live
        d == [c EXCEPT !.ent[e] = page_entry(b), !.lru = Append(@, b),
                       !.cur_size = (@ + 1) % SizeMod]
    IN  add_refcount(d, e)

\* page_cache::get; a hit that was unpinned is pinned by the new reference.
get(c, b, expect_size) ==
    IF IsCached(c, b) THEN add_refcount(c, EntryOf(c, b))
    ELSE IF c.cur_size >= expect_size /\ c.lru # <<>> THEN Recycled(c, b, expect_size)
    ELSE Created(c, b)

\* The asserts of get, do_replace and add_refcount: what is replaced, or is
\* given its first reference, is neither referenced nor dirty.
GetAsserts(c, b, expect_size) ==
    /\ IsCached(c, b) =>
         LET e == EntryOf(c, b) IN c.ent[e].ref_count = 0 => ~c.ent[e].is_dirty
    /\ LET d == get(c, b, expect_size)
           replaced == {e \in LiveEntries(c) : \/ ~d.ent[e].live
                                               \/ d.ent[e].blkoff # c.ent[e].blkoff}
       IN  \A e \in replaced : c.ent[e].ref_count = 0 /\ ~c.ent[e].is_dirty

\* page_entry_handle::mark_dirty: the thread that sets the flag puts a copy of
\* its handle into dirty_pages.
mark_dirty(c, e) ==
    IF c.ent[e].is_dirty THEN c
    ELSE [add_refcount(c, e) EXCEPT !.ent[e].is_dirty = TRUE, !.dirty_pages = @ \cup {e}]

\* dirty_pages lets go of the handles on es, with no other thread in the cache,
\* in an order the map does not promise: the entries that nobody else holds are
\* unpinned in that order.
ReleaseAll(c, es) ==
    LET d == [c EXCEPT !.ent = [e \in DOMAIN c.ent |->
                                  IF e \in es THEN DropRef(c, e).ent[e] ELSE c.ent[e]],
                       !.dirty_pages = @ \ es]
        idle == {e \in es : d.ent[e].ref_count = 0 /\ IsPinned(d, e)}
    IN  {[d EXCEPT !.lru = @ \o keys] : keys \in SetToSeqs({d.ent[e].blkoff : e \in idle})}

\* page_cache::truncate: the dirty pages past max_blkoff; each of them reduces
\* cur_size although it stays in the cache.
truncate(c, max_blkoff) ==
    LET gone == {e \in c.dirty_pages : c.ent[e].blkoff > max_blkoff}
        d == [c EXCEPT !.ent = [e \in DOMAIN c.ent |->
                                  IF e \in gone THEN [c.ent[e] EXCEPT !.is_dirty = FALSE,
                                                                      !.content_state = "invalid"]
                                  ELSE c.ent[e]],
                       !.cur_size = (@ - Cardinality(gone)) % SizeMod]
    IN  ReleaseAll(d, gone)

clear_dirty_pages(c) ==
    ReleaseAll([c EXCEPT !.ent = [e \in DOMAIN c.ent |->
                   IF e \in c.dirty_pages THEN [c.ent[e] EXCEPT !.is_dirty = FALSE] ELSE c.ent[e]]],
               c.dirty_pages)
===============================================================================
