------------------------------ MODULE NodeCache ------------------------------
(***************************************************************************)
(* node_block_cache and node_cache_helper: the cache of inodes and index   *)
(* nodes, with the node ids and addresses that deleting a node frees.      *)
(*                                                                         *)
(* The state is one record s that every operator takes and returns:        *)
(*   ent    the cached entries, a function on node ids                     *)
(*   lru    the unpinned ones, least recently used first                   *)
(*   dirty  dirty_list                                                     *)
(*   rec    the records of transactions that still protect nodes, each the *)
(*          list dirty_list was when its transaction was generated         *)
(*   stray  how many keys of dirty_pos are addresses of entries now gone;  *)
(*   reuse  whether entries allocated in this step take such addresses     *)
(*   free   the chain of free node ids                                     *)
(*   valid, lpas    the addresses valid in the SIT, those ever allocated   *)
(*   nat, disk      the address of each node, the blocks written           *)
(*   failed         the assert that ended the process, or "none"           *)
(*                                                                         *)
(* A node is [ino, noff, size, ptr]: its footer, an inode's size, and its  *)
(* array of addresses or node ids.  ref_count counts handles, children in  *)
(* the cache, and the places in dirty and rec.                             *)
(***************************************************************************)
EXTENDS Integers, FiniteSets, SequencesExt

CONSTANTS
    ADDRS_PER_INODE, ADDRS_PER_BLOCK, NIDS_PER_BLOCK,    \* DEF_ADDRS_PER_INODE ...
    node_expect_size                                     \* nodes kept in the cache

INVALID_NID == 0
INVALID_LPA == 0

\* Values of dirty_pos: no key; a place in dirty_list; n > 0 is a place in the
\* list that became record n.  An entry allocated where an earlier one was
\* finds that one's key, and a place in a list that is gone.
NoPos == 0
InDirtyList == -1
Dangling == -2

Fail(s, what) == IF s.failed = "none" THEN [s EXCEPT !.failed = what] ELSE s

entry(node, parent, lpa, pos) ==
    [node |-> node, parent |-> parent, lpa |-> lpa, ref |-> 0, state |-> "uptodate", pos |-> pos]

IsCached(s, nid) == nid \in DOMAIN s.ent

add_refcount(s, nid) ==
    LET r == s.ent[nid].ref + 1 IN
    [s EXCEPT !.ent[nid].ref = r, !.lru = IF r = 1 THEN Remove(@, nid) ELSE @]

Dropped(s, nid) ==
    [s EXCEPT !.ent = Restrict(@, DOMAIN @ \ {nid}), !.lru = Remove(@, nid),
              !.stray = IF s.ent[nid].pos = NoPos THEN @ ELSE @ + 1]

\* SIT_operator::invalidate_lpa, for a set of addresses.
invalidate_lpas(s, L) ==
    LET t == [s EXCEPT !.valid = @ \ L] IN IF L \subseteq s.valid THEN t ELSE Fail(t, "SIT")

\* What sub_refcount does when the last reference to a deleted node is gone.
Deleted_KeepsLpa(s, nid) == Dropped([s EXCEPT !.free = <<nid>> \o @], nid)
Deleted(s, nid) ==
    LET lpa == s.ent[nid].lpa
        t == [s EXCEPT !.free = <<nid>> \o @, !.nat[nid] = INVALID_LPA]
    IN  Dropped(invalidate_lpas(t, {lpa} \ {INVALID_LPA}), nid)

\* The node and its ancestors.
Ancestors(s, nid) ==
    LET up(n) == IF IsCached(s, n) THEN s.ent[n].parent ELSE INVALID_NID
    IN  SelectSeq(<<nid, up(nid), up(up(nid)), up(up(up(nid)))>>, LAMBDA n : n # INVALID_NID)

\* sub_refcount: when the last reference to a deleted node goes, so does the
\* reference it has to its parent.
sub_refcount(s, nid) ==
    LET Step(a, n) ==
            IF ~a.go THEN a
            ELSE IF ~IsCached(a.s, n) THEN [s |-> Fail(a.s, "parent"), go |-> FALSE]
            ELSE LET r == a.s.ent[n].ref - 1
                     t == [a.s EXCEPT !.ent[n].ref = r, !.lru = IF r = 0 THEN Append(@, n) ELSE @]
                 IN  IF r = 0 /\ t.ent[n].state = "deleted"
                     THEN [s |-> Deleted(t, n), go |-> TRUE]
                     ELSE [s |-> t, go |-> FALSE]
    IN  FoldLeft(Step, [s |-> s, go |-> TRUE], Ancestors(s, nid)).s

\* do_replace: each entry replaced gives up its reference to its parent, which
\* may then be the next.
do_replace_KeepsParent(s) ==
    LET Step(t, i) ==
            IF Cardinality(DOMAIN t.ent) <= node_expect_size \/ t.lru = <<>> THEN t
            ELSE Dropped(t, Head(t.lru))
    IN  FoldLeft(Step, s, [i \in 1 .. Cardinality(DOMAIN s.ent) |-> i])
do_replace(s) ==
    LET Step(t, i) ==
            IF Cardinality(DOMAIN t.ent) <= node_expect_size \/ t.lru = <<>> THEN t
            ELSE LET p == t.ent[Head(t.lru)].parent
                     d == Dropped(t, Head(t.lru))
                 IN  IF p = INVALID_NID THEN d ELSE sub_refcount(d, p)
    IN  FoldLeft(Step, s, [i \in 1 .. Cardinality(DOMAIN s.ent) |-> i])

\* add: the new entry holds its parent; the caller gets a handle.
HoldParent(s, parent) ==
    IF parent = INVALID_NID THEN s
    ELSE IF IsCached(s, parent) THEN add_refcount(s, parent) ELSE Fail(s, "parent")
Inserted(s, node, nid, parent, lpa) ==
    LET old == s.reuse /\ s.stray > 0
        new == entry(node, parent, lpa, IF old THEN Dangling ELSE NoPos)
    IN  [s EXCEPT !.ent = (nid :> new) @@ @, !.stray = IF old THEN @ - 1 ELSE @]
add(s, node, nid, parent, lpa) ==
    LET t == IF IsCached(s, nid) THEN Fail(s, "cached twice") ELSE s
    IN  do_replace(add_refcount(Inserted(HoldParent(t, parent), node, nid, parent, lpa), nid))

mark_dirty(s, nid) ==
    CASE s.ent[nid].state = "dirty" -> s
      [] s.ent[nid].state = "deleted" -> Fail(s, "state")
      [] OTHER ->
         LET t == add_refcount(s, nid) IN
         [t EXCEPT !.ent[nid].state = "dirty", !.dirty = Append(@, nid),
                   !.ent[nid].pos = IF @ = NoPos THEN InDirtyList ELSE @]

\* remove_entry, under a handle.  dirty_pos keeps the place an entry had when it
\* first became dirty: if that list is a record's by now, the record loses the
\* entry and dirty_list keeps it; if the list is gone the place is wild.
remove_entry(s, nid) ==
    LET pos == s.ent[nid].pos
        t == [s EXCEPT !.ent[nid].state = "deleted"]
        forgotten == [t EXCEPT !.ent[nid].pos = NoPos]
        holder == {i \in DOMAIN s.rec : s.rec[i].tx = pos}
    IN  CASE s.ent[nid].state # "dirty" -> t
          [] s.ent[nid].state = "dirty" /\ pos = InDirtyList ->
             sub_refcount([forgotten EXCEPT !.dirty = Remove(@, nid)], nid)
          [] s.ent[nid].state = "dirty" /\ pos # InDirtyList /\ holder # {} ->
             LET i == CHOOSE i \in holder : TRUE
             IN  sub_refcount([forgotten EXCEPT !.rec[i].nids = Remove(@, nid)], nid)
          [] OTHER -> Fail(t, "dirty_pos")

\* The record of a transaction: get_and_clear_dirty_list, moved there.
get_and_clear_dirty_list(s, tx) ==
    LET D == {s.dirty[i] : i \in DOMAIN s.dirty}
        t == [s EXCEPT !.dirty = <<>>, !.rec = Append(@, [tx |-> tx, nids |-> s.dirty]),
                       !.ent = [n \in DOMAIN s.ent |->
                                  [s.ent[n] EXCEPT !.state = IF n \in D THEN "uptodate" ELSE @,
                                                   !.pos = IF @ = InDirtyList THEN tx ELSE @]]]
    IN  IF \A n \in D : s.ent[n].state = "dirty" THEN t ELSE Fail(t, "state")

\* A record is destroyed: its handles go, in the order of the list.
drop_record(s, i) ==
    FoldLeft(sub_refcount, [s EXCEPT !.rec = RemoveAt(@, i)], s.rec[i].nids)

\* A block that is not a node of the file: what get_node_entry makes of an
\* invalid id.  Its contents are outside the model; the process counts as
\* failed from here on.
WildNode ==
    [ino |-> INVALID_NID, noff |-> 0, size |-> 0,
     ptr |-> [i \in 0 .. ADDRS_PER_INODE + ADDRS_PER_BLOCK + NIDS_PER_BLOCK + 5 |-> 0]]

\* A node read from the SSD through the NAT and added to the cache.
AddFromSSD(s, nid, parent) ==
    LET lpa == IF nid = INVALID_NID THEN INVALID_LPA ELSE s.nat[nid]
        wild == lpa = INVALID_LPA
    IN  add(IF wild THEN Fail(s, "nid") ELSE s, IF wild THEN WildNode ELSE s.disk[lpa],
            nid, parent, lpa)

get_node_entry(s, nid, parent) ==
    IF IsCached(s, nid) THEN add_refcount(s, nid) ELSE AddFromSSD(s, nid, parent)

\* create_node_entry and create_inode_entry: the new node gets the first free
\* id; the rest of its block is zero.
NextNid(s) == Head(s.free)
ZeroNode(ino, noff, size) == [ino |-> ino, noff |-> noff, size |-> 0, ptr |-> [i \in 0 .. size - 1 |-> 0]]
create_node_entry(s, node, parent) ==
    mark_dirty(add([s EXCEPT !.free = Tail(@)], node, NextNid(s), parent, INVALID_LPA), NextNid(s))
===============================================================================
