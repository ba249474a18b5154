----------------------------- MODULE FileMapping -----------------------------
(***************************************************************************)
(* file_mapping_util, file_resizer, file_creator and file_deletor over the *)
(* node cache, with the write back of data blocks, nodes and the reverse   *)
(* map: the index tree of one file, from its creation to its deletion.     *)
(*                                                                         *)
(* Every action runs with fs_meta_lock held and is one step.  A size is in *)
(* half blocks, so that a resize within a block is there too.  The NAT is  *)
(* taken to read as written; MetaTables has what the NAT cache does.       *)
(***************************************************************************)
EXTENDS NodeCache

CONSTANTS
    NumNids,          \* bound: node ids
    Sizes,            \* the sizes a file is given, in half blocks
    Pages,            \* the blocks that are read and written
    MaxOps,           \* bound: calls
    MaxRecords,       \* bound: transactions whose nodes are protected
    ENTRIES_IN_SUM    \* reverse map entries per block

ASSUME TreeAssumption ==
    /\ ADDRS_PER_INODE \in Nat \ {0} /\ ADDRS_PER_BLOCK \in Nat \ {0}
    /\ NIDS_PER_BLOCK \in Nat \ {0} /\ node_expect_size \in Nat
ASSUME SizesAssumption == Sizes \subseteq Nat /\ Pages \subseteq Nat

NoPage == -1

VARIABLES
    fs,       \* the node cache, allocation and the SSD: see NodeCache
    srmap,    \* the reverse map: blocks cached, which are dirty, blocks on the SSD
    ino,      \* the file, or INVALID_NID
    ops,      \* calls made so far
    tx,       \* transactions generated so far
    page,     \* the address a page of the file keeps, NoPage for one not read
    mapped,   \* history: the address each block was given last
    deepCut   \* history: a reduce began past the first single node

vars == <<fs, srmap, ino, ops, tx, page, mapped, deepCut>>

SIZE_TO_BLOCK(size) == (size + 1) \div 2

-------------------------------------------------------------------------------
\* The index tree.
single_node_blks == ADDRS_PER_BLOCK
double_node_blks == NIDS_PER_BLOCK * ADDRS_PER_BLOCK
triple_node_blks == NIDS_PER_BLOCK * NIDS_PER_BLOCK * ADDRS_PER_BLOCK
max_blkno_limit ==
    ADDRS_PER_INODE + 2 * single_node_blks + 2 * double_node_blks + triple_node_blks
AllBlocks == 0 .. max_blkno_limit - 1

\* The index in an inode of its nid i; its addresses come first.
NidIdx(i) == ADDRS_PER_INODE + i
INODE_PTRS == ADDRS_PER_INODE + 5

\* get_node_path: the index to follow in each node on the way to a block, and
\* the number of each of these nodes in the tree.
get_node_path(block) ==
    LET N == NIDS_PER_BLOCK
        A == ADDRS_PER_BLOCK
        b1 == block - ADDRS_PER_INODE
        b2 == b1 - single_node_blks
        b3 == b2 - single_node_blks
        b4 == b3 - double_node_blks
        b5 == b4 - double_node_blks
        i == b5 \div double_node_blks
        j == (b5 \div A) % N
    IN  CASE b1 < 0 -> [offset |-> <<block>>, noffset |-> <<0>>]
          [] b1 >= 0 /\ b2 < 0 -> [offset |-> <<NidIdx(0), b1>>, noffset |-> <<0, 1>>]
          [] b2 >= 0 /\ b3 < 0 -> [offset |-> <<NidIdx(1), b2>>, noffset |-> <<0, 2>>]
          [] b3 >= 0 /\ b4 < 0 -> [offset |-> <<NidIdx(2), b3 \div A, b3 % A>>,
                                   noffset |-> <<0, 3, 4 + b3 \div A>>]
          [] b4 >= 0 /\ b5 < 0 -> [offset |-> <<NidIdx(3), b4 \div A, b4 % A>>,
                                   noffset |-> <<0, 4 + N, 5 + N + b4 \div A>>]
          [] b5 >= 0 -> [offset |-> <<NidIdx(4), i, j, b5 % A>>,
                         noffset |-> <<0, 5 + 2 * N, 6 + 2 * N + i * (N + 1), 7 + 2 * N + i * (N + 1) + j>>]

Path == [b \in AllBlocks |-> get_node_path(b)]

\* Pointers in a node of level 0, of the last level, and in between.
PtrsAt(level, last) ==
    IF level = 1 THEN INODE_PTRS ELSE IF level = last THEN ADDRS_PER_BLOCK ELSE NIDS_PER_BLOCK

SetPtr(s, nid, i, v) == [s EXCEPT !.ent[nid].node.ptr[i] = v]

\* The asserts on the footer of a node found on the way to a block.
CheckFooter(s, nid, file, noff) ==
    LET n == s.ent[nid].node IN IF n.ino = file /\ n.noff = noff THEN s ELSE Fail(s, "footer")

\* An SSD file mapping search from a node down to the block's last node; each
\* node is added to the cache, and its handle dropped.
StepDown(s, nid, off) ==
    [s |-> sub_refcount(s, nid), parent |-> nid, nid |-> s.ent[nid].node.ptr[off]]
FetchPath(s, nid, parent, path, from) ==
    LET Step(a, k) == StepDown(AddFromSSD(a.s, a.nid, a.parent), a.nid, path.offset[k])
    IN  FoldLeft(Step, [s |-> s, nid |-> nid, parent |-> parent],
                 [i \in 1 .. Len(path.offset) - from + 1 |-> from + i - 1]).s

\* A handle on the next node, from the cache or the SSD; the one on the previous
\* node goes, before a search by the SSD and after a hit.
DropParent(s, parent) == IF parent = INVALID_NID THEN s ELSE sub_refcount(s, parent)
NextNode(s, nid, parent, path, k) ==
    IF IsCached(s, nid) THEN DropParent(add_refcount(s, nid), parent)
    ELSE add_refcount(FetchPath(DropParent(s, parent), nid, parent, path, k), nid)

\* get_addr_of_block: returns a handle on the node that holds the address.
Found(a, off) == [s |-> a.s, nid |-> a.nid, off |-> off, lpa |-> a.s.ent[a.nid].node.ptr[off]]
get_addr_of_block(s, file, block) ==
    LET path == Path[block]
        last == Len(path.offset)
        Go(t, a, k) ==
            IF k = last THEN [s |-> t, nid |-> a.nid, parent |-> a.parent]
            ELSE [s |-> t, nid |-> t.ent[a.nid].node.ptr[path.offset[k]], parent |-> a.nid]
        Step(a, k) ==
            IF a.s.failed # "none" THEN a
            ELSE Go(CheckFooter(NextNode(a.s, a.nid, a.parent, path, k), a.nid, file, path.noffset[k]), a, k)
    IN  Found(FoldLeft(Step, [s |-> s, nid |-> file, parent |-> INVALID_NID], [k \in 1 .. last |-> k]),
              path.offset[last])

SetAddr(a, lpa) ==
    LET t == IF a.lpa # lpa THEN a.s ELSE Fail(a.s, "same lpa") IN SetPtr(t, a.nid, a.off, lpa)
MarkAndDrop(s, nid) == sub_refcount(mark_dirty(s, nid), nid)
MapTo_NotDirty(a, lpa) == sub_refcount(SetAddr(a, lpa), a.nid)
MapTo(a, lpa) == MarkAndDrop(SetAddr(a, lpa), a.nid)
update_block_mapping(s, file, block, lpa) == MapTo(get_addr_of_block(s, file, block), lpa)

-------------------------------------------------------------------------------
\* file_resizer::expand: the nodes on the path of every new block.
ExpandPath(s, file, block) ==
    LET path == Path[block]
        last == Len(path.offset)
        Step(a, k) ==
            LET nxt == a.s.ent[a.nid].node.ptr[path.offset[k]]
                new == NextNid(a.s)
                made == SetPtr(create_node_entry(a.s, ZeroNode(file, path.noffset[k + 1], PtrsAt(k + 1, last)), a.nid),
                               a.nid, path.offset[k], new)
            IN  IF a.s.failed # "none" THEN a
                ELSE IF nxt = INVALID_NID
                THEN [s |-> MarkAndDrop(made, a.nid), nid |-> new]
                ELSE [s |-> CheckFooter(sub_refcount(get_node_entry(a.s, nxt, a.nid), a.nid),
                                        nxt, file, path.noffset[k + 1]), nid |-> nxt]
        End(a) == sub_refcount(a.s, a.nid)
    IN  End(FoldLeft(Step, [s |-> add_refcount(s, file), nid |-> file], [k \in 1 .. last - 1 |-> k]))

\* expand and reduce, under a handle on the inode.
SetSize(s, file, size) == mark_dirty([s EXCEPT !.ent[file].node.size = size], file)
ExpandInode(s, file, size) ==
    LET cur == s.ent[file].node.size
        first == SIZE_TO_BLOCK(cur)
        Step(t, b) == IF t.failed = "none" THEN ExpandPath(t, file, b) ELSE t
    IN  IF size <= cur THEN s
        ELSE FoldLeft(Step, SetSize(s, file, size),
                      [i \in 1 .. SIZE_TO_BLOCK(size) - first |-> first + i - 1])
expand(s, file, size) == sub_refcount(ExpandInode(get_node_entry(s, file, INVALID_NID), file, size), file)

\* free_blocks_in_range, for the blocks first to last.
FreeAddrs_KeepsPtrs(s, nid, from, to) ==
    invalidate_lpas(s, {s.ent[nid].node.ptr[i] : i \in from .. to} \ {INVALID_LPA})
FreeAddrs(s, nid, from, to) ==
    LET L == {s.ent[nid].node.ptr[i] : i \in from .. to} \ {INVALID_LPA}
    IN  [invalidate_lpas(s, L) EXCEPT !.ent[nid].node.ptr =
            [i \in DOMAIN @ |-> IF i \in from .. to THEN INVALID_LPA ELSE @[i]]]

larger(a, b) == IF a > b THEN a ELSE b
smaller(a, b) == IF a < b THEN a ELSE b
Intersects(start, end, first, last) == ~(last < start \/ first > end)

proc_direct_pointers_in_inode(s, file, first, last) ==
    IF Intersects(0, ADDRS_PER_INODE - 1, first, last)
    THEN FreeAddrs(s, file, first, smaller(last, ADDRS_PER_INODE - 1)) ELSE s

proc_single_node(s, nid, start, first, last) ==
    LET end == start + single_node_blks - 1 IN
    IF Intersects(start, end, first, last)
    THEN FreeAddrs(s, nid, larger(first, start) - start, smaller(last, end) - start) ELSE s
SingleIsInvalid_OffByOne(start, first, last) ==
    Intersects(start, start + single_node_blks - 1, first, last) /\ start > first
SingleIsInvalid(start, first, last) ==
    Intersects(start, start + single_node_blks - 1, first, last) /\ start >= first

\* The end of a round: the child is deleted or marked dirty, and its handle goes.
Settle(s, nid, idx, child, invalid) ==
    IF invalid THEN sub_refcount(SetPtr(remove_entry(s, child), nid, idx, INVALID_NID), child)
    ELSE MarkAndDrop(s, child)

\* The loops of proc_double_node and proc_triple_node.  A child that ends before
\* first is skipped, and the next child is taken to start where it did.
proc_double_node(s, nid, start, first, last) ==
    LET Step(a, i) ==
            LET child == a.s.ent[nid].node.ptr[i]
                t == proc_single_node(get_node_entry(a.s, child, nid), child, a.at, first, last)
            IN  CASE a.stop \/ a.at + single_node_blks - 1 < first -> a
                  [] ~a.stop /\ a.at > last ->
                     [a EXCEPT !.stop = TRUE, !.s = IF child = INVALID_NID THEN @ ELSE Fail(@, "reduce")]
                  [] OTHER -> [s |-> Settle(t, nid, i, child, SingleIsInvalid(a.at, first, last)),
                               at |-> a.at + single_node_blks, stop |-> FALSE]
    IN  FoldLeft(Step, [s |-> s, at |-> start, stop |-> FALSE], [i \in 1 .. NIDS_PER_BLOCK |-> i - 1]).s

proc_triple_node(s, nid, start, first, last) ==
    LET Step(a, i) ==
            LET child == a.s.ent[nid].node.ptr[i]
                t == proc_double_node(get_node_entry(a.s, child, nid), child, a.at, first, last)
            IN  CASE a.stop \/ a.at + double_node_blks - 1 < first -> a
                  [] ~a.stop /\ a.at > last ->
                     [a EXCEPT !.stop = TRUE, !.s = IF child = INVALID_NID THEN @ ELSE Fail(@, "reduce")]
                  [] OTHER -> [s |-> Settle(t, nid, i, child, a.at >= first),
                               at |-> a.at + double_node_blks, stop |-> FALSE]
    IN  FoldLeft(Step, [s |-> s, at |-> start, stop |-> FALSE], [i \in 1 .. NIDS_PER_BLOCK |-> i - 1]).s

\* A round over one of the five nids of the inode: two single nodes, two double
\* nodes, the triple node, for which there is no skipping.
CutChild(s, child, i, at, first, last) ==
    CASE i < 2 -> proc_single_node(s, child, at, first, last)
      [] i \in 2 .. 3 -> proc_double_node(s, child, at, first, last)
      [] i = 4 -> proc_triple_node(s, child, at, first, last)
ChildIsInvalid(i, at, first, last) == IF i < 2 THEN SingleIsInvalid(at, first, last) ELSE at >= first
InodeRound(a, i, child, file, first, last) ==
    LET blks == IF i < 2 THEN single_node_blks ELSE double_node_blks
    IN  CASE a.stop \/ (i < 4 /\ a.at + blks - 1 < first) -> a
          [] ~a.stop /\ a.at > last -> [a EXCEPT !.stop = TRUE]
          [] OTHER -> [s |-> Settle(CutChild(get_node_entry(a.s, child, file), child, i, a.at, first, last),
                                    file, NidIdx(i), child, ChildIsInvalid(i, a.at, first, last)),
                       at |-> a.at + blks, stop |-> FALSE]
free_blocks_in_range(s, file, first, last) ==
    LET Step(a, i) == InodeRound(a, i, a.s.ent[file].node.ptr[NidIdx(i)], file, first, last)
    IN  FoldLeft(Step, [s |-> proc_direct_pointers_in_inode(s, file, first, last),
                        at |-> ADDRS_PER_INODE, stop |-> FALSE], <<0, 1, 2, 3, 4>>).s

ReduceInode(s, file, size) ==
    LET cur == s.ent[file].node.size
        first == SIZE_TO_BLOCK(size)
        last == SIZE_TO_BLOCK(cur) - 1
    IN  CASE cur <= size -> s
          [] cur > size /\ first > last -> SetSize(s, file, size)
          [] OTHER -> free_blocks_in_range(SetSize(s, file, size), file, first, last)
reduce(s, file, size) == sub_refcount(ReduceInode(get_node_entry(s, file, INVALID_NID), file, size), file)

-------------------------------------------------------------------------------
\* srmap_utils: [ssd, cache, blks, dirty]; ssd and cache give an owner to the
\* addresses that have had one.
SrmapBlk(lpa) == lpa \div ENTRIES_IN_SUM
InBlk(f, B) == Restrict(f, {lpa \in DOMAIN f : SrmapBlk(lpa) \in B})
get_srmap_blk_Fresh(m, blk) == [m EXCEPT !.blks = @ \cup {blk}]
get_srmap_blk(m, blk) ==
    IF blk \in m.blks THEN m
    ELSE [m EXCEPT !.blks = @ \cup {blk}, !.cache = InBlk(m.ssd, {blk}) @@ @]
write_srmap(m, lpa, owner) ==
    [get_srmap_blk(m, SrmapBlk(lpa)) EXCEPT !.cache = (lpa :> owner) @@ @, !.dirty = @ \cup {SrmapBlk(lpa)}]
\* write_dirty_srmap_sync and clear_cache.
WriteSrmap(m) ==
    [ssd |-> InBlk(m.cache, m.dirty) @@ InBlk(m.ssd, {SrmapBlk(l) : l \in DOMAIN m.ssd} \ m.dirty),
     cache |-> <<>>, blks |-> {}, dirty |-> {}]

\* do_write_back_async: a new address for a block that had the address old.
NewLpa(s) == s.lpas + 1
MoveBlock(s, old) ==
    LET t == invalidate_lpas(s, {old} \ {INVALID_LPA})
    IN  [t EXCEPT !.lpas = @ + 1, !.valid = @ \cup {NewLpa(s)}]

\* write_meta_back_sync on one node.
WriteNode(s, nid) ==
    [MoveBlock(s, s.ent[nid].lpa) EXCEPT !.ent[nid].lpa = NewLpa(s), !.nat[nid] = NewLpa(s),
                                         !.disk = (NewLpa(s) :> s.ent[nid].node) @@ @]

-------------------------------------------------------------------------------
NoFiles ==
    [ent |-> <<>>, lru |-> <<>>, dirty |-> <<>>, rec |-> <<>>, stray |-> 0, reuse |-> FALSE,
     free |-> [i \in 1 .. NumNids |-> i], valid |-> {}, lpas |-> 0,
     nat |-> [n \in 1 .. NumNids |-> INVALID_LPA], disk |-> <<>>, failed |-> "none"]

\* What an earlier run that created a file of the given size left on the SSD.
FileOf(size) ==
    LET new == create_node_entry(NoFiles, ZeroNode(1, 0, INODE_PTRS), INVALID_NID)
        Written(t) == FoldLeft(WriteNode, t, t.dirty)
        Left(t) == [NoFiles EXCEPT !.free = t.free, !.valid = t.valid, !.lpas = t.lpas, !.nat = t.nat,
                                   !.disk = t.disk]
    IN  Left(Written(expand(new, 1, size)))
SrmapOf(s) ==
    [ssd |-> [l \in s.valid |-> [nid |-> CHOOSE n \in 1 .. NumNids : s.nat[n] = l, ofs |-> 0]],
     cache |-> <<>>, blks |-> {}, dirty |-> {}]

Init ==
    /\ \/ ino = INVALID_NID /\ fs = NoFiles
       \/ ino = 1 /\ fs \in {FileOf(z) : z \in Sizes}
    /\ srmap = SrmapOf(fs)
    /\ ops = 0 /\ tx = 0 /\ page = [b \in Pages |-> NoPage]
    /\ mapped = [b \in AllBlocks |-> INVALID_LPA] /\ deepCut = FALSE

\* A call begins: entries it allocates may be where earlier ones were.
Settled(s) == [s EXCEPT !.reuse = FALSE]
Calls == {[fs EXCEPT !.reuse = r] : r \in {FALSE, fs.stray > 0}}

\* create_generic_file, whose caller drops the handle.
create_generic_file(s) ==
    /\ ino = INVALID_NID
    /\ LET t == create_node_entry(s, ZeroNode(NextNid(s), 0, INODE_PTRS), INVALID_NID)
       IN  fs' = Settled(sub_refcount(t, NextNid(s)))
    /\ ino' = NextNid(s)
    /\ UNCHANGED <<srmap, tx, page, mapped, deepCut>>

SizeNow == IF IsCached(fs, ino) THEN fs.ent[ino].node.size ELSE fs.disk[fs.nat[ino]].size

Resized(s, file, cur, size) == IF cur < size THEN expand(s, file, size) ELSE reduce(s, file, size)

\* file::truncate; the blocks cut off have no address any more, but their clean
\* pages keep the one they had.
truncate(s, size) ==
    /\ ino # INVALID_NID /\ size # SizeNow
    /\ fs' = Settled(sub_refcount(Resized(get_node_entry(s, ino, INVALID_NID), ino, SizeNow, size), ino))
    /\ mapped' = [b \in AllBlocks |-> IF b < SIZE_TO_BLOCK(size) THEN mapped[b] ELSE INVALID_LPA]
    /\ deepCut' = (deepCut \/ (/\ SIZE_TO_BLOCK(size) < SIZE_TO_BLOCK(SizeNow)
                               /\ SIZE_TO_BLOCK(size) >= ADDRS_PER_INODE + single_node_blks))
    /\ UNCHANGED <<srmap, ino, tx, page>>

\* prepare_page_content on a new page: the address of a block within the file.
prepare_page_content(s, b) ==
    /\ ino # INVALID_NID /\ b < SIZE_TO_BLOCK(SizeNow)
    /\ \E a \in {get_addr_of_block(get_node_entry(s, ino, INVALID_NID), ino, b)} :
          /\ fs' = Settled(sub_refcount(sub_refcount(a.s, a.nid), ino))
          /\ page' = [page EXCEPT ![b] = a.lpa]
    /\ UNCHANGED <<srmap, ino, tx, mapped, deepCut>>

\* file::write_back with the file grown to size and one page dirty.  The page
\* was obtained for the write, with the address of its block, or is there since
\* an earlier call, with an address that a truncate may have freed.
OldAddrs(b) == {mapped[b], page[b]} \ {NoPage}
CheckPage(s, lpa) == IF lpa \in s.valid \cup {INVALID_LPA} THEN s ELSE Fail(s, "page")
write_back(s, size, b) ==
    /\ ino # INVALID_NID /\ b < SIZE_TO_BLOCK(larger(size, SizeNow))
    /\ \E t \in {get_node_entry(s, ino, INVALID_NID)}, old \in OldAddrs(b) :
       \E m \in {MarkAndDrop(IF size > SizeNow THEN expand(t, ino, size) ELSE t, ino)} :
          fs' = Settled(update_block_mapping(MoveBlock(CheckPage(m, old), old), ino, b, NewLpa(m)))
    /\ srmap' = write_srmap(srmap, NewLpa(fs), [nid |-> ino, ofs |-> b])
    /\ page' = [page EXCEPT ![b] = NewLpa(fs)]
    /\ mapped' = [mapped EXCEPT ![b] = NewLpa(fs)]
    /\ UNCHANGED <<ino, tx, deepCut>>

\* write_meta_back_sync: nodes, reverse map, the record of the transaction.
write_meta_back_sync ==
    /\ fs.dirty # <<>> /\ Len(fs.rec) < MaxRecords
    /\ LET cleared == get_and_clear_dirty_list(fs, tx + 1)
           first == fs.lpas
           Owner(i) == [nid |-> fs.dirty[i], ofs |-> 0]
       IN  /\ fs' = FoldLeft(WriteNode, cleared, fs.dirty)
           /\ srmap' = WriteSrmap(FoldLeft(LAMBDA m, i : write_srmap(m, first + i, Owner(i)), srmap,
                                           [i \in DOMAIN fs.dirty |-> i]))
    /\ tx' = tx + 1
    /\ UNCHANGED <<ino, page, mapped, deepCut>>

\* file_deletor::delete_file.
delete_file(s) ==
    /\ ino # INVALID_NID
    /\ fs' = Settled(sub_refcount(remove_entry(get_node_entry(reduce(s, ino, 0), ino, INVALID_NID), ino), ino))
    /\ ino' = INVALID_NID
    /\ page' = [b \in Pages |-> NoPage]
    /\ mapped' = [b \in AllBlocks |-> INVALID_LPA]
    /\ UNCHANGED <<srmap, tx, deepCut>>

\* The task of an applied transaction drops the handles of its record.
ReleaseRecord ==
    /\ fs.rec # <<>>
    /\ fs' = drop_record(fs, 1)
    /\ UNCHANGED <<srmap, ino, tx, page, mapped, deepCut>>

Next ==
    /\ fs.failed = "none" /\ ops < MaxOps /\ ops' = ops + 1
    /\ \/ \E s \in Calls : \/ create_generic_file(s) \/ delete_file(s)
                           \/ \E z \in Sizes : truncate(s, z)
                           \/ \E b \in Pages : prepare_page_content(s, b)
                           \/ \E z \in Sizes, b \in Pages : write_back(s, z, b)
       \/ write_meta_back_sync
       \/ ReleaseRecord

Spec == Init /\ [][Next]_vars
-------------------------------------------------------------------------------
\* A node as the host sees it.
NodeOf(nid) == IF IsCached(fs, nid) THEN fs.ent[nid].node ELSE fs.disk[fs.nat[nid]]

\* The walk from the inode to each block: the node ids on the way, or 0.
Walks ==
    LET Step(w, i) == Append(w, IF Last(w) = INVALID_NID THEN INVALID_NID ELSE NodeOf(Last(w)).ptr[i])
    IN  [b \in AllBlocks |-> FoldLeft(Step, <<ino>>, Front(Path[b].offset))]
TreeNids(W) == UNION {ToSet(W[b]) : b \in AllBlocks} \ {INVALID_NID}
AddrOf(W, b) ==
    IF Last(W[b]) = INVALID_NID THEN INVALID_LPA ELSE NodeOf(Last(W[b])).ptr[Last(Path[b].offset)]

\* The first block whose path goes through node number n.
FirstOf == [n \in UNION {ToSet(Path[b].noffset) : b \in AllBlocks} |->
              CHOOSE b \in AllBlocks : /\ Contains(Path[b].noffset, n)
                                       /\ \A c \in 0 .. b - 1 : ~Contains(Path[c].noffset, n)]

Sound == fs.failed = "none" /\ ino # INVALID_NID /\ ~deepCut

\* The tree has a node exactly where the file's size calls for one, whatever
\* resizes, replacements and reloads came before, each under its own number.
TreeMatchesSize ==
    Sound => LET W == Walks IN
        \A b \in AllBlocks : \A k \in DOMAIN W[b] :
            LET n == Path[b].noffset[k]
                needed == n = 0 \/ FirstOf[n] < SIZE_TO_BLOCK(SizeNow)
            IN  /\ W[b][k] # INVALID_NID <=> needed
                /\ needed => NodeOf(W[b][k]).noff = n

\* Every block is found at the address it was given last, and a block beyond
\* the size has none.
BlocksFound == Sound => LET W == Walks IN \A b \in AllBlocks : AddrOf(W, b) = mapped[b]

\* References to an entry: of dirty_list, of records, of children.
Refs(nid) ==
    Cardinality({i \in DOMAIN fs.dirty : fs.dirty[i] = nid})
    + Cardinality({r \in DOMAIN fs.rec : Contains(fs.rec[r].nids, nid)})
    + Cardinality({c \in DOMAIN fs.ent : fs.ent[c].parent = nid})

\* Between calls each entry is counted exactly by what refers to it, is pinned
\* while it is, and has its parent in the cache: no node is replaced from under
\* its children, its changes or the transaction that writes it.
RefsAccounted ==
    fs.failed = "none" => \A nid \in DOMAIN fs.ent :
        /\ fs.ent[nid].ref = Refs(nid)
        /\ Contains(fs.lru, nid) <=> fs.ent[nid].ref = 0
        /\ fs.ent[nid].parent # INVALID_NID => fs.ent[nid].parent \in DOMAIN fs.ent

\* Node ids and addresses are neither lost nor given away twice: an id is free,
\* or of a node of the tree, or of a deleted node that something still refers
\* to; an address is valid as long as such a node, or a block of the tree, is
\* there.
NothingLeaks ==
    fs.failed = "none" /\ ~deepCut =>
        LET W == Walks
            live == IF ino = INVALID_NID THEN {} ELSE TreeNids(W)
            dying == {n \in DOMAIN fs.ent : fs.ent[n].state = "deleted"}
            lpaOf(n) == IF IsCached(fs, n) THEN fs.ent[n].lpa ELSE fs.nat[n]
            data == IF ino = INVALID_NID THEN {} ELSE {AddrOf(W, b) : b \in AllBlocks}
        IN  /\ live \cap dying = {} /\ (live \cup dying) \cap ToSet(fs.free) = {}
            /\ Len(fs.free) + Cardinality(live \cup dying) = NumNids
            /\ fs.valid = ({lpaOf(n) : n \in live \cup dying} \cup data) \ {INVALID_LPA}

\* When nothing is dirty, the SSD has the tree the host has, and the reverse map
\* names the owner of each of its blocks: whatever changed a node marked it, and
\* writing the reverse map a block at a time loses no entry.
CleanMeansSaved ==
    Sound /\ fs.dirty = <<>> => LET W == Walks IN
        /\ \A nid \in TreeNids(W) :
             /\ fs.nat[nid] # INVALID_LPA /\ fs.disk[fs.nat[nid]] = NodeOf(nid)
             /\ fs.nat[nid] \in DOMAIN srmap.ssd /\ srmap.ssd[fs.nat[nid]].nid = nid
        /\ \A b \in AllBlocks : AddrOf(W, b) # INVALID_LPA =>
             AddrOf(W, b) \in DOMAIN srmap.ssd /\ srmap.ssd[AddrOf(W, b)] = [nid |-> ino, ofs |-> b]

\* The asserts of the node cache and of the resizer hold but for three defects:
\* a resize that begins past the first single node, the places dirty_pos keeps
\* after a write back, and the address a page keeps after a truncate.
AssertsHold == fs.failed \in {"none", "state", "dirty_pos", "page"} \/ deepCut

\* No resize asks for a node that is not there or misplaces the others
\* (violated: a resize that begins past the first single node does).
ResizeAssertsHold == fs.failed \in {"none", "state", "dirty_pos", "page"}

\* A node that is written back, changed and deleted is in no list of dirty
\* nodes (violated: dirty_pos is not cleared by a write back).
DirtyListExact == fs.failed \notin {"state", "dirty_pos"}
===============================================================================
