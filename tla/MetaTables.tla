------------------------------ MODULE MetaTables ------------------------------
(***************************************************************************)
(* The metadata tables and their journal: super_manager (node ids,         *)
(* segments and block addresses), SIT_operator and nat_lpa_mapping working *)
(* on the super block and on cached SIT and NAT blocks, write_back_helper  *)
(* committing the accumulated journal as a transaction, the SSD applying   *)
(* transactions in order, and the replace-protect task that follows.       *)
(*                                                                         *)
(* Everything on the host runs under fs_meta_lock, so each operation is    *)
(* one step on the record host.  I/O errors are not modelled.  The node    *)
(* cache's dirty list does what its comments say, and no node is replaced  *)
(* from the node cache.  A crash may come at any state: what is then left  *)
(* is ssd and the transactions in txs that are not applied yet.            *)
(***************************************************************************)
EXTENDS VersionCache, Bitwise

CONSTANTS
    NidCount, NidsPerBlock,     \* node ids are 1 .. NidCount; 1 is the root
    SegCount, SegsPerBlock,     \* segment ids are 1 .. SegCount
    BlocksPerSegment,
    NatCacheSize, SitCacheSize, \* expected cache sizes, in blocks
    MaxOps, MaxTx               \* bounds: operations, transactions

ASSUME SizeAssumption ==
    /\ NidCount > 1 /\ SegCount > 3 /\ BlocksPerSegment > 1
    /\ NidsPerBlock > 0 /\ SegsPerBlock > 0

VARIABLES
    host,           \* the host's tables and journal, see Init
    in_use,         \* nodes that exist
    dirty_nodes,    \* node_block_cache's dirty list
    deleted,        \* deleted nodes still held by a transaction's record
    dirty_data,     \* dirty data blocks of the root directory
    txs,            \* transactions whose protection is not released, oldest first
    ssd,            \* [super, nat, sit]: the tables as the SSD has applied them
    listed,         \* history: per type, the segments handed to its segment list
    failed,         \* history: some operation ended in an exception
    is_unrecoverable, ops, committed

nodeVars == <<in_use, dirty_nodes, deleted, dirty_data>>
vars == <<host, nodeVars, txs, ssd, listed, failed, is_unrecoverable, ops, committed>>

Nids == 1 .. NidCount
Segs == 1 .. SegCount
Nil == 0                \* INVALID_NID, INVALID_SEGID
NoLpa == 0              \* INVALID_LPA
Types == {"node", "data"}
DataBlocks == {0, 1}    \* the blocks of the root directory

\* get_nid_pos_in_nat, get_segid_pos_in_sit: the table block of an entry.
NatBlockOf(n) == n \div NidsPerBlock
SitBlockOf(s) == s \div SegsPerBlock

LpaOf(s, off) == s * BlocksPerSegment + off
SegOf(lpa) == lpa \div BlocksPerSegment
OffOf(lpa) == lpa % BlocksPerSegment

NatBlock(b) == Restrict(ssd.nat, {n \in Nids : NatBlockOf(n) = b})
SitBlock(b) == Restrict(ssd.sit, {s \in Segs : SitBlockOf(s) = b})

EmptyJournal == [super |-> <<>>, nat |-> <<>>, sit |-> <<>>]
NoSegs == [ty \in Types |-> <<>>]

\* What mkfs leaves: the root's node in segment 1, its two data blocks in
\* segment 2, the other segments and node ids chained in order.
FormattedSuper ==
    [next_free_nid |-> 2, first_free_segment_id |-> 3, free_segment_count |-> SegCount - 2,
     current_node_segment_id |-> 1, current_node_segment_blkoff |-> 1,
     current_data_segment_id |-> 2, current_data_segment_blkoff |-> 2,
     first_node_segment_id |-> Nil, first_data_segment_id |-> Nil]
FormattedNat ==
    [n \in Nids |-> IF n = 1 THEN [ino |-> 1, block_addr |-> LpaOf(1, 0)]
                    ELSE [ino |-> 0, block_addr |-> IF n = NidCount THEN Nil ELSE n + 1]]
FormattedSit ==
    [s \in Segs |-> IF s = 1 THEN [valid |-> {0}, vblocks |-> 1, next |-> Nil]
                    ELSE IF s = 2 THEN [valid |-> {0, 1}, vblocks |-> 2, next |-> Nil]
                    ELSE [valid |-> {}, vblocks |-> 0,
                          next |-> IF s = SegCount THEN Nil ELSE s + 1]]

\* A node's or data block's address in its cache entry is NoLpa before its
\* first write back.  threw: the operation under way ended in an exception.
Init ==
    /\ ssd = [super |-> FormattedSuper, nat |-> FormattedNat, sit |-> FormattedSit]
    /\ host = [super |-> FormattedSuper, nat |-> EmptyCache, sit |-> EmptyCache,
               journal |-> EmptyJournal, uncommit |-> NoSegs, asserts |-> TRUE, threw |-> FALSE,
               node_lpa |-> [n \in Nids |-> IF n = 1 THEN LpaOf(1, 0) ELSE NoLpa],
               data_lpa |-> [d \in DataBlocks |-> LpaOf(2, d)]]
    /\ in_use = {1} /\ dirty_nodes = <<>> /\ deleted = {} /\ dirty_data = {}
    /\ txs = <<>> /\ listed = NoSegs
    /\ failed = FALSE /\ is_unrecoverable = FALSE /\ ops = 0 /\ committed = 0

-------------------------------------------------------------------------------
(* Steps on the host's tables: each maps one value of host to the next.    *)

Expect(h, cond) == [h EXCEPT !.asserts = @ /\ cond]

\* A super block field with its journal entry.
SetSuper_NotJournalled(h, f, v) == [h EXCEPT !.super[f] = v]
SetSuper(h, f, v) == [h EXCEPT !.super[f] = v, !.journal.super = (f :> v) @@ @]

NatEntry(h, n) == IF Cached(h.nat, NatBlockOf(n)) THEN h.nat.data[NatBlockOf(n)][n] ELSE ssd.nat[n]
SitEntry(h, s) == IF Cached(h.sit, SitBlockOf(s)) THEN h.sit.data[SitBlockOf(s)][s] ELSE ssd.sit[s]

\* A handle on the entry's block, the entry changed to e, journalled as j and
\* counted as a host version, the handle dropped.
ChangeNat(h, n, e, j) ==
    LET b == NatBlockOf(n)
        c == get(h.nat, b, NatBlock(b), NatCacheSize)
        d == add_host_version([c EXCEPT !.data[b][n] = e], b)
    IN  [h EXCEPT !.nat = sub_refcount(d, b, NatCacheSize),
                  !.journal.nat = Append(@, [id |-> n, val |-> j])]

WithSitHandle(h, s, Use(_)) ==
    LET b == SitBlockOf(s)
        c == get(h.sit, b, SitBlock(b), SitCacheSize)
    IN  [h EXCEPT !.sit = sub_refcount(Use(c), b, SitCacheSize)]

alloc_nid(h, ino) ==
    LET n   == h.super.next_free_nid
        old == NatEntry(h, n)
        e   == [ino |-> ino, block_addr |-> NoLpa]
    IN  ChangeNat(SetSuper(Expect(h, old.ino = 0), "next_free_nid", old.block_addr), n, e, e)

free_nid(h, n) ==
    LET e == [ino |-> 0, block_addr |-> h.super.next_free_nid]
    IN  ChangeNat(SetSuper(h, "next_free_nid", n), n, e, e)

\* The entry is copied, so the journal gets the new address and the cached
\* block does not.
set_lpa_of_nid(h, n, lpa) ==
    LET old == NatEntry(h, n)
    IN  ChangeNat(h, n, old, [old EXCEPT !.block_addr = lpa])

\* The field counts at most one block less than a segment has.
MaxVblocks == BlocksPerSegment - 1

change_lpa_state(h, lpa, valid) ==
    LET s   == SegOf(lpa)
        old == SitEntry(h, s)
        new == [old EXCEPT
                  !.valid = IF valid THEN @ \cup {OffOf(lpa)} ELSE @ \ {OffOf(lpa)},
                  !.vblocks = IF valid THEN IF @ < MaxVblocks THEN @ + 1 ELSE @
                              ELSE IF @ > 0 THEN @ - 1 ELSE @]
        Use(c) == add_host_version([c EXCEPT !.data[SitBlockOf(s)][s] = new], SitBlockOf(s))
    IN  IF lpa = NoLpa THEN h
        ELSE [WithSitHandle(Expect(h, (OffOf(lpa) \in old.valid) # valid), s, Use)
                EXCEPT !.journal.sit = Append(@, [id |-> s, val |-> new])]

\* alloc_segment, with a free segment left: the head of the free chain.
alloc_segment(h) ==
    LET s   == h.super.first_free_segment_id
        old == SitEntry(h, s)
        Use(c) == c
        g   == WithSitHandle(Expect(h, old.vblocks = 0), s, Use)
    IN  SetSuper(SetSuper(g, "first_free_segment_id", old.next),
                 "free_segment_count", h.super.free_segment_count - 1)

\* The fields of the active segment of each type (create_lpa_alloc_context).
CurSeg(ty) == IF ty = "node" THEN "current_node_segment_id" ELSE "current_data_segment_id"
CurOff(ty) == IF ty = "node" THEN "current_node_segment_blkoff" ELSE "current_data_segment_blkoff"
FirstSeg(ty) == IF ty = "node" THEN "first_node_segment_id" ELSE "first_data_segment_id"

SegmentFull(h, ty) == h.super[CurOff(ty)] = BlocksPerSegment

PushUncommit(h, ty) == [h EXCEPT !.uncommit[ty] = Append(@, h.super[CurSeg(ty)])]

\* alloc_lpa_inner up to the choice of segment: a full one goes to the
\* uncommitted list and a new one becomes active.
NextSegment_Forgets(h, ty) ==
    LET g == alloc_segment(h)
    IN  SetSuper([g EXCEPT !.super[CurOff(ty)] = 0], CurSeg(ty), h.super.first_free_segment_id)
NextSegment(h, ty) ==
    LET g == alloc_segment(PushUncommit(h, ty))
    IN  SetSuper([g EXCEPT !.super[CurOff(ty)] = 0], CurSeg(ty), h.super.first_free_segment_id)

alloc_lpa_inner_NoAdvance(h, ty) ==
    LET g == IF SegmentFull(h, ty) THEN NextSegment(h, ty) ELSE h
    IN  change_lpa_state(g, LpaOf(g.super[CurSeg(ty)], g.super[CurOff(ty)]), TRUE)
\* With no free segment left, no_free_segment is thrown after the full one
\* went to the uncommitted list.
alloc_lpa_inner(h, ty) ==
    LET g   == IF SegmentFull(h, ty) THEN NextSegment(h, ty) ELSE h
        off == g.super[CurOff(ty)]
    IN  IF SegmentFull(h, ty) /\ h.super.free_segment_count = 0
        THEN [PushUncommit(h, ty) EXCEPT !.threw = TRUE]
        ELSE change_lpa_state(SetSuper(g, CurOff(ty), off + 1),
                              LpaOf(g.super[CurSeg(ty)], off), TRUE)

\* The lpa alloc_lpa_inner has just returned.
AllocatedLpa(h, ty) == LpaOf(h.super[CurSeg(ty)], h.super[CurOff(ty)] - 1)

\* add_seg_to_list: SET_NEXT_SEG ors the list head into the next field, and
\* the SIT journal entry has no host version.
add_seg_to_list(h, s, ty) ==
    LET new == [SitEntry(h, s) EXCEPT !.next = @ | h.super[FirstSeg(ty)]]
        Use(c) == [c EXCEPT !.data[SitBlockOf(s)][s] = new]
    IN  [SetSuper(WithSitHandle(h, s, Use), FirstSeg(ty), s)
            EXCEPT !.journal.sit = Append(@, [id |-> s, val |-> new])]

\* do_write_back_async of a block whose address was lpa, and the NAT update of
\* a node.
WriteBackNode(h, n) ==
    LET g   == alloc_lpa_inner(h, "node")
        lpa == AllocatedLpa(g, "node")
    IN  IF h.threw THEN h ELSE IF g.threw THEN g
        ELSE set_lpa_of_nid([change_lpa_state(g, g.node_lpa[n], FALSE) EXCEPT !.node_lpa[n] = lpa],
                            n, lpa)

WriteBackData(h, d) ==
    LET g == alloc_lpa_inner(h, "data")
    IN  IF h.threw THEN h ELSE IF g.threw THEN g
        ELSE [change_lpa_state(g, g.data_lpa[d], FALSE)
                EXCEPT !.data_lpa[d] = AllocatedLpa(g, "data")]

\* The last handle on a deleted node goes (node_block_cache::sub_refcount).
FreeNode_KeepsBlock(h, n) == free_nid(h, n)
FreeNode(h, n) == change_lpa_state(free_nid(h, n), h.node_lpa[n], FALSE)

-------------------------------------------------------------------------------
(* Operations.                                                             *)

\* check_state refuses every operation once the state is unrecoverable.
Operation == ~is_unrecoverable /\ ops < MaxOps /\ ops' = ops + 1

\* convert_to_errno: an exception that no error code stands for makes the
\* state unrecoverable, through a pointer that is never initialised.
HandleException == is_unrecoverable' \in BOOLEAN /\ failed' = TRUE

MarkDirty(n) == IF Contains(dirty_nodes, n) THEN dirty_nodes ELSE Append(dirty_nodes, n)

\* A new inode (ino Nil) or index node.
CreateNode(ino) ==
    LET n == host.super.next_free_nid
        h == alloc_nid(host, IF ino = Nil THEN n ELSE ino)
    IN  /\ Operation /\ n # Nil
        /\ host' = [h EXCEPT !.node_lpa[n] = NoLpa]
        /\ in_use' = in_use \cup {n} /\ dirty_nodes' = MarkDirty(n)
        /\ UNCHANGED <<deleted, dirty_data, txs, ssd, listed, failed, is_unrecoverable, committed>>

\* no_free_nid.
CreateFails ==
    /\ Operation /\ host.super.next_free_nid = Nil /\ HandleException
    /\ UNCHANGED <<host, nodeVars, txs, ssd, listed, committed>>

ChangeNode(n) ==
    /\ Operation /\ ~Contains(dirty_nodes, n) /\ dirty_nodes' = MarkDirty(n)
    /\ UNCHANGED <<host, in_use, deleted, dirty_data, txs, ssd, listed, failed, is_unrecoverable, committed>>

ChangeData(d) ==
    /\ Operation /\ d \notin dirty_data /\ dirty_data' = dirty_data \cup {d}
    /\ UNCHANGED <<host, in_use, dirty_nodes, deleted, txs, ssd, listed, failed, is_unrecoverable, committed>>

Held(records, n) == \E i \in 1 .. Len(records) : Contains(records[i].nodes, n)

\* A deleted node is no longer dirty, and is freed when nobody holds it.
DeleteNode(n) ==
    /\ Operation /\ n # 1
    /\ in_use' = in_use \ {n} /\ dirty_nodes' = Remove(dirty_nodes, n)
    /\ deleted' = IF Held(txs, n) THEN deleted \cup {n} ELSE deleted
    /\ host' = IF Held(txs, n) THEN host ELSE FreeNode(host, n)
    /\ UNCHANGED <<dirty_data, txs, ssd, listed, failed, is_unrecoverable, committed>>

\* write_meta_back_sync: dirty directory blocks, whose new addresses dirty the
\* root's node, then dirty nodes, then the journal as a transaction.
AfterData == FoldLeft(WriteBackData, host, SetToSortSeq(dirty_data, <))
NodesToWrite == IF dirty_data = {} THEN dirty_nodes ELSE MarkDirty(1)
AfterNodes == FoldLeft(WriteBackNode, AfterData, NodesToWrite)

write_meta_back_sync ==
    /\ committed < MaxTx
    /\ ~AfterNodes.threw /\ AfterNodes.journal # EmptyJournal
    /\ txs' = Append(txs, [journal |-> AfterNodes.journal, uncommit |-> AfterNodes.uncommit,
                           nodes |-> NodesToWrite, applied |-> FALSE])
    /\ host' = [AfterNodes EXCEPT !.journal = EmptyJournal, !.uncommit = NoSegs]
    /\ dirty_nodes' = <<>> /\ dirty_data' = {}
    /\ committed' = committed + 1
    /\ UNCHANGED <<in_use, deleted, ssd, listed, failed, is_unrecoverable, ops>>

\* The same, out of segments: what was written stays allocated, a directory
\* block that was written has dirtied the root's node, what was taken off the
\* dirty lists stays off, and nothing is committed.
WriteBackFails ==
    /\ Operation /\ AfterNodes.threw /\ HandleException
    /\ host' = [AfterNodes EXCEPT !.threw = FALSE]
    /\ dirty_nodes' = IF ~AfterData.threw THEN <<>>
                      ELSE IF AfterData.data_lpa = host.data_lpa THEN dirty_nodes ELSE MarkDirty(1)
    /\ dirty_data' = {}
    /\ UNCHANGED <<in_use, deleted, txs, ssd, listed, committed>>

-------------------------------------------------------------------------------
(* The SSD, and the replace-protect task.                                  *)

\* Journal entries applied to a table in order: the last one for an id stands.
Replay(table, entries) == FoldLeft(LAMBDA t, e : [t EXCEPT ![e.id] = e.val], table, entries)

ReplayTx(tables, j) ==
    [super |-> j.super @@ tables.super, nat |-> Replay(tables.nat, j.nat),
     sit |-> Replay(tables.sit, j.sit)]

SSDApply ==
    \E i \in 1 .. Len(txs) :
        /\ ~txs[i].applied /\ \A k \in 1 .. (i - 1) : txs[k].applied
        /\ ssd' = ReplayTx(ssd, txs[i].journal)
        /\ txs' = [txs EXCEPT ![i].applied = TRUE]
        /\ UNCHANGED <<host, nodeVars, listed, failed, is_unrecoverable, ops, committed>>

\* replace_protect_task::operator(): one SSD version per NAT and SIT journal
\* entry, the transaction's full segments go to the segment lists, and its
\* handles are dropped, which frees the deleted nodes nobody else holds.
ReleaseNat(h, e) ==
    LET b == NatBlockOf(e.id) IN
    [h EXCEPT !.nat = add_SSD_version(@, b, NatBlock(b), NatCacheSize)]
ReleaseSit(h, e) ==
    LET b == SitBlockOf(e.id) IN
    [h EXCEPT !.sit = add_SSD_version(@, b, SitBlock(b), SitCacheSize)]

replace_protect_task ==
    LET tx == Head(txs)
        g  == FoldLeft(ReleaseSit, FoldLeft(ReleaseNat, host, tx.journal.nat), tx.journal.sit)
        n  == FoldLeft(LAMBDA h, s : add_seg_to_list(h, s, "node"), g, tx.uncommit["node"])
        d  == FoldLeft(LAMBDA h, s : add_seg_to_list(h, s, "data"), n, tx.uncommit["data"])
        Freed(x) == x \in deleted /\ ~Held(Tail(txs), x)
    IN  /\ txs # <<>> /\ tx.applied
        /\ host' = FoldLeft(FreeNode, d, SelectSeq(tx.nodes, Freed))
        /\ deleted' = {x \in deleted : Held(Tail(txs), x)}
        /\ txs' = Tail(txs)
        /\ listed' = [ty \in Types |-> tx.uncommit[ty] \o listed[ty]]
        /\ UNCHANGED <<in_use, dirty_nodes, dirty_data, ssd, failed, is_unrecoverable, ops, committed>>

Next ==
    \/ \E ino \in in_use \cup {Nil} : CreateNode(ino)
    \/ CreateFails
    \/ \E n \in in_use : ChangeNode(n) \/ DeleteNode(n)
    \/ \E d \in DataBlocks : ChangeData(d)
    \/ write_meta_back_sync \/ WriteBackFails
    \/ SSDApply \/ replace_protect_task

Spec == Init /\ [][Next]_vars

-------------------------------------------------------------------------------
(* Properties.                                                             *)

\* The assertions in alloc_nid, alloc_segment and change_lpa_state hold: no
\* node id or segment is allocated twice, no block validated or freed twice.
AssertionsHold == host.asserts

\* The tables as they will be once everything journalled is applied.
Final ==
    LET step(t, tx) == IF tx.applied THEN t ELSE ReplayTx(t, tx.journal)
    IN  ReplayTx(FoldLeft(step, ssd, txs), host.journal)

\* What the host reads from the SIT, from the cache or else from the SSD, is
\* what it has journalled; the same holds of the super block.  This is what
\* replace protection is for: a SIT_NAT_cache entry whose changes the SSD has
\* not applied is pinned and never replaced.
SitCoherent ==
    /\ \A s \in Segs : SitEntry(host, s) = Final.sit[s]
    /\ \A f \in DOMAIN host.super : host.super[f] = Final.super[f]

\* Between operations, and until one fails, the blocks marked valid are
\* exactly those of the nodes that exist or wait to be freed and of the
\* directory, no two in one block: none leaks, none is handed out twice.
BlocksAccounted ==
    LET used == {n \in in_use \cup deleted : host.node_lpa[n] # NoLpa}
        live == {host.node_lpa[n] : n \in used} \cup Range(host.data_lpa)
    IN  ~failed =>
          /\ Cardinality(live) = Cardinality(used) + Cardinality(DataBlocks)
          /\ \A s \in Segs : SitEntry(host, s).valid = {OffOf(l) : l \in {x \in live : SegOf(x) = s}}

\* set_lpa_of_nid's comment, "change the address of nid's entry in the NAT
\* table": what the host reads from the NAT is what it has journalled.
NatCoherent == \A n \in Nids : NatEntry(host, n) = Final.nat[n]

\* The ids met from id first on, following next to the first value that is
\* no id, at most as many as there are.
Chain(first, next, n) ==
    LET at[i \in 0 .. n] == IF i = 0 THEN first ELSE IF at[i - 1] \in DOMAIN next THEN next[at[i - 1]] ELSE Nil
    IN  SelectSeq([i \in 1 .. (n + 1) |-> at[i - 1]], LAMBDA x : x # Nil)

IsChainOf(q, S) == ToSet(q) = S /\ Len(q) = Cardinality(S)

\* The tables on the SSD make sense after every transaction, so whenever the
\* host stops: the free node ids form one chain, every node with an address
\* has it to itself and marked valid, the free segments form one chain of
\* free_segment_count empty ones apart from the active ones, and nothing is
\* valid beyond the allocation point of an active segment.
SSDConsistent ==
    LET nat == ssd.nat  sit == ssd.sit  sup == ssd.super
        free == Chain(sup.first_free_segment_id, [s \in Segs |-> sit[s].next], SegCount)
        placed == {n \in Nids : nat[n].ino # 0 /\ nat[n].block_addr # NoLpa}
    IN  /\ IsChainOf(Chain(sup.next_free_nid, [n \in Nids |-> nat[n].block_addr], NidCount),
                     {n \in Nids : nat[n].ino = 0})
        /\ \A n \in placed : OffOf(nat[n].block_addr) \in sit[SegOf(nat[n].block_addr)].valid
        /\ \A m, n \in placed : nat[m].block_addr = nat[n].block_addr => m = n
        /\ IsChainOf(free, ToSet(free)) /\ Len(free) = sup.free_segment_count
        /\ \A s \in ToSet(free) : sit[s].valid = {}
        /\ \A ty \in Types : sup[CurSeg(ty)] \notin ToSet(free)
        /\ \A ty \in Types : \A o \in sit[sup[CurSeg(ty)]].valid : o < sup[CurOff(ty)]

\* Every segment is in exactly one place: free, active, full and uncommitted,
\* full and committed but not released, or handed to a segment list.  An
\* allocation that fails for want of a segment leaves the full one both active
\* and uncommitted; from there on a segment may have two places, and still none
\* is lost.
SegmentPlaces ==
    Chain(host.super.first_free_segment_id, [s \in Segs |-> SitEntry(host, s).next], SegCount)
    \o <<host.super.current_node_segment_id, host.super.current_data_segment_id>>
    \o host.uncommit["node"] \o host.uncommit["data"]
    \o FlattenSeq([i \in 1 .. Len(txs) |-> txs[i].uncommit["node"] \o txs[i].uncommit["data"]])
    \o listed["node"] \o listed["data"]
SegmentsPartitioned ==
    ToSet(SegmentPlaces) = Segs /\ (~failed => Len(SegmentPlaces) = SegCount)

\* super_manager.hh: a full segment is added to the node or data segment list.
\* So the lists hold the segments handed to them.
SegmentListsIntact ==
    \A ty \in Types :
        ToSet(Chain(host.super[FirstSeg(ty)], [s \in Segs |-> SitEntry(host, s).next], SegCount))
            = ToSet(listed[ty])
===============================================================================
