------------------------------- MODULE FileIo -------------------------------
(***************************************************************************)
(* Reading and writing one file: opened_file, file and its page_cache,     *)
(* with several threads in read, write, lseek, truncate and fsync.         *)
(*                                                                         *)
(* Locks, in the order they are taken: pos_lock of a descriptor,           *)
(* file_op_lock (shared for read and write, exclusive for an append, a     *)
(* truncate and an fsync), the page_lock of one page at a time, each taken *)
(* before the previous page's is released.  A step is what happens between *)
(* two points where another thread can interfere.  With file_op_lock held  *)
(* exclusively nothing else moves in the page cache, so the body of        *)
(* truncate and that of write_back are one step each; fs_meta_lock, taken  *)
(* below file_op_lock, orders nothing more within one file.                *)
(*                                                                         *)
(* Positions and sizes are in blocks.  The inode and the block tree are    *)
(* i_size and a map from block to address; addresses are allocated in      *)
(* sequence and none is reused, as the segment allocator does within a     *)
(* segment.  A failed assert ends the process: failed names it.            *)
(***************************************************************************)
EXTENDS PageCache

CONSTANTS
    Threads,
    Fds,          \* descriptors of the file
    AppendFds,    \* those opened with O_APPEND
    ReadOnlyFds,  \* those opened with O_RDONLY
    NumBlocks,    \* bound: blocks of the file
    MaxCount,     \* bound: blocks per read or write
    MaxOps,       \* bound: calls made
    expect_size,  \* pages kept in the cache
    NoThread

ASSUME ThreadAssumption == IsFiniteSet(Threads) /\ NoThread \notin Threads
ASSUME SizeAssumption == NumBlocks \in Nat /\ expect_size \in Nat \ {0}
ASSUME BoundAssumption == MaxCount \in Nat /\ MaxOps \in Nat
ASSUME FdAssumption == AppendFds \subseteq Fds /\ ReadOnlyFds \subseteq Fds

Blocks == 0 .. NumBlocks - 1
Entries == 1 .. NumBlocks + Cardinality(Threads)

VARIABLES
    cache,        \* page_cache_
    size,         \* file::size
    inode,        \* i_size and the block tree: addr[b] is the address of b
    ssd,          \* data blocks written, indexed by address
    valid,        \* addresses valid in the SIT
    is_dirty, dirty_files,    \* the file's flag; whether the set holds it
    pos, pos_lock,            \* of each descriptor
    th,           \* where each thread stands
    ops,          \* calls made so far
    failed,       \* the assert that ended the process, or "none"
    hist          \* history: writes to each block since it was cut off

fileVars == <<size, inode, ssd, valid>>
dirtyVars == <<is_dirty, dirty_files>>
posVars == <<pos, pos_lock>>
vars == <<cache, fileVars, dirtyVars, posVars, th, ops, failed, hist>>

\* A thread: its call, the lock it holds on the file, the next block and the
\* end of its range, the page just obtained, the page whose lock it holds, the
\* page whose count it brought to 0, and what a read has copied.
Idle == [pc |-> "idle", op |-> "none", fd |-> NoThread, id |-> 0, hold |-> "none",
         start |-> 0, next |-> 0, end |-> 0, page |-> NoEntry, pre |-> NoEntry,
         put |-> NoEntry, then |-> "idle", got |-> <<>>]

\* The file as open finds it: empty, or with all blocks on the SSD, written by
\* an earlier run that the number Earlier stands for.
Earlier == MaxOps + 1
Init ==
    /\ cache = EmptyPageCache(Entries)
    /\ size \in {0, NumBlocks}
    /\ inode = [i_size |-> size, addr |-> [b \in Blocks |-> IF b < size THEN b + 1 ELSE INVALID_LPA]]
    /\ ssd = [i \in 1 .. size |-> Earlier] /\ valid = 1 .. size
    /\ is_dirty = FALSE /\ dirty_files = FALSE
    /\ pos = [f \in Fds |-> 0] /\ pos_lock = [f \in Fds |-> NoThread]
    /\ th = [t \in Threads |-> Idle]
    /\ ops = 0 /\ failed = "none"
    /\ hist = [b \in Blocks |-> IF b < size THEN <<Earlier>> ELSE <<>>]

Goto(t, pc) == th' = [th EXCEPT ![t].pc = pc]

\* The pages other threads have locked, or this one.
PageLocked_Never(e) == FALSE
PageLocked(e) == \E t \in Threads : th[t].pre = e
Shareable == \A t \in Threads : th[t].hold # "wr"
Available == \A t \in Threads : th[t].hold = "none"

-------------------------------------------------------------------------------
\* opened_file::read and write: take pos_lock and check the flags.
rw_check_flags(op, f) == op = "write" => f \notin ReadOnlyFds

\* What a write leaves in its blocks; negative for an append.
WriteId(f) == IF f \in AppendFds THEN - (ops + 1) ELSE ops + 1

Call(t, op, f, n) ==
    /\ th[t].pc = "idle" /\ ops < MaxOps
    /\ pos_lock[f] = NoThread
    /\ rw_check_flags(op, f)
    /\ ops' = ops + 1
    /\ pos_lock' = [pos_lock EXCEPT ![f] = t]
    /\ th' = [th EXCEPT ![t] = [Idle EXCEPT !.pc = "lock", !.op = op, !.fd = f, !.id = WriteId(f),
                                            !.end = n]]
    /\ UNCHANGED <<cache, fileVars, dirtyVars, pos, failed, hist>>

\* file::read: the size is taken once, at the start.
ReadBegin(t) ==
    /\ th[t].pc = "lock" /\ th[t].op = "read" /\ Shareable
    /\ LET from == pos[th[t].fd]
           to   == IF from + th[t].end < size THEN from + th[t].end ELSE size
       IN  th' = [th EXCEPT ![t].hold = "rd", ![t].start = from, ![t].next = from, ![t].end = to,
                            ![t].pc = IF from < to THEN "get" ELSE "unlock"]
    /\ UNCHANGED <<cache, fileVars, dirtyVars, posVars, ops, failed, hist>>

\* file::write; the bound cuts off a write that would go past the last block.
WriteAt(t, from, lock) ==
    LET to == IF from + th[t].end < NumBlocks THEN from + th[t].end ELSE NumBlocks IN
    th' = [th EXCEPT ![t].hold = lock, ![t].start = from, ![t].next = from, ![t].end = to,
                     ![t].pc = IF from < to THEN "get" ELSE "unlock"]
AppendBegin_Shared(t) ==
    /\ th[t].pc = "lock" /\ th[t].op = "write" /\ th[t].fd \in AppendFds /\ Shareable
    /\ pos' = [pos EXCEPT ![th[t].fd] = size]
    /\ WriteAt(t, size, "rd")
    /\ UNCHANGED <<cache, fileVars, dirtyVars, pos_lock, ops, failed, hist>>
AppendBegin(t) ==
    /\ th[t].pc = "lock" /\ th[t].op = "write" /\ th[t].fd \in AppendFds /\ Available
    /\ pos' = [pos EXCEPT ![th[t].fd] = size]
    /\ WriteAt(t, size, "wr")
    /\ UNCHANGED <<cache, fileVars, dirtyVars, pos_lock, ops, failed, hist>>
WriteBegin(t) ==
    /\ th[t].pc = "lock" /\ th[t].op = "write" /\ th[t].fd \notin AppendFds /\ Shareable
    /\ WriteAt(t, pos[th[t].fd], "rd")
    /\ UNCHANGED <<cache, fileVars, dirtyVars, posVars, ops, failed, hist>>

\* page_cache::get under cache_lock.
GetPage(t) ==
    /\ th[t].pc = "get"
    /\ failed' = IF GetAsserts(cache, th[t].next, expect_size) THEN failed ELSE "page"
    /\ cache' = get(cache, th[t].next, expect_size)
    /\ th' = [th EXCEPT ![t].page = EntryOf(cache', th[t].next), ![t].pc = "copy"]
    /\ UNCHANGED <<fileVars, dirtyVars, posVars, ops, hist>>

\* prepare_page_content: i_size 0 makes the largest offset 2^64 - 1.  A block
\* without an address leaves the buffer as it is.
prepare_page_content(c, e) ==
    LET b == c.ent[e].blkoff
        lpa == IF inode.i_size # 0 /\ b > inode.i_size - 1 THEN INVALID_LPA ELSE inode.addr[b]
    IN  IF c.ent[e].content_state = "ready" THEN c
        ELSE [c EXCEPT !.ent[e].content_state = "ready", !.ent[e].lpa = lpa,
                       !.ent[e].page = IF lpa = INVALID_LPA THEN @ ELSE ssd[lpa]]

\* Lock the page, release the previous one's lock, copy.  The handle on the
\* previous page is dropped in the next step.
CopyPage(t) ==
    /\ th[t].pc = "copy" /\ ~PageLocked(th[t].page)
    /\ LET e == th[t].page
           b == th[t].next
           ready == prepare_page_content(cache, e)
       IN  /\ \/ /\ th[t].op = "read"
                 /\ cache' = ready
                 /\ th' = [th EXCEPT ![t].pre = e, ![t].put = th[t].pre, ![t].page = NoEntry,
                                     ![t].next = b + 1, ![t].pc = "drop",
                                     ![t].then = IF b + 1 < th[t].end THEN "get" ELSE "last",
                                     ![t].got = Append(@, ready.ent[e].page)]
                 /\ UNCHANGED hist
              \/ /\ th[t].op = "write"
                 /\ cache' = mark_dirty([ready EXCEPT !.ent[e].page = th[t].id], e)
                 /\ th' = [th EXCEPT ![t].pre = e, ![t].put = th[t].pre, ![t].page = NoEntry,
                                     ![t].next = b + 1, ![t].pc = "drop",
                                     ![t].then = IF b + 1 < th[t].end THEN "get" ELSE "last"]
                 /\ hist' = [hist EXCEPT ![b] = Append(@, th[t].id)]
    /\ UNCHANGED <<fileVars, dirtyVars, posVars, ops, failed>>

\* ~page_entry_handle, first half: the thread that sees 1 goes on to unpin.
DropHandle(t) ==
    /\ th[t].pc = "drop"
    /\ LET e == th[t].put IN
       \/ /\ e = NoEntry
          /\ Goto(t, th[t].then)
          /\ UNCHANGED cache
       \/ /\ e # NoEntry
          /\ cache' = DropRef(cache, e)
          /\ th' = IF cache.ent[e].ref_count = 1 THEN [th EXCEPT ![t].pc = "unpin"]
                   ELSE [th EXCEPT ![t].put = NoEntry, ![t].pc = th[t].then]
    /\ UNCHANGED <<fileVars, dirtyVars, posVars, ops, failed, hist>>

\* Second half, under cache_lock.  The entry may have been freed since, after
\* others got it, dropped it and replaced it: from there on nothing is promised.
Unpin(t) ==
    /\ th[t].pc = "unpin"
    /\ LET e == th[t].put IN
       \/ /\ cache.ent[e].live
          /\ cache' = RecheckAndUnpin(cache, e)
          /\ failed' = IF cache.ent[e].ref_count = 0 /\ cache.ent[e].is_dirty THEN "page" ELSE failed
       \/ /\ ~cache.ent[e].live
          /\ failed' = "freed"
          /\ UNCHANGED cache
    /\ th' = [th EXCEPT ![t].put = NoEntry, ![t].pc = th[t].then]
    /\ UNCHANGED <<fileVars, dirtyVars, posVars, ops, hist>>

\* The end of the loop: the last page's lock is released, then its handle.
LastPage(t) ==
    /\ th[t].pc = "last"
    /\ th' = [th EXCEPT ![t].put = th[t].pre, ![t].pre = NoEntry, ![t].pc = "drop",
                        ![t].then = "unlock"]
    /\ UNCHANGED <<cache, fileVars, dirtyVars, posVars, ops, failed, hist>>

set_cur_size_if_larger(n) == IF n > size THEN n ELSE size

\* The rest of file::read or write, and the end of file_op_lock's scope.
UnlockFile(t) ==
    /\ th[t].pc = "unlock"
    /\ size' = IF th[t].op = "write" THEN set_cur_size_if_larger(th[t].end) ELSE size
    /\ th' = [th EXCEPT ![t].hold = "none", ![t].pc = "mark", ![t].then = "advance"]
    /\ UNCHANGED <<cache, inode, ssd, valid, dirtyVars, posVars, ops, failed, hist>>

\* file_handle::mark_dirty: the flag, then the set.  A read or write does it
\* without file_op_lock, a truncate with it.
MarkDirty(t) ==
    /\ th[t].pc = "mark"
    /\ is_dirty' = TRUE
    /\ Goto(t, IF is_dirty THEN th[t].then ELSE "add")
    /\ UNCHANGED <<cache, fileVars, dirty_files, posVars, ops, failed, hist>>
AddToDirtyFiles(t) ==
    /\ th[t].pc = "add"
    /\ failed' = IF dirty_files THEN "dirty_files" ELSE failed
    /\ dirty_files' = TRUE
    /\ Goto(t, th[t].then)
    /\ UNCHANGED <<cache, fileVars, is_dirty, posVars, ops, hist>>

\* pos += num_read, the end of pos_lock's scope, the return.
Moved(t) == IF th[t].op = "read" THEN Len(th[t].got) ELSE th[t].end - th[t].start
Advance(t) ==
    /\ th[t].pc = "advance"
    /\ pos' = [pos EXCEPT ![th[t].fd] = @ + Moved(t)]
    /\ pos_lock' = [pos_lock EXCEPT ![th[t].fd] = NoThread]
    /\ th' = [th EXCEPT ![t] = Idle]
    /\ UNCHANGED <<cache, fileVars, dirtyVars, ops, failed, hist>>

\* opened_file::set_rw_pos.
set_rw_pos(t, f, offset, whence) ==
    /\ th[t].pc = "idle" /\ ops < MaxOps /\ pos_lock[f] = NoThread
    /\ ops' = ops + 1
    /\ pos' = [pos EXCEPT ![f] = CASE whence = "SET" -> offset
                                   [] whence = "CUR" -> @ + offset
                                   [] whence = "END" -> size + offset]
    /\ pos'[f] \in 0 .. NumBlocks
    /\ UNCHANGED <<cache, fileVars, dirtyVars, pos_lock, th, failed, hist>>

-------------------------------------------------------------------------------
\* truncate and fsync take file_op_lock exclusively, then fs_meta_lock.
CallExclusive(t, op, n) ==
    /\ th[t].pc = "idle" /\ ops < MaxOps /\ Available
    /\ ops' = ops + 1
    /\ th' = [th EXCEPT ![t] = [Idle EXCEPT !.pc = op, !.op = op, !.hold = "wr",
                                            !.end = n, !.then = "return"]]
    /\ UNCHANGED <<cache, fileVars, dirtyVars, posVars, failed, hist>>

\* file_resizer::reduce and expand, on the block map.
Freed(n) == {inode.addr[b] : b \in n .. inode.i_size - 1} \ {INVALID_LPA}
Resized(n) ==
    [i_size |-> n, addr |-> [b \in Blocks |-> IF b \in n .. inode.i_size - 1 THEN INVALID_LPA
                                              ELSE inode.addr[b]]]

\* SIZE_TO_BLOCK(0) - 1, as the parameter of page_cache::truncate: 2^32 - 1.
MaxBlkoff(n) == IF n = 0 THEN NumBlocks ELSE n - 1

\* file::truncate compares with the inode's size.
Truncate(t) ==
    /\ th[t].pc = "truncate"
    /\ LET n == th[t].end IN
       \/ /\ n = inode.i_size
          /\ Goto(t, "return")
          /\ UNCHANGED <<cache, fileVars, failed, hist>>
       \/ /\ n # inode.i_size
          /\ failed' = IF Freed(n) \subseteq valid THEN failed ELSE "SIT"
          /\ valid' = valid \ Freed(n)
          /\ inode' = Resized(n)
          /\ size' = n
          /\ cache' \in truncate(cache, MaxBlkoff(n))
          /\ hist' = [b \in Blocks |-> IF b < n THEN hist[b] ELSE <<>>]
          /\ Goto(t, "mark")
          /\ UNCHANGED ssd
    /\ UNCHANGED <<dirtyVars, posVars, ops>>

\* fsync: file_handle::clear_dirty, the flag, then the set.
ClearDirty(t) ==
    /\ th[t].pc = "fsync"
    /\ is_dirty' = FALSE
    /\ Goto(t, IF is_dirty THEN "remove" ELSE "write_back")
    /\ UNCHANGED <<cache, fileVars, dirty_files, posVars, ops, failed, hist>>
RemoveFromDirtyFiles(t) ==
    /\ th[t].pc = "remove"
    /\ failed' = IF dirty_files THEN failed ELSE "dirty_files"
    /\ dirty_files' = FALSE
    /\ Goto(t, "write_back")
    /\ UNCHANGED <<cache, fileVars, is_dirty, posVars, ops, hist>>

\* The order in which dirty_pages is walked: the address the page gets.
NewLpa(e) ==
    Len(ssd) + Cardinality({x \in cache.dirty_pages : cache.ent[x].blkoff <= cache.ent[e].blkoff})
OldLpas == {cache.ent[e].lpa : e \in cache.dirty_pages} \ {INVALID_LPA}

\* update_meta_to_inode expands the inode to the file's size.
update_meta_to_inode_TimesOnly == inode.i_size
update_meta_to_inode == IF size > inode.i_size THEN size ELSE inode.i_size

\* file::write_back: each dirty page gets a new address, its old one is
\* invalidated, the block tree is updated, the flags are cleared.
WriteBack(t) ==
    /\ th[t].pc = "write_back"
    /\ LET D == cache.dirty_pages
           written(a) == CHOOSE e \in D : NewLpa(e) = a
           moved == [cache EXCEPT !.ent = [e \in Entries |->
                        IF e \in D THEN [cache.ent[e] EXCEPT !.lpa = NewLpa(e)] ELSE cache.ent[e]]]
       IN  /\ failed' = IF OldLpas \subseteq valid THEN failed ELSE "SIT"
           /\ ssd' = ssd \o [i \in 1 .. Cardinality(D) |-> cache.ent[written(Len(ssd) + i)].page]
           /\ valid' = (valid \ OldLpas) \cup {NewLpa(e) : e \in D}
           /\ inode' = [i_size |-> update_meta_to_inode,
                        addr |-> [b \in Blocks |->
                                    IF \E e \in D : cache.ent[e].blkoff = b
                                    THEN NewLpa(CHOOSE e \in D : cache.ent[e].blkoff = b)
                                    ELSE inode.addr[b]]]
           /\ cache' \in clear_dirty_pages(moved)
    /\ Goto(t, "return")
    /\ UNCHANGED <<size, dirtyVars, posVars, ops, hist>>

Return_KeepsLock(t) ==
    /\ th[t].pc = "return"
    /\ th' = [th EXCEPT ![t] = [Idle EXCEPT !.hold = th[t].hold]]
    /\ UNCHANGED <<cache, fileVars, dirtyVars, posVars, ops, failed, hist>>
Return(t) ==
    /\ th[t].pc = "return"
    /\ th' = [th EXCEPT ![t] = Idle]
    /\ UNCHANGED <<cache, fileVars, dirtyVars, posVars, ops, failed, hist>>

-------------------------------------------------------------------------------
\* A call is made or not; one that was made goes on.
NewCall(t) ==
    \/ \E f \in Fds, n \in 1 .. MaxCount : Call(t, "read", f, n) \/ Call(t, "write", f, n)
    \/ \E f \in Fds : \/ \E o \in 0 .. NumBlocks : set_rw_pos(t, f, o, "SET")
                      \/ \E o \in {-1, 1} : set_rw_pos(t, f, o, "CUR")
                      \/ set_rw_pos(t, f, 0, "END")
    \/ \E n \in 0 .. NumBlocks : CallExclusive(t, "truncate", n)
    \/ CallExclusive(t, "fsync", 0)

Step(t) ==
    \/ ReadBegin(t) \/ AppendBegin(t) \/ WriteBegin(t)
    \/ GetPage(t) \/ CopyPage(t) \/ DropHandle(t) \/ Unpin(t) \/ LastPage(t)
    \/ UnlockFile(t) \/ MarkDirty(t) \/ AddToDirtyFiles(t) \/ Advance(t)
    \/ Truncate(t) \/ ClearDirty(t) \/ RemoveFromDirtyFiles(t) \/ WriteBack(t) \/ Return(t)

Next == failed = "none" /\ \E t \in Threads : NewCall(t) \/ Step(t)

\* While threads can go on, one of them does.  This is enough for each of them,
\* the one that waits for a lock too, because the calls that can take it from
\* under it are bounded by MaxOps.
Fairness == WF_vars(failed = "none" /\ \E t \in Threads : Step(t))
Spec == Init /\ [][Next]_vars /\ Fairness
-------------------------------------------------------------------------------
TypeOK ==
    /\ LiveEntries(cache) \subseteq Entries /\ cache.dirty_pages \subseteq Entries
    /\ cache.cur_size \in 0 .. SizeMod - 1
    /\ size \in 0 .. NumBlocks /\ inode.i_size \in 0 .. NumBlocks
    /\ inode.addr \in [Blocks -> 0 .. Len(ssd)] /\ valid \subseteq 1 .. Len(ssd)
    /\ is_dirty \in BOOLEAN /\ dirty_files \in BOOLEAN
    /\ pos \in [Fds -> 0 .. NumBlocks] /\ pos_lock \in [Fds -> Threads \cup {NoThread}]
    /\ \A t \in Threads : {th[t].page, th[t].pre, th[t].put} \subseteq Entries \cup {NoEntry}

\* Handles on e: of threads, and of dirty_pages.
Handles(e) ==
    Cardinality({t \in Threads : th[t].page = e}) + Cardinality({t \in Threads : th[t].pre = e})
    + Cardinality({t \in Threads : th[t].put = e /\ th[t].pc = "drop"})
    + (IF e \in cache.dirty_pages THEN 1 ELSE 0)

\* A page someone has a handle on exists, is counted, is pinned, and is the
\* page of the block it was asked for, however get, replacement and the two
\* halves of sub_refcount interleave.
HeldPagesStay ==
    /\ failed # "page"
    /\ \A e \in Entries : Handles(e) > 0 =>
         /\ cache.ent[e].live /\ cache.ent[e].ref_count = Handles(e) /\ IsPinned(cache, e)
         /\ cache.ent[e].is_dirty <=> e \in cache.dirty_pages
    /\ \A t \in Threads : th[t].page # NoEntry => cache.ent[th[t].page].blkoff = th[t].next

\* The content of block b as the next reader would get it.
Content(b) ==
    IF IsCached(cache, b) /\ cache.ent[EntryOf(cache, b)].content_state = "ready"
    THEN cache.ent[EntryOf(cache, b)].page
    ELSE IF inode.addr[b] = INVALID_LPA THEN 0 ELSE ssd[inode.addr[b]]

\* No write is lost: a block that was written and not cut off since holds what
\* was written to it last, in the cache or on the SSD, through replacement,
\* write back, truncation elsewhere in the file and concurrent writes.
WrittenIsKept == \A b \in Blocks : hist[b] # <<>> => Content(b) = Last(hist[b])

\* When fsync has written back, every written block is in the block tree at a
\* valid address with its last content, inside the inode's size.  This holds of
\* the block tree that write_back leaves also where it invalidates an address
\* that is free already, which AddressAssertsHold is about.
FsyncSaves ==
    \A t \in Threads : th[t].op = "fsync" /\ th[t].pc = "return" =>
        /\ cache.dirty_pages = {} /\ inode.i_size >= size
        /\ \A b \in Blocks : hist[b] # <<>> =>
             /\ b < inode.i_size /\ inode.addr[b] \in valid
             /\ ssd[inode.addr[b]] = Last(hist[b])

\* How many of the writes to b a reader that got v has seen.
Seen(b, v) == IF Contains(hist[b], v) THEN CHOOSE i \in DOMAIN hist[b] : hist[b][i] = v ELSE 0
\* Write w covers b: it has written it, or is under way and going to.
Covers(w, b) ==
    \/ Contains(hist[b], w)
    \/ \E t \in Threads : /\ th[t].op = "write" /\ th[t].id = w /\ th[t].hold # "none"
                         /\ b \in th[t].start .. th[t].end - 1
HasSeen(w, b, v) == Contains(hist[b], w) /\ Seen(b, w) <= Seen(b, v)

\* A read of several blocks sees a write of several blocks in all of the blocks
\* they share or in none: each page's lock is taken before the previous one's
\* is released.
ReadsDoNotTear ==
    \A t \in Threads : th[t].op = "read" /\ th[t].pc = "unlock" =>
        \A i, j \in DOMAIN th[t].got, w \in - ops .. ops :
            LET b == th[t].start + i - 1
                d == th[t].start + j - 1
            IN  Covers(w, b) /\ Covers(w, d) =>
                    (HasSeen(w, b, th[t].got[i]) <=> HasSeen(w, d, th[t].got[j]))

\* An append goes where nothing was written before: it starts at the size the
\* file has when all earlier writes are done.
AppendsNeverOverwrite ==
    \A b \in Blocks : \A i \in DOMAIN hist[b] : hist[b][i] < 0 => i = 1

\* Every call returns, unless an assert ends the process: the locks are taken in
\* an order that cannot deadlock.
CallsReturn ==
    (\E t \in Threads : th[t].pc # "idle")
        ~> ((\A t \in Threads : th[t].pc = "idle") \/ failed # "none")

\* The comment in sub_refcount, that the entry may be accessed once cache_lock is
\* taken, holds (violated: between the two halves others can get the page, drop
\* it, unpin it and have it replaced and freed).
NoFreedPageUsed == failed # "freed"

\* An address is freed once: the assert in the SIT that a block invalidated is
\* valid holds in truncate and fsync (violated: a truncate to 0 passes 2^32 - 1 to
\* page_cache::truncate, which then drops no page, and page_cache::truncate looks
\* at dirty pages only.  Either way a page keeps the address of a block that was
\* cut off and freed, and the fsync after its next write frees it again).
AddressAssertsHold == failed # "SIT"

\* The asserts on dirty_files hold (violated: the flag and the set are changed
\* in two steps, and a thread that marks the file after its read or write holds
\* no lock that fsync's clear_dirty takes).
DirtyFilesAgree == failed # "dirty_files"
===============================================================================
