# A verification project for HSCFS

HSCFS is a user-space file system for an SSD that applies the file system's
metadata journal itself. The host keeps the metadata tables in caches, writes
each batch of changes as a *transaction* into a ring of journal blocks on the
SSD, and polls the ring's head to learn what the SSD has applied. The modules
here model that machinery in TLA+, from the calls on files and names down to the
communication layer all of its I/O goes through; TLC checks them on small
instances, and TLAPS proves the main safety properties of the journal layer,
replace protection, the communication layer and file I/O for every instance,
and that the two layers with an abstract specification implement it.

## The system

| part | state | operations | interacts with |
|---|---|---|---|
| `journal_process_env` | commit queue, exit request, mutex and condition variable, next transaction number | `commit_journal`, `stop_process_thread`, `alloc_tx_id` | filled by the thread that holds `fs_meta_lock`, emptied by the journal thread |
| `journal_processor` (journal thread) | pending journals, the journal being written, records of written ones, head, tail, free space, poll timer | `fetch_new_journal`, `process_pending_journal`, `process_cplt_journal` | writes the ring, moves the tail, reads the head; `notify_cplt_tx` into replace protection |
| `journal_writer`, `journal_container` | journal entries, block buffer | append, pack | filled by the metadata operations |
| `replace_protect_manager` | `trp_list` (one record per transaction not yet applied), `protect_processing_tx` | `add_tx`, `notify_cplt_tx`, two waits | called by API threads, journal thread, server thread |
| `server_thread` | task queue, exit request | `post_task`, `stop`, run a task | runs the replace-protect tasks |
| `file_system_manager` | all of the above, `fs_meta_lock`, `fs_freeze_lock`, `is_unrecoverable` | `init`, `fini`, `write_back_all_dirty_sync` | API entry points |
| `write_back_helper` | - | `write_meta_back_sync` | allocates addresses, commits the current journal |
| `super_manager`, `SIT_operator`, `nat_lpa_mapping` | super block, SIT and NAT blocks in the caches | allocate and free node ids, segments, block addresses; segment lists | every change is journalled and pins its block by a *host version* |
| `SIT_NAT_cache`, `cache_manager` | cached blocks, reference counts, LRU list | get, pin by reference or version, replace | reads blocks from the SSD |
| `node_block_cache` | cached inodes and index nodes, each counting handles and cached children; dirty list and positions in it | get, create, mark dirty, delete, replace | frees node ids and addresses; records of transactions hold its dirty lists |
| `file_utils`, `srmap_utils` | index tree of a file, reverse map | find and set a block's address, expand, reduce, create, delete | over `node_block_cache`; called by `file` and `directory` |
| `page_cache`, `file`, `opened_file` | pages, size, dirty flag, descriptor positions | read, write, append, lseek, truncate, write back | take `pos_lock`, `file_op_lock`, page locks, `fs_meta_lock` in that order |
| `directory`, `dir_data_block_cache` | hash levels, slots and entries | lookup, create, link, remove | entries are written by `write_back_helper` |
| `dentry_cache`, `path_utils` | names looked up, created or deleted | path lookup on the host, then by the SSD | what is not cached the SSD is asked for |
| `file_obj_cache`, `fd_array`, `api/` | file objects with reference, descriptor and link counts; descriptors | open, close, link, unlink, mkdir, rmdir, fsync | take `fs_freeze_lock`, `file_op_lock`, `fs_meta_lock` |
| `communication/` | channel use counts, the session's queue and exit request, the polling thread's three queues, its task ids and query timer | send synchronous, asynchronous and long commands, poll, query task ids, fini | every I/O above; callers, polling thread and SSD run concurrently |

What is hard here: four kinds of threads (API, journal, server, polling) with
mutexes, condition variables and conditional notification; a polling thread
that only tries its locks, shares contexts with callers that free them, and
completes commands in whatever order the SSD does; an SSD that
works on its own and is observed only through a head position; a ring whose
positions wrap; a crash between any two I/Os; caches that must not drop a block
whose change the SSD has not applied; changes that release further changes
(segment lists, deleted nodes) after a transaction is applied; names that are
partly in the dentry cache and partly known only to the SSD; files that are
open without a name; pages that are recycled while their last handle is being
dropped; index trees cut and grown at the boundaries of their levels. PROJECT.json
lists each of these under "hazards" with the line where it bites.

What makes the parts correct:
- *journal layer*: a committed transaction is written whole, in order, never
  over one the SSD still needs, is applied and reported exactly once, and the
  thread neither sleeps through work nor ends before it is done (the last with a
  condition on the heads it sees, below);
- *replace protection*: each protection is in one place and released once, a wait for the SSD returns, fini leaves nothing behind;
- *metadata tables*: what the host reads is what it journalled, no id, block or segment is lost or used twice, and the SSD's tables
  make sense after every transaction;
- *communication*: a command that was sent is answered once, with the outcome
  the SSD gave it, and not while the SSD still uses its buffer; contexts are
  alive while queued and channels are given back on every path; fini returns;
- *file contents*: no write is lost, a read sees all of a write or none, appends do
  not overlap, fsync saves size and contents, and every call returns;
- *file mapping*: the index tree fits the file's size, every block is found where
  it was put, no node id or address leaks, and what is not dirty is on the SSD;
- *names*: what a transaction leaves on the SSD is a file system, lookups tell
  the truth, and an unlinked file lives exactly as long as it is open.

## Modules

| module | models |
|---|---|
| `TxService` | what the journal layer promises: each transaction goes from none to submitted, durable, applied, reported, in order; a crash loses a suffix of the submitted ones |
| `JournalProcessor` | `journal_process_env` and the journal thread against the SSD's ring, with crash and restart; implements `TxService` |
| `JournalProcessorProofs`, `JournalRingProofs`, `JournalServiceProofs` | the theorems about it: space and order; the contents of the ring and the reports; the refinement |
| `ReplaceProtect` | API threads, journal thread, server thread and fini around `fs_meta_lock`, using `TxService` in place of the journal layer |
| `ReplaceProtectProofs` | the theorems about it |
| `VersionCache` | `SIT_NAT_cache` over `cache_manager`: reference and version counts as pins, LRU, replacement (pure operators) |
| `MetaTables` | `super_manager`, SIT and NAT access, `write_meta_back_sync`, the SSD replaying transactions and the replace-protect task, over `VersionCache` |
| `CommandService` | what the communication layer promises: a command is issued or rejected, executed, answered once with the true outcome, as long as the polling thread is up |
| `CommSession` | the callers of `comm_api.c`, the channel pool of `channel.c` and the polling thread of `session.c`, against the NVMe driver and the SSD; implements `CommandService` |
| `CommQueueProofs`, `CommSessionProofs`, `CommServiceProofs` | the theorems about it: the queues; contexts, buffers and the query; the channels and the refinement |
| `PageCache` | `page_cache` over `cache_manager`: get, recycling, the two halves of dropping a handle, dirty pages, truncate (pure operators) |
| `FileIo` | threads in read, write, append, lseek, truncate and fsync on one file, over `PageCache` |
| `FileIoProofs` | the theorems about both |
| `NodeCache` | `node_block_cache` and `node_cache_helper`: references, parents, replacement, dirty list, deletion (pure operators) |
| `FileMapping` | the index tree of one file from creation to deletion, with write back of data, nodes and reverse map, over `NodeCache` |
| `Directory` | hash levels, buckets, slots and entries of directories (pure operators on a view of the file system) |
| `Namespace` | path lookup, dentry cache, links, file objects, descriptors and all API calls on names, with restart and crash, over `Directory` |
| `MCJournalProcessor`, `MCReplaceProtect`, `MCMetaTables`, `MCCommSession`, `MCFileIo`, `MCFileMapping`, `MCNamespace` | the modules TLC runs |

The modules share code at the seams rather than state: `FileIo` takes the inode's
block map as a function, which `FileMapping` refines to a tree of nodes;
`FileMapping` takes the NAT to read as written, which `MetaTables` looks into;
`Namespace` takes a transaction as applied whole and in order, which is what
`TxService` says and `JournalProcessor` implements.

### JournalProcessor

`proc` is where the journal thread stands in `process_journal`: `fetch`
(about to take the env's mutex), `sleep` (in `cond.wait`), `pending`, `publish`
(blocks written, tail not yet updated), `cplt`, `poll`, `records`, `exited`;
`down` is the time between a crash and the end of `ssd_recovery`. `env` is where
the caller stands: the push onto the queue and the notification after the mutex
is released are two steps. A journal is its number and how many blocks
`journal_writer` packs it into; a block on the ring carries its number and
place in the journal, so that what the SSD applies shows any overwriting.
Transaction numbers start at 1 (0 in the code) and continue after a crash (the
code starts again), so that the histories tell all transactions apart.
The SSD is external: it applies blocks from its head to its tail, one at a time,
so the head it reports may lie inside a transaction. The code's comments do not
settle that, and the mock SSD of `test/journal/test_journal.cc` (lines 127-167)
reports such heads.

Such a head can make the layer stop for ever. The comment on `is_applied`
(journal_processor.hh:28-30) says that the tail does not come back into the
blocks of a journal on record, because space is freed only when its record is
removed; but `sync_with_SSD_journal_pos` frees space block by block, before
`process_tx_record` looks at the records. On a ring of three blocks [1, 4): A is
written to [1, 3), the thread polls head 2, B is written to 3 and the tail wraps
to 1, the SSD finishes and the thread polls head 1. Now the whole ring is free
and `is_applied` denies A. The comment on `is_working` (journal_processor.cc:70)
says that then everything is applied and there is nothing to poll for, so the
thread sleeps, or ends when asked to, and neither A nor B is ever reported.
`IdleMeansReported` states that comment, and `MCJournalIdle.cfg` shows this
behaviour. `ImplementsService` therefore has two halves: that every step is one
of `TxService` holds whatever heads are seen; that the service goes on is stated
for the behaviours in which no polled head lies inside a journal (`HeadBetween`)
or in which what the comment on `is_applied` says is true (`TailStaysOut`).
`StopReturns` needs neither. `ReplaceProtect` builds on `TxService` with its
liveness, so that `WaitReturns` and `FiniReturns` rest on the same condition.

`process_cplt_journal` would stop the poll timer with nothing outstanding; it is
never called so, and the branch is left out (the deadlock check of
`journal_progress` would show it).

Left out: I/O errors, which end the thread by an exception; a journal larger
than the ring (`SizeAssumption`; the code has no check and would wait for
ever); the packing of entries into blocks.

### ReplaceProtect

`api[a]` is an API thread: with `fs_meta_lock` it changes metadata, writes back
(`add_tx`, then `commit_journal` as a step of its own), or has the SSD search a
directory or a file mapping, for which it waits, still holding the lock, until
the SSD has applied every journal. `jt` is the journal thread inside
`notify_cplt_tx` and `post_task`; `server` is the server thread, which runs a
task with the queue's mutex held, the task taking `fs_meta_lock`; `fini` is
the thread in `file_system_manager::fini`. The queue's mutex is held by the
server thread in the states between taking a task and its end. The current
journal is reduced to whether it is empty and whether it also holds dirty
nodes, since that decides what a second round of fini finds. `MaxOutstanding`
bounds the transactions whose protection is not released.

### MetaTables

Everything on the host runs under `fs_meta_lock`, so an operation is one step
on the record `host`: the super block, the two caches, the current journal, the
uncommitted segments, node and directory block addresses. A create, change or
delete of a node, a change of a directory block, a write back with its commit
and the two ways to fail (no node id, no segment) are the host's actions;
`SSDApply` replays the oldest transaction's entries on the SSD's tables;
`replace_protect_task` releases versions, frees deleted nodes and hands full
segments to the segment lists. Segment ids, node ids and block offsets are
small numbers; `SET_NEXT_SEG` keeps its bitwise or. The node cache's dirty list
is taken to do what its comments say, and nodes are not replaced from it. A
crash is not an action: it may come in any state and leaves `ssd` and the
transactions still to replay, so an invariant over `ssd` covers it.
`convert_to_errno` writes through a pointer that is never set; whether that sets
`is_unrecoverable` is a free choice.

### CommSession

`caller[c]` is where the thread that issues command `c` stands: `send`,
`sending` (command given to the driver, channel still locked), `submit`,
`unlock` (queue mutex held), `notify`, then for a synchronous command `lock`,
`check` (its wait mutex held) and `asleep`. `ctx[x]` is the session context,
with `live` for "allocated and not freed". `th` is the polling thread and its
`polling_thread_env`: its place (`fetch`, `sleep`, `cq`, `polled`, `tid`,
`end`, `exited`), the cursor of the loop it is in (empty at the end of the
queue), a broadcast it still owes after releasing a waiter's mutex, the three
queues, the task ids, the query task and its timer. The walk over each queue is
one step per element, because callers, driver and SSD move in between; a
trylock that fails is an alternative of its own (`FetchBusy`, `PollBusy`,
`CompleteBusy`).

The driver and the SSD are external: a command outstanding for `x` is `io[x]`,
its completion is posted at any time and delivered by polling, all of the admin
queue or of one channel at once; a call that fails delivers nothing. A
finished long task is reported by one query and only one, as the mock in
`test/communication/spdk_mock.cc` does, at most `PerPoll` ids at a time.
`CqeErrors` and `Faults` say what may go wrong. The model starts once the
polling thread has taken a channel for its query; fini is called when all
calls have returned and the asynchronous ones were answered.

`comm_session_env_fini`, errors of the driver and refused commands are all
actions. Left out: failures of `malloc` and of the pthread calls, 16-bit task ids
(an id is its command), the contents of commands. `has_ownership` overlaps the
condition variable of a synchronous context and is read as 0; a freed context
that a queue still holds keeps its contents.

Two things the model shows that no property states, because nothing in the
repository rules them out: the polling thread can exit while its query is
in flight, freeing the buffer the SSD writes, and it can broadcast on a condition
variable whose context the woken caller has destroyed. Both are listed under
"What is not modelled, and the plan".

### FileIo and PageCache

`th[t]` is a thread: its call, the lock it holds on the file (`hold`), the next
block and the end of its range, the page it has obtained, the page whose lock it
holds (`pre`) and the handle it is dropping (`put`). A step is what happens
between two points where another thread can interfere: `page_cache::get` under
its lock; locking the page, letting go of the one before and copying; the
decrement of the reference count; the recheck and unpin under the cache's lock;
the size; the dirty flag; the set of dirty files. With `file_op_lock` held
exclusively the bodies of truncate and write back are one step each.
`fs_meta_lock` is taken below `file_op_lock` and released within such a step.
An entry can be freed between the two halves of `sub_refcount`: the model stops
there with `failed = "freed"` and promises nothing afterwards. The order in which
`dirty_pages` lets go of its handles, and so that of the list of replaceable
pages, is free, since the map promises none.
Block numbers keep their widths where the code subtracts one from zero:
`prepare_page_content` and `truncate` on an empty file. Contents are one value
per block, the number of the write; `hist` remembers the writes to each block.

A page keeps the address its block had when it was read or last written back.
`page_cache::truncate` drops dirty pages only (page_cache.cc:85), and for size 0
none at all, since it is given 2^32 - 1 (file.cc:72). So a page can keep the
address of a block that a truncate cut off and freed, and the fsync after its
next write frees that address again, which the assert at SIT_utils.cc:75 rules
out: `AddressAssertsHold`, refuted by `MCFileTruncate.cfg`. Reading b, truncating
below b, writing b and fsync is the other way there. `FsyncSaves` is stated, and
proved, of every state that write back leaves, these included: no block written
is lost by the second freeing.
`WrittenIsKept` speaks of blocks that were written. A hole, or a block past the
inode's size, is not covered: `prepare_page_content` leaves the buffer as it is
(file.cc:286, 298), and on a recycled page that is another block's data.

Left out: time stamps, write-only descriptors (read's check of flags), writes
within a block, and a file that grows past the largest block number.

### FileMapping and NodeCache

The state of the node cache, allocation and SSD is one record `fs` that the
operators take and return, so that a function of the code is one operator:
`get_node_path`, `get_addr_of_block`, `update_block_mapping`, `expand`, `reduce`
with `free_blocks_in_range` and its three `proc_` parts. A node is its footer,
an inode's size and an array of addresses or ids; the numbers of pointers per
node are constants. `dirty_pos` is kept as what it is, a table from entries to
positions in whatever list was current, with its keys surviving the entries
(`stray`, `reuse`). Sizes are in half blocks, so that a resize within a block
is there too. `page` has the address that each page of the file keeps, from
`prepare_page_content` or its last write back; a truncate leaves it, and a write
back uses it or, if the page was replaced and read again, the block's present
address. `mapped` remembers the address each block was given last.

Three defects of the code end the comparison early: after a cut that begins past
the first single node (`deepCut`) the properties are not evaluated, asserts
on `dirty_pos` are the subject of `node_dirty_list`, and the write back of a page
that kept a freed address (`failed = "page"`) is that of `AddressAssertsHold` in
`FileIo`.

### Namespace and Directory

Every call holds `fs_meta_lock` and is one step on the record `s`; open with
`O_TRUNC` lets go of it once and is two (`pend`). `inode` and `blk` are the file
system as the host sees it, `ssd` as the last transaction left it; `dinode`,
`dblk` and `dc`'s dirty marks say what the next write back takes.
`do_path_lookup` folds over the path: from the dentry cache as long as it
hits, then the SSD's view for all that remains. The hash and the slots of a name
are constants, so that collisions and full buckets are the instance's choice.
`Mounted` is `init` over what the SSD has; `Remount` is `fini` and `init`, `Crash`
drops all but `ssd`. `lost` remembers the inodes without a name at a crash, which
the code never frees. Every handle on a dentry leaves a reference behind, since
`dentry_handle` has no destructor, so dentries are not replaced.

Assumed, because the code does otherwise and a further counterexample below
shows it: deleting a node takes it off the right dirty list; a bit for every slot
of a bitmap word can be made (`UINT_BITS` equals `BITS_PER_LONG` in the passing
run); and the paths of that run have no `..` behind a component that is not
cached and no two directories with a child of the same name.
Also left out: a descriptor that is closed by another thread while in use
(`fd_array` returns a bare pointer), removal of the root, names and flags that
are refused before any state is read, and replacement of directory blocks.

## Runs

| run | instance | shows |
|---|---|---|
| `journal_safety` | ring of 4, journals of 1 to 3 blocks, 4 transactions, 1 crash, head seen anywhere | `SpaceAccounting`, `RingHoldsJournals`, `WritesOnlyFreeBlocks`, `NotifyOnlyApplied`, `CommitOrder` hold: a ring that wraps, fills up and restarts at any position |
| `journal_progress` | ring of 3, journals of 1 or 2 blocks, 3 transactions, 1 crash, head seen anywhere, deadlock checked | the layer implements `TxService`, with its liveness where `HeadBetween` or `TailStaysOut` holds throughout; a stop request is answered |
| `protect` | 2 API threads, 5 transactions, 2 outstanding, deadlock checked | each protection is in one place until released, the SSD never searches over unapplied journals, waits and fini return, fini leaves nothing |
| `protect_deadlock` (violation) | 1 API thread, 3 outstanding | the waiting thread, the server thread and the journal thread wait for one another: with one task running and one queued, a third notification blocks in `post_task` |
| `meta_cache` | one-block caches, 4 node ids, segments that do not fill, 4 operations, 3 transactions | no pinned block is replaced, the host reads what it journalled, the SSD's tables are consistent after each transaction |
| `meta_segments` | 4 segments of 2 blocks, 4 operations, 3 transactions | segments fill and run out: each is in one place, none is lost even by an allocation that fails, no block leaks or is used twice |
| `comm_io` | 2 I/O commands on one channel, one of them waited for, any driver call may fail | live contexts in the queues, channels balanced, fini returns, the layer implements `CommandService` |
| `comm_long` | 2 long commands, one task id per query, the first may be refused, queries may fail | no answer while the SSD holds the buffer, one query at a time, the layer implements `CommandService` |
| `file_io` | 2 threads, a descriptor and an appending one, 3 blocks, 1 page cached, 3 calls | `HeldPagesStay`, `WrittenIsKept`, `FsyncSaves`, `ReadsDoNotTear`, `AppendsNeverOverwrite` hold and every call returns |
| `file_mapping` | 1 address per inode, 2 pointers per node, so that 19 blocks end inside the triple node, 6 inside a double one and 2 inside a single one; 2 nodes cached, 5 calls, 2 transactions protected | `TreeMatchesSize`, `BlocksFound`, `RefsAccounted`, `NothingLeaks`, `CleanMeansSaved` and the asserts hold |
| `node_dirty_list` (violation) | the same with one size | a node written back, changed and deleted is erased from the wrong list |
| `namespace` | 3 names in blocks of 2 slots, a directory that grows a second level, 1 file object cached, 5 steps from an empty and from a used file system | `ViewsWhole`, `OpenFilesKept`, `LookupsTrue` and the asserts hold |

Further counterexamples. Each of these configurations checks one property that a
comment, an assert or a name of the code states and the model refutes; run
them by hand, in this directory.

| command | property | what TLC shows |
|---|---|---|
| `tlc -config MCJournalIdle.cfg MCJournalProcessor` | `IdleMeansReported` | a head seen inside a journal frees blocks the next one wraps into: `is_applied` then denies the first for ever, and the thread sleeps with both unreported (journal_processor.cc:76), against journal_processor.hh:28 and journal_processor.cc:70 |
| `tlc -config MCMetaSegmentLists.cfg MCMetaTables` | `SegmentListsIntact` | `SET_NEXT_SEG` (fs.h:185) ors the new pointer into the old one: a segment list leads to segments never added to it, against super_manager.cc:177 |
| `tlc -config MCMetaNat.cfg MCMetaTables` | `NatCoherent` | `set_lpa_of_nid` (NAT_utils.cc:48) changes a copy of the cached entry: the host reads the old address, against NAT_utils.hh:21 |
| `tlc -config MCMetaSit.cfg MCMetaTables` | `SitCoherent` | `add_seg_to_list` (super_manager.cc:170) adds no host version: the SIT block is replaced and an older entry read back |
| `tlc -config MCCommRefused.cfg MCCommSession` | `RefusedLongLeaves` | a long command the SSD refuses is completed and still put on `tid_queue` (session.c:474) |
| `tlc -config MCFileDirty.cfg MCFileIo` | `DirtyFilesAgree` | a write marks the file after letting go of `file_op_lock`, between the two steps of fsync's `clear_dirty`: an assert on `dirty_files` fails (file.cc:422, 430) |
| `tlc -config MCFileFreed.cfg MCFileIo` | `NoFreedPageUsed` | between the count reaching zero and `cache_lock`, others get the page, drop it, unpin it and have it replaced: `sub_refcount` then reads a freed entry, against page_cache.cc:147 |
| `tlc -config MCFileTruncate.cfg MCFileIo` | `AddressAssertsHold` | write block 0, truncate to 0, fsync: `page_cache::truncate` gets 2^32 - 1 (file.cc:72) and drops no page, against file.cc:71, and the write back invalidates an address that the truncate has freed (assert at SIT_utils.cc:75) |
| `tlc -config MCFileResize.cfg MCFileMapping` | `ResizeAssertsHold` | a cut that begins past the first single node: the loops over index nodes (file_utils.cc:541, 582, 616, 635) go on without advancing the block number |
| `tlc -config MCNamespaceParent.cfg MCNamespace` | `ParentsHold` | a dentry created again keeps the parent it had (directory.cc:497), here a removed directory whose id was given out again: unlink a/b, rmdir a, mkdir c, create c/b, mkdir a, unlink c/b fails in `directory::remove` |
| `tlc -config MCNamespaceDots.cfg MCNamespace` | `MissesOnlySSD` | behind a component that is not cached the SSD looks up the rest of the path, `..` and cached names too: a file created and not written is not found, against path_utils.cc:317 |
| `tlc -config MCNamespaceBitmap.cfg MCNamespace` | `BitmapAssertsHold` | `1U << off` (directory.cc:562) cannot make the upper bits of a 64-bit word |

Bounds. Positions on the ring matter only modulo its size, and four blocks
admit every order of head, tail and a record's bounds, wrapped or not; four
transactions of up to three blocks go round it more than twice. Two outstanding
transactions are the most with which the waits return; the third is what
`protect_deadlock` needs. Two SIT blocks and two NAT blocks with caches of one
make every access to the other block a replacement; four segments of two blocks
let the active segments fill and the free ones run out. Two commands on one
channel are what contention for its lock, one poll delivering for two and
reordered completions need; one id per query makes the second finished task
wait for another query. Two threads and one cached page make every second
access a replacement; two blocks are what a torn read or an overtaking write
needs, and a third is what it takes to free a page under a thread about to unpin
it. With two pointers per node, a tree of 19 blocks has every kind of node, a
boundary between any two, and a triple and a double node with a child missing;
a cache of two nodes cannot hold a path of it. Sizes of 1, 1.5, 2, 6 and 19
blocks put the end of the file at a boundary, inside a block and inside nodes
of each kind.
Two slots per block make three names overflow the first level; five steps
are enough to create, sync, unlink, release and crash, and what needs six is
started from the used file system. `CHECK_DEADLOCK FALSE` stands where the
bounds on operations and transactions stop the model, or where a violation run
may do so first; in the `comm` runs every call may have returned, or the polling
thread may have gone down on an error with callers still waiting.

Fairness. Each thread that can take a step takes it in the end (weak fairness:
they are operating-system threads), the poll timer fires and the SSD works
through its ring. A thread blocked on a mutex that others take and release is
given strong fairness, which is what `std::mutex` offers in practice and the
code relies on. Nothing is assumed about callers: no one has to commit, stop or
search, but an API thread that holds `fs_meta_lock` goes on and gives it back.
In `CommSession` a call that was begun, the polling thread, a fini that was
begun, the query timer and the SSD are weakly fair; weak fairness is enough for
the polling thread because it never waits for a channel or for a waiter's
mutex, and nobody has to start a command or call fini. In `FileIo` only this
is assumed: while threads inside a call can step, one of them does. Since calls
are bounded by `MaxOps`, that is enough for each of them, and nothing is assumed
about the order in which a lock is given.

## Proofs

Each theorem holds for every value of the constants that the named assumptions
of its component's module admit: any number of threads, transactions, commands,
blocks and crashes, where the runs have two or three.

| module | theorems | assumptions |
|---|---|---|
| `JournalProcessorProofs` | `TypeCorrect`, `SpaceCorrect` (`SpaceAccounting`), `NoOverwrite` (`WritesOnlyFreeBlocks`), `OrderCorrect` (`CommitOrder`) | a journal area of two blocks or more, journals that fit (`AreaAssumption`, `SizeAssumption`) |
| `JournalRingProofs` | `RingCorrect` (`RingHoldsJournals`), `NotifyCorrect` (`NotifyOnlyApplied`) | the same |
| `JournalServiceProofs` | `ServiceSafety`: `JournalProcessor` implements `TxService`, fairness apart | the same |
| `ReplaceProtectProofs` | `TypeCorrect`, `ListMatchesJournal` (`TrpListMatchesJournal`), `ProtectionIsAccounted`, `SearchIsConsistent`, `FiniIsComplete` | two transactions are left for fini's write backs (`BoundAssumption`), names of threads differ (`ApiAssumption`) |
| `CommSessionProofs`, on the lists of `CommQueueProofs` | `BufferSafe` (`NoAnswerInFlight`), `QueryOnce` (`QueryOutstandingOnce`), `QueuesSound` (`QueuesHoldLiveContexts`) | `CommandAssumption`, `DeviceAssumption` |
| `CommServiceProofs` | `ServiceSafety`: `CommSession` implements `CommandService`, fairness apart; `ChannelsAreBalanced`, `TypeCorrect` | the same; the last two under `NoRefusal` |
| `FileIoProofs` | `TypeCorrect`, `HeldPages` (`HeldPagesStay`), `AppendsAtTheEnd` (`AppendsNeverOverwrite`), `WritesAreKept` (`WrittenIsKept`), `FsyncIsComplete` (`FsyncSaves`), `ReadsAreWhole` (`ReadsDoNotTear`) | finitely many threads, a cache of at least one page (`ThreadAssumption`, `SizeAssumption`, `BoundAssumption`, `FdAssumption`) |

`NoRefusal` is the one hypothesis that the code does not give: no asynchronous
long command is refused by the SSD. `session.c` frees the context of a refused
one and gives its channel back, and puts it on `tid_queue` all the same, from
where both happen again (`RefusedLongLeaves` below); the channel's counter is
then one too low, and the theorem would be false.

*Journal layer.* `SpaceAccounting` and `CommitOrder` are not inductive alone.
`IInv` adds: while the thread is in `publish`, the journal in hand is one it had
space for, which is needed because the test and the use of the free space are
different steps with the SSD moving in between. `OrderInv` says `CommitOrder` of
the four lists one by one, so that a step that moves a journal from one list to
the next is arithmetic on their lengths. Lemmas about `Dist` and `Advance` say
how the three distances change when the tail, the SSD's head or the poll moves,
with each wrap-around a case of its own.
`RingInv` takes the ring as a stream: the blocks published so far are the
applied ones followed by the live ones from the head on, and while the thread
is in `publish` the journal in hand lies behind the tail. `ChainInv` gives each
record the place in that stream where its journal ends: the ends lie one
journal apart, the last one at the tail, the front one begins no later than the
head last polled. That makes the code's comparison of positions, ambiguous by
itself on a ring, the same as "the last block is applied", which is
`NotifyOnlyApplied`.
For the refinement a transaction's abstract status is a function of three
numbers (the last one that left the layer, the last one written, the next to
allocate) and of what was lost, reported and applied in full; `HistoryInv` says
that published blocks come in order and only whole transactions are followed by
others. Each step is then shown to be one of `TxService!Next` or to change no
status.

*Replace protection.* Reported transactions leave `trp_list` in order, so the
places a protection can be in are consecutive intervals of transaction numbers:
released, being run, queued, carried by the journal thread. `PipelineInv` says
so by lengths, `StatusInv` ties the intervals to the service's status,
`LockInv` says who holds `fs_meta_lock`, and `SearchInv` and `FiniInv` are what
the two waits leave true while the lock is held. `RoundInv` shows that a second
round of fini leaves no metadata behind.

*Communication.* `CmdInv` says of each command which of seven phases it is in:
not sent, sent, completed, its completion seen, and the same for the query for
its result, with what caller, driver and history look like in each and on which
queue its context is. `QueueInv` says the four queues hold distinct contexts
(refused commands apart) and the polling thread's cursor is on the queue it
walks. `QueryInv` ties the query's timer, context and place. `ChannelsBalanced`
needs besides that the live contexts are finitely many. For the refinement the
abstract status of a command is read off caller, answers and posted
completions.

*File I/O.* The page cache is proved first, as operators, whoever the handles
belong to: `CacheOK(c, h)` says of a cache `c` and a count `h` of the threads'
handles per entry that a live entry's count is its handles and its place in
`dirty_pages`, that no block has two live entries, and that the list of
replaceable pages names each page at most once and only pages without handles.
Each operation has a lemma (`GetOK`, `DropRefOK`, `UnpinOK`, `MarkDirtyOK`,
`TruncateOK`, `ClearOK`) from one such pair to the next. `Shape` and `Owner` say
what each thread has at each point of its call, and `HeldBy` counts from that.
That the count may drop to zero in one step and the page be unpinned in another
is why `Replaceable` allows a page that is neither held nor on the list.
`AppendInv` has the exclusion of `file_op_lock`, that what lies at or past the
size belongs to a write under way, and that nothing was written where an
append is going. That each dirty page gets an address of its own at write back
is a count of the dirty pages up to it (`Ranks`, `NewAddresses`).
`WrittenIsKept` looks at one place only, the page if it is ready and the SSD
otherwise, and a step can change which of the two is looked at. `KeptInv`
therefore says it of both: a dirty page is ready, a ready page of a written block
holds the last write, and a written block without a dirty page is inside the
inode's size at an address that holds its last write. `AddrInv` is what write
back and truncation need: a block's address is valid, no two blocks share one,
and a ready page remembers its block's address or one that is no longer valid, so
that invalidating an old address never takes another block's. `Saved` keeps what
write back left true until fsync returns, when the lock lets nobody else in.
`ReadsDoNotTear` looks at a read that is done, so the invariant has to follow a
read and a write while both are under way. `LockInv` is the coupling of the page
locks: a thread in the middle of its range has the lock of the page just behind
it, hence two threads that have both passed a block are never about to copy the
same one (`Apart`, `NotBoth`). `IdInv` says where a write under way has left its
number: in the history of exactly the blocks it has passed, on dirty pages of
those blocks, nowhere on the SSD, and in what others read only at those blocks;
numbers not used yet are nowhere. `TearInv` says of a read under way and any
write that the read is `Before` it (it has seen it in no block passed, and the
write is in no block to come) or `After` it (it has seen it in every block passed
that the write covers). A copy could break it only where one of the two catches
up with the other in the middle of both ranges (`NotMet`, `NotPassed`), which the
locks exclude. That the page read holds the last write is `KeptInv`.

Where a proof needs "the first" of something it takes the least number, since
induction over data is out of the prover's reach.

Only model-checked:

- liveness, since the prover has no fairness: the fair halves of
  `ImplementsService` and `ImplementsCommandService`, `StopReturns`,
  `WaitReturns`, `FiniReturns`, `SessionFiniReturns`, `CallsReturn`;
- `MetaTables`, which needs the bitwise or of `SET_NEXT_SEG`;
- `FileMapping` and `Namespace`, whose operations are folds over paths and index
  trees: what they compute takes induction over data.

## What is not modelled, and the plan

Each component PROJECT.json lists as partly or not modelled has its reason
there. Besides the details each module leaves out above:

- the packing of journal entries into blocks by `journal_writer`, which is what
  bounds a journal's size against the ring's;
- segments of 512 blocks, whose count saturates at 511 (SIT_utils.cc:68): out of
  TLC's reach;
- the replacement of directory blocks, and `remove_ino_blks`, which erases
  entries without reducing the cache's size (dir_data_block_cache.hh:210);
- fini against tasks of the server thread that change the same caches without a
  lock (fs_manager.cc:96): the comment there says the caller is alone;
- fsync before the journal is durable (fsync.cc:26, a TODO of the code):
  `TxService` says what holds instead;
- the polling thread's broadcast on a condition variable that may be gone
  (session.c:438) and a query outstanding at its exit (session.c:384): the model
  reaches both, and nothing in the repository says what is meant.

What remains to be proved: pinning in `VersionCache`.

Logging, debugging output and vendored headers have no effect on the state and
stay out; so do mkfs's I/O, start-up reads and the wrappers of system calls.
