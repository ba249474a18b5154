------------------------------ MODULE Namespace ------------------------------
(***************************************************************************)
(* The names of files: path lookup, the dentry cache, directories, links,  *)
(* file objects and descriptors, with write back, restart and crash.       *)
(*                                                                         *)
(* Every API call holds fs_meta_lock and is one step; open with O_TRUNC    *)
(* lets go of it once and is two.  What a file contains is FileIo's, how   *)
(* its blocks are found FileMapping's.                                     *)
(*                                                                         *)
(* The state s is a record that the operators take and return:             *)
(*   inode, blk    the inodes and directory blocks as the host sees them   *)
(*   dinode, dblk  the inodes and the blocks <<dir, blkno>> that are dirty *)
(*   fresh         the inodes that were never written                      *)
(*   jrnl          whether cur_journal has entries that no write back made *)
(*   free          the chain of free node ids                              *)
(*   held          nodes in records of transactions; late: those of them   *)
(*                 deleted since, whose ids are freed with the record      *)
(*   dc            dentry_cache, by key <<dir_ino, name>>                  *)
(*   file, lru     file_obj_cache and its unpinned entries, oldest first   *)
(*   fds           the open descriptors and their files                    *)
(*   ssd           inode, blk and free as the last transaction left them   *)
(*   failed        the assert that ended the process, or "none"            *)
(*                                                                         *)
(* dentry_handle has no destructor: a dentry that was ever handed out has  *)
(* references left and dentry_cache replaces none of them.  So a dentry    *)
(* stays cached until restart, and dc only grows.                          *)
(***************************************************************************)
EXTENDS Directory

CONSTANTS
    NumNids,             \* bound: node ids
    Paths,               \* the paths that calls are given, as sequences of names
    file_expect_size,    \* file objects kept in the cache
    MaxOps               \* bound: calls

VARIABLES
    s,
    pend,    \* the descriptor whose file an open has still to truncate, or NoFd
    ops,     \* calls made so far
    lost     \* history: inodes that had no name when a crash came

vars == <<s, pend, ops, lost>>

ROOT == 1
RootKey == <<ROOT, "/">>
NoKey == <<>>
NoFd == -1

Fail(t, what) == IF t.failed = "none" THEN [t EXCEPT !.failed = what] ELSE t

-------------------------------------------------------------------------------
\* Inodes and their write back.
NewInode(type) == [type |-> type, nlink |-> 1, dnum |-> 0, depth |-> 0]
EmptyDir == [b \in 0 .. LevelBlocks(0) - 1 |-> {}]

\* create_generic_file and create_directory.
create_inode(t, type) ==
    LET n == Head(t.free)
    IN  [t EXCEPT !.inode = (n :> NewInode(type)) @@ @, !.free = Tail(@),
                  !.blk = IF type = "dir" THEN (n :> EmptyDir) @@ @ ELSE @,
                  !.dinode = @ \cup {n}, !.fresh = @ \cup {n}, !.jrnl = TRUE]

\* delete_file and delete_dir_with_data_cache.
delete_file_FreesNow(t, n) ==
    [t EXCEPT !.inode = Restrict(@, DOMAIN @ \ {n}), !.blk = Restrict(@, DOMAIN @ \ {n}),
              !.dinode = @ \ {n}, !.fresh = @ \ {n}, !.dblk = {k \in @ : k[1] # n},
              !.late = IF n \in t.held THEN @ \cup {n} ELSE @, !.free = <<n>> \o @, !.jrnl = TRUE]
delete_file(t, n) ==
    IF n \notin DOMAIN t.inode THEN Fail(t, "nid") ELSE
    [t EXCEPT !.inode = Restrict(@, DOMAIN @ \ {n}), !.blk = Restrict(@, DOMAIN @ \ {n}),
              !.dinode = @ \ {n}, !.fresh = @ \ {n}, !.dblk = {k \in @ : k[1] # n},
              !.late = IF n \in t.held THEN @ \cup {n} ELSE @,
              !.free = IF n \in t.held THEN @ ELSE <<n>> \o @, !.jrnl = TRUE]

\* write_meta_back_sync.  A block written has its address changed in the
\* directory's nodes, so these are written too.  A node that a record holds is
\* in the NAT until the record goes.
write_meta_back_sync(t) ==
    LET written == t.dinode \cup {k[1] : k \in t.dblk}
        onSSD(n) == n \in written \/ n \in DOMAIN t.ssd.inode
        oldBlock(n, b) == IF n \in DOMAIN t.ssd.blk \ t.fresh /\ b \in DOMAIN t.ssd.blk[n]
                          THEN t.ssd.blk[n][b] ELSE {}
    IN  IF written = {} /\ ~t.jrnl THEN t ELSE
        [t EXCEPT
           !.ssd.inode = [n \in {n \in DOMAIN t.inode : onSSD(n)} \cup t.late |->
                            IF n \in written THEN t.inode[n] ELSE @[n]],
           !.ssd.blk = [n \in {n \in DOMAIN t.blk : onSSD(n)} |->
                          IF n \in written
                          THEN [b \in DOMAIN t.blk[n] |->
                                  IF <<n, b>> \in t.dblk THEN t.blk[n][b] ELSE oldBlock(n, b)]
                          ELSE @[n]],
           !.ssd.free = t.free, !.held = @ \cup written,
           !.dinode = {}, !.fresh = {}, !.dblk = {}, !.jrnl = FALSE,
           !.dc = [k \in DOMAIN @ |-> [@[k] EXCEPT !.dirty = FALSE]]]

\* The tasks of the transactions applied drop their records; ids come free in
\* the order of the records' lists.
Released(t, order) ==
    [t EXCEPT !.held = {}, !.late = {}, !.free = Reverse(order) \o @,
              !.jrnl = @ \/ order # <<>>]

-------------------------------------------------------------------------------
\* The dentry cache.
dentry(ino, parent) ==
    [ino |-> ino, type |-> "unknown", state |-> "valid", dirty |-> FALSE,
     parent |-> parent, pos |-> NoPos]

is_newly_created(d) == d.state = "valid" /\ d.dirty

AddDentry(t, k, parent, ino) ==
    IF k \in DOMAIN t.dc \/ parent \notin DOMAIN t.dc THEN Fail(t, "dentry")
    ELSE [t EXCEPT !.dc = (k :> dentry(ino, parent)) @@ @]

\* get_type reads it from the inode the first time.
get_type(t, k) ==
    IF t.dc[k].type # "unknown" THEN t
    ELSE IF t.dc[k].ino \notin DOMAIN t.inode THEN Fail(t, "nid")
    ELSE [t EXCEPT !.dc[k].type = t.inode[t.dc[k].ino].type]

\* One component looked up by the SSD in what it has, from dentry a.cur on; d
\* is what it finds, and t the state with its dentry added.
SSDHas(v, dir, name) ==
    IF dir \in DOMAIN v.blk /\ name \in Names THEN lookup(v, dir, name) ELSE Absent(NoPos)
SSDReach(a, t, k, pos) ==
    IF t.failed # "none" THEN [a EXCEPT !.s = t, !.cur = NoKey]
    ELSE [a EXCEPT !.cur = k, !.s = IF pos # NoPos THEN [t EXCEPT !.dc[k].pos = pos] ELSE t]
SSDFinds(a, k, d, last) ==
    IF d.ino = INVALID_NID THEN [a EXCEPT !.cur = NoKey, !.hint = IF last THEN d.pos ELSE NoPos]
    ELSE SSDReach(a, AddDentry(a.s, k, a.cur, d.ino), k, IF last THEN d.pos ELSE NoPos)
SSDLookup(a, path, i) ==
    LET dir == a.s.dc[a.cur].ino
    IN  IF path[i] = "." THEN a
        ELSE IF path[i] = ".." THEN [a EXCEPT !.cur = a.s.dc[a.cur].parent]
        ELSE IF dir \notin DOMAIN a.s.ssd.inode THEN [a EXCEPT !.s = Fail(@, "ssd nid"), !.cur = NoKey]
        ELSE SSDFinds(a, <<dir, path[i]>>, SSDHas(a.s.ssd, dir, path[i]), i = Len(path))

\* The component is not cached: the rest of the path is the SSD's to look up.
\* The SSD knows nothing of a directory that is newly created; it is written
\* back first.
Miss_NoWriteBack(a, path, i) == SSDLookup([a EXCEPT !.ssd = TRUE], path, i)
MissIn(a, t, path, i) ==
    IF is_newly_created(t.dc[a.cur]) THEN [a EXCEPT !.s = Fail(t, "newly created"), !.cur = NoKey]
    ELSE SSDLookup([a EXCEPT !.s = t, !.ssd = TRUE], path, i)
Miss(a, path, i) ==
    MissIn(a, IF is_newly_created(a.s.dc[a.cur]) THEN write_meta_back_sync(a.s) ELSE a.s, path, i)

\* do_path_lookup from dentry start: the state after it, the dentry reached or
\* NoKey, and the place for creating the last component if the SSD gave one.
CachedLookup(a, path, i) ==
    LET k == <<a.s.dc[a.cur].ino, path[i]>>
    IN  IF \/ a.s.failed # "none"
           \/ a.s.dc[a.cur].type # "dir" \/ a.s.dc[a.cur].state # "valid" THEN [a EXCEPT !.cur = NoKey]
        ELSE IF path[i] = "." THEN a
        ELSE IF path[i] = ".." THEN [a EXCEPT !.cur = a.s.dc[a.cur].parent]
        ELSE IF k \in DOMAIN a.s.dc THEN [a EXCEPT !.cur = k]
        ELSE Miss(a, path, i)
do_path_lookup(t, start, path) ==
    LET Step(a, i) ==
            IF a.cur = NoKey THEN a
            ELSE IF a.ssd THEN SSDLookup(a, path, i)
            ELSE CachedLookup([a EXCEPT !.s = get_type(@, a.cur)], path, i)
    IN  FoldLeft(Step, [s |-> t, cur |-> start, ssd |-> FALSE, hint |-> NoPos],
                 [i \in 1 .. Len(path) |-> i])

\* is_exist, and the type asked for if it does.
Exists(a) == a.cur # NoKey /\ a.s.dc[a.cur].state = "valid"
WithType(a) == IF Exists(a) THEN [a EXCEPT !.s = get_type(@, a.cur)] ELSE a
Is(a, type) == Exists(a) /\ a.s.dc[a.cur].type = type
Lookup(t, path) == WithType(do_path_lookup(t, RootKey, path))
LookupIn(a, name) == WithType(do_path_lookup(a.s, a.cur, <<name>>))

-------------------------------------------------------------------------------
\* Entries made and removed in a directory.

\* get_create_pos: the place the SSD gave if it is still free, or the first in
\* the name's buckets, or one in a new level.
PosIn(t, d) == [s |-> IF d.pos = NoPos THEN Fail(t, "no room") ELSE t, pos |-> d.pos]
PosInNewLevel(t, dir, name) == PosIn(t, lookup(t, dir, name))
PosFound(t, dir, name, d) ==
    IF d.ino # INVALID_NID THEN [s |-> Fail(t, "exists"), pos |-> d.pos]
    ELSE IF d.pos # NoPos THEN [s |-> t, pos |-> d.pos]
    ELSE PosInNewLevel(append_hash_level(t, dir), dir, name)
get_create_pos(t, dir, name, hint) ==
    IF is_create_pos_valid(t, dir, name, hint) THEN [s |-> t, pos |-> hint]
    ELSE PosFound(t, dir, name, lookup(t, dir, name))

\* create_dentry: the entry in its block, and its dentry, which may be that of
\* an entry of this name deleted before.
NamedDentry(t, k, dk, ino) ==
    IF k \in DOMAIN t.dc
    THEN [(IF t.dc[k].state = "deleted" THEN t ELSE Fail(t, "dentry"))
            EXCEPT !.dc[k].state = "valid", !.dc[k].ino = ino]
    ELSE AddDentry(t, k, dk, ino)
create_dentry(t, dk, name, type, ino, pos) ==
    LET dir == t.dc[dk].ino
        k == <<dir, name>>
    IN  IF t.failed # "none" THEN t
        ELSE IF ~CanSetBits(t.blk[dir][pos[1]], name, pos[2]) THEN Fail(t, "bitmap")
        ELSE [NamedDentry(t, k, dk, ino) EXCEPT
                !.blk[dir][pos[1]] = @ \cup {[name |-> name, ino |-> ino, type |-> type, slot |-> pos[2]]},
                !.dblk = @ \cup {<<dir, pos[1]>>},
                !.dc[k].pos = pos, !.dc[k].type = type, !.dc[k].dirty = TRUE,
                !.inode[dir].dnum = @ + 1, !.dinode = @ \cup {dir}]

\* directory::create and directory::link.
CreateAt(p, dk, name, type) ==
    create_dentry(create_inode(p.s, type), dk, name, type, Head(p.s.free), p.pos)
create(t, dk, name, type, hint) == CreateAt(get_create_pos(t, t.dc[dk].ino, name, hint), dk, name, type)
LinkAt(p, dk, name, ino) == create_dentry(p.s, dk, name, "file", ino, p.pos)
link_entry(t, dk, name, ino, hint) == LinkAt(get_create_pos(t, t.dc[dk].ino, name, hint), dk, name, ino)

\* directory::remove of dentry k, on the directory that k's parent dentry has.
\* The place of the entry is k's, which is checked, or is looked up.
RemoveFrom(t, k, dir, d) ==
    LET at == t.dc[k].pos
        asserts == /\ dir \in DOMAIN t.blk
                   /\ at # NoPos => at[1] \in DOMAIN t.blk[dir]
                   /\ d.ino = t.dc[k].ino
                   /\ at # NoPos => d.type = t.dc[k].type /\ d.pos = at
    IN  IF ~asserts THEN Fail(t, IF dir = k[1] THEN "remove" ELSE "parent")
        ELSE [t EXCEPT !.blk[dir][d.pos[1]] = {e \in @ : e.name # k[2]},
                       !.dblk = @ \cup {<<dir, d.pos[1]>>},
                       !.dc[k].pos = d.pos,
                       !.inode[dir].dnum = @ - 1, !.dinode = @ \cup {dir}]
remove(t, k) ==
    LET dir == t.dc[t.dc[k].parent].ino
        at == t.dc[k].pos
    IN  RemoveFrom(t, k, dir, IF at = NoPos THEN lookup(t, dir, k[2])
                              ELSE find_dentry_in_block(t, dir, at[1], k[2]))

\* The end of unlink and rmdir.
RemoveDentry_StaysValid(t, k) == remove([t EXCEPT !.dc[k].dirty = TRUE], k)
RemoveDentry(t, k) ==
    remove([t EXCEPT !.dc[k].state = "deleted", !.dc[k].dirty = TRUE], k)

-------------------------------------------------------------------------------
\* File objects.  ref counts the handles: one per descriptor, one in
\* dirty_files, one of an open that has still to truncate.
AddRef(t, n) == [t EXCEPT !.file[n].ref = @ + 1, !.lru = SelectSeq(@, LAMBDA m : m # n)]
SubRef(t, n) ==
    [t EXCEPT !.file[n].ref = @ - 1, !.lru = IF t.file[n].ref = 1 THEN Append(@, n) ELSE @]

do_relpace(t) ==
    IF Cardinality(DOMAIN t.file) <= file_expect_size THEN t
    ELSE LET num == Min({Cardinality(DOMAIN t.file) - file_expect_size, Len(t.lru)})
             out == ToSet(SubSeq(t.lru, 1, num))
         IN  [t EXCEPT !.file = Restrict(@, DOMAIN @ \ out), !.lru = SubSeq(@, num + 1, Len(@))]

\* get_file_obj: a new object has its metadata from the inode.
get_file_obj(t, n) ==
    IF n \in DOMAIN t.file THEN AddRef(t, n)
    ELSE IF n \notin DOMAIN t.inode THEN Fail(t, "nid")
    ELSE do_relpace([t EXCEPT !.file =
                       (n :> [ref |-> 1, fd |-> 0, nlink |-> t.inode[n].nlink, dirty |-> FALSE]) @@ @])

MarkFileDirty(t, n) == IF t.file[n].dirty THEN t ELSE AddRef([t EXCEPT !.file[n].dirty = TRUE], n)
ClearFileDirty(t, n) == IF t.file[n].dirty THEN SubRef([t EXCEPT !.file[n].dirty = FALSE], n) ELSE t

\* file_handle::delete_file with file_obj_cache::remove_file.
DeleteThroughHandle(t, n) ==
    LET f == t.file[n]
        asserts == f.nlink = 0 /\ f.fd = 0 /\ f.ref = IF f.dirty THEN 2 ELSE 1
        u == delete_file(t, n)
    IN  IF ~asserts THEN Fail(t, "file refs")
        ELSE [u EXCEPT !.file = Restrict(@, DOMAIN @ \ {n})]

\* add_nlink and sub_nlink: the inode, and the file object if there is one.
SetNlink(t, n, nlink) ==
    LET u == [t EXCEPT !.inode[n].nlink = nlink, !.dinode = @ \cup {n},
                       !.file = IF n \in DOMAIN @ THEN [@ EXCEPT ![n].nlink = nlink] ELSE @]
    IN  IF t.inode[n].nlink + nlink < 1 \/ (n \in DOMAIN t.file /\ t.file[n].nlink # t.inode[n].nlink)
        THEN Fail(u, "nlink") ELSE u

\* do_close.
NextFd(t) == Min((3 .. 3 + Cardinality(DOMAIN t.fds)) \ DOMAIN t.fds)
do_close(t, fd) ==
    LET n == t.fds[fd]
        u == [t EXCEPT !.fds = Restrict(@, DOMAIN @ \ {fd}), !.file[n].fd = @ - 1]
    IN  IF u.file[n].fd = 0 /\ u.file[n].nlink = 0 THEN DeleteThroughHandle(u, n) ELSE SubRef(u, n)

-------------------------------------------------------------------------------
\* The API calls.  Each may find an error first; what the lookups cached stays.
Opened(t, fd, n, trunc) ==
    LET o == [t EXCEPT !.fds = (fd :> n) @@ @, !.file[n].fd = @ + 1]
    IN  IF t.failed # "none" THEN t ELSE IF trunc THEN AddRef(o, n) ELSE o
OpenFd(t, n, trunc) ==
    /\ s' = IF t.failed # "none" THEN t ELSE Opened(get_file_obj(t, n), NextFd(t), n, trunc)
    /\ pend' = IF trunc /\ s'.failed = "none" THEN NextFd(t) ELSE pend

open(p, creat, trunc) ==
    \E d \in {Lookup(s, Front(p))} : \E t \in {LookupIn(d, Last(p))} :
        \/ ~Is(d, "dir") /\ s' = d.s /\ UNCHANGED pend                             \* ENOENT
        \/ Is(d, "dir") /\ ~Exists(t) /\ ~creat /\ s' = t.s /\ UNCHANGED pend      \* ENOENT
        \/ Is(d, "dir") /\ Is(t, "dir") /\ s' = t.s /\ UNCHANGED pend              \* EISDIR
        \/ /\ Is(d, "dir") /\ ~Exists(t) /\ creat
           /\ OpenFd(create(t.s, d.cur, Last(p), "file", t.hint), Head(t.s.free), trunc)
        \/ Is(d, "dir") /\ Is(t, "file") /\ OpenFd(t.s, t.s.dc[t.cur].ino, trunc)

\* The rest of open with O_TRUNC, after it has let go of fs_meta_lock and taken
\* file_op_lock: truncate says whether the size was another.  Nobody has been
\* given the descriptor yet.
open_truncates(changed) ==
    /\ pend # NoFd
    /\ LET n == s.fds[pend]
           t == IF changed THEN MarkFileDirty([s EXCEPT !.dinode = @ \cup {n}], n) ELSE s
       IN  s' = SubRef(t, n)
    /\ pend' = NoFd

close(fd) == s' = do_close(s, fd) /\ UNCHANGED pend

\* read, write or truncate of an open file.
write(fd) == s' = MarkFileDirty(s, s.fds[fd]) /\ UNCHANGED pend

fsync(fd) ==
    LET n == s.fds[fd]
        t == ClearFileDirty(s, n)
    IN  s' = write_meta_back_sync([t EXCEPT !.dinode = @ \cup {n}]) /\ UNCHANGED pend

link(old, new) ==
    /\ \E o \in {Lookup(s, old)} : \E d \in {Lookup(o.s, Front(new))} : \E t \in {LookupIn(d, Last(new))} :
           \/ ~Is(o, "file") /\ s' = o.s                                 \* ENOENT, EISDIR
           \/ Is(o, "file") /\ ~Is(d, "dir") /\ s' = d.s                 \* ENOENT
           \/ Is(o, "file") /\ Is(d, "dir") /\ Exists(t) /\ s' = t.s     \* EEXIST
           \/ /\ Is(o, "file") /\ Is(d, "dir") /\ ~Exists(t)
              /\ LET n == t.s.dc[o.cur].ino
                 IN  s' = link_entry(SetNlink(t.s, n, t.s.inode[n].nlink + 1), d.cur, Last(new), n, t.hint)
    /\ UNCHANGED pend

\* A file whose last name goes is deleted now, through its file object if it has
\* one, unless a descriptor is open: then close does it.
DeleteUnlessOpen_Always(t, n) == delete_file(t, n)
DeleteUnlessOpen(t, n) ==
    IF n \notin DOMAIN t.file THEN delete_file(t, n)
    ELSE IF t.file[n].fd > 0 THEN t
    ELSE DeleteThroughHandle(AddRef(t, n), n)

DropName(t, n, nlink) ==
    IF nlink = 0 THEN DeleteUnlessOpen(SetNlink(t, n, 0), n) ELSE SetNlink(t, n, nlink)

unlink(p) ==
    /\ \E o \in {Lookup(s, p)} :
           \/ ~Is(o, "file") /\ s' = o.s                                 \* ENOENT, EISDIR
           \/ /\ Is(o, "file")
              /\ LET n == o.s.dc[o.cur].ino
                 IN  s' = RemoveDentry(DropName(o.s, n, o.s.inode[n].nlink - 1), o.cur)
    /\ UNCHANGED pend

mkdir(p) ==
    /\ \E d \in {Lookup(s, Front(p))} : \E t \in {LookupIn(d, Last(p))} :
           \/ ~Is(d, "dir") /\ s' = d.s                                  \* ENOENT
           \/ Is(d, "dir") /\ Exists(t) /\ s' = t.s                      \* EEXIST
           \/ Is(d, "dir") /\ ~Exists(t) /\ s' = create(t.s, d.cur, Last(p), "dir", t.hint)
    /\ UNCHANGED pend

rmdir(p) ==
    /\ \E o \in {Lookup(s, p)} :
           LET n == o.s.dc[o.cur].ino IN
           \/ ~Is(o, "dir") /\ s' = o.s                                  \* ENOENT, ENOTDIR
           \/ Is(o, "dir") /\ o.s.inode[n].dnum # 0 /\ s' = o.s          \* ENOTEMPTY
           \/ /\ Is(o, "dir") /\ o.s.inode[n].dnum = 0
              /\ s' = RemoveDentry(delete_file(SetNlink(o.s, n, o.s.inode[n].nlink - 1), n), o.cur)
    /\ UNCHANGED pend

\* The records of all transactions applied so far go.
ReleaseRecords ==
    /\ s.held # {}
    /\ \E order \in SetToSeqs(s.late) : s' = Released(s, order)
    /\ UNCHANGED pend

-------------------------------------------------------------------------------
\* file_system_manager::init over what the SSD has, and fini.
Mounted(v) ==
    [inode |-> v.inode, blk |-> v.blk, free |-> v.free,
     dinode |-> {}, fresh |-> {}, dblk |-> {}, jrnl |-> FALSE, held |-> {}, late |-> {},
     dc |-> RootKey :> dentry(ROOT, RootKey),
     file |-> <<>>, lru |-> <<>>, fds |-> <<>>, ssd |-> v, failed |-> "none"]

WriteDirtyFiles(t) ==
    LET D == {n \in DOMAIN t.file : t.file[n].dirty}
    IN  [FoldLeft(ClearFileDirty, t, SetToSeq(D)) EXCEPT !.dinode = @ \cup D]

\* write_back_all_dirty_sync: descriptors, dirty files, metadata, and again what
\* the records let go of made dirty.
ReleasedInOrder(t) == Released(t, SetToSeq(t.late))
write_back_all_dirty_sync(t) ==
    LET closed == FoldLeft(do_close, t, SetToSeq(DOMAIN t.fds))
    IN  write_meta_back_sync(ReleasedInOrder(write_meta_back_sync(WriteDirtyFiles(closed))))

Remount ==
    /\ pend = NoFd
    /\ \E t \in {write_back_all_dirty_sync(s)} :
          s' = IF t.failed = "none" THEN Mounted(t.ssd) ELSE t
    /\ UNCHANGED <<pend, lost>>

\* The entries of all directories of a view, and the inodes that none names.
Entries(v) ==
    UNION {UNION {{d} \X {b} \X v.blk[d][b] : b \in DOMAIN v.blk[d]} : d \in DOMAIN v.blk}
Unnamed(v) == DOMAIN v.inode \ ({ROOT} \cup {x[3].ino : x \in Entries(v)})

Crash ==
    /\ s' = Mounted(s.ssd)
    /\ pend' = NoFd
    /\ lost' = Unnamed(s.ssd)

\* mkfs leaves an empty root.
Formatted ==
    [inode |-> ROOT :> NewInode("dir"), blk |-> ROOT :> EmptyDir,
     free |-> [i \in 1 .. NumNids - 1 |-> i + 1]]

\* A file system that was used before: directory "a" with a file in it.
InUse ==
    LET t == create(Mounted(Formatted), RootKey, "a", "dir", NoPos)
    IN  write_back_all_dirty_sync(create(t, <<ROOT, "a">>, "b", "file", NoPos)).ssd

Init == s \in {Mounted(Formatted), Mounted(InUse)} /\ pend = NoFd /\ ops = 0 /\ lost = {}

Next ==
    /\ s.failed = "none" /\ ops < MaxOps /\ ops' = ops + 1
    /\ \/ /\ \/ \E p \in Paths : \/ pend = NoFd /\ \E c, t \in BOOLEAN : open(p, c, t)
                                \/ unlink(p) \/ mkdir(p) \/ rmdir(p)
             \/ \E p, q \in Paths : link(p, q)
             \/ \E fd \in DOMAIN s.fds \ {pend} : close(fd) \/ write(fd) \/ fsync(fd)
             \/ \E changed \in BOOLEAN : open_truncates(changed)
             \/ ReleaseRecords
          /\ UNCHANGED lost
       \/ Remount
       \/ Crash

Spec == Init /\ [][Next]_vars
-------------------------------------------------------------------------------
Sound == s.failed = "none"

\* What makes a view a file system: every entry names an inode of its type, a
\* named inode has as many links as names and a directory's count is that of
\* its entries; no free node id is in use.
Whole(v) ==
    LET E == Entries(v) IN
    /\ \A x \in E : /\ x[3].ino \in DOMAIN v.inode
                    /\ v.inode[x[3].ino].type = x[3].type
                    /\ v.inode[x[3].ino].nlink = Cardinality({y \in E : y[3].ino = x[3].ino})
    /\ \A d \in DOMAIN v.blk : v.inode[d].dnum = Cardinality({x \in E : x[1] = d})
    /\ ToSet(v.free) \cap DOMAIN v.inode = {}

\* What any transaction leaves on the SSD, and what the host has at any time.
ViewsWhole == Sound => Whole(s.ssd) /\ Whole(s)

\* An inode without a name is a file that is still open, or one that a crash
\* left behind; an open file has its inode and its file object whatever was
\* unlinked, and objects agree with inodes and descriptors.
OpenFilesKept ==
    Sound => /\ \A fd \in DOMAIN s.fds : s.fds[fd] \in DOMAIN s.inode \cap DOMAIN s.file
             /\ Unnamed(s) \subseteq lost \cup {s.fds[fd] : fd \in DOMAIN s.fds}
             /\ \A n \in DOMAIN s.file :
                   /\ n \in DOMAIN s.inode /\ s.inode[n].type = "file"
                   /\ s.file[n].nlink = s.inode[n].nlink
                   /\ s.file[n].fd = Cardinality({fd \in DOMAIN s.fds : s.fds[fd] = n})

\* The dentry cache tells the truth about each directory, and where it has no
\* dentry for a name the SSD does.
Named(v, dir) == IF dir \in DOMAIN v.blk THEN UNION {v.blk[dir][b] : b \in DOMAIN v.blk[dir]} ELSE {}
Inos(v, dir, name) == {e.ino : e \in {f \in Named(v, dir) : f.name = name}}
LookupsTrue ==
    Sound => \A dir \in DOMAIN s.blk, name \in Names :
        LET k == <<dir, name>>
            here == Inos(s, dir, name)
        IN  IF k \notin DOMAIN s.dc THEN here = Inos(s.ssd, dir, name)
            ELSE here = IF s.dc[k].state = "valid" THEN {s.dc[k].ino} ELSE {}

\* The asserts of lookup, create, remove, link counts and file objects hold.
AssertsHold == Sound

\* The rest are false.
\* A dentry's parent is the directory it is in ("the parent directory in the
\* directory tree"), so the assert in directory::remove finds the entry there.
ParentsHold == s.failed # "parent"

\* A name whose dentry is not cached is one the SSD has and knows better: what is
\* added to the cache after an SSD lookup is not in it yet, and what the lookup
\* did not find does not exist.
MissesOnlySSD == s.failed \notin {"dentry", "exists"}

\* A block has room for NR_DENTRY_IN_BLOCK entries: the bit of a slot that was
\* found free can be set.
BitmapAssertsHold == s.failed # "bitmap"
===============================================================================
