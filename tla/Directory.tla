------------------------------ MODULE Directory ------------------------------
(***************************************************************************)
(* class directory: the hash levels of a directory file and the entries in *)
(* its blocks.                                                             *)
(*                                                                         *)
(* A view v has the inodes, v.inode, and the blocks of directories, v.blk: *)
(* v.blk[dir][b] is the set of entries in block b, each with the slot it   *)
(* begins at.  A hole and a block without entries are the same set.  The   *)
(* host has a view through its caches, the SSD one of what was written.    *)
(***************************************************************************)
EXTENDS Integers, FiniteSets, SequencesExt

CONSTANTS
    Names,                 \* names of directory entries
    Hash,                  \* hscfs_dentry_hash, a function on Names
    SLOTS,                 \* GET_DENTRY_SLOTS of a name's length, a function on Names
    NR_DENTRY_IN_BLOCK,    \* slots of a block
    BITS_PER_LONG,         \* bits in a word of a block's bitmap
    UINT_BITS,             \* bits of the constant 1U that the bitmap's bits are made from
    HALF_DEPTH             \* MAX_DIR_HASH_DEPTH / 2

ASSUME DirectoryAssumption ==
    /\ Hash \in [Names -> Nat] /\ SLOTS \in [Names -> 1 .. NR_DENTRY_IN_BLOCK]
    /\ BITS_PER_LONG \in Nat \ {0} /\ UINT_BITS \in 1 .. BITS_PER_LONG
    /\ HALF_DEPTH \in Nat \ {0}

INVALID_NID == 0
NoPos == <<>>      \* a dentry_store_pos that is not valid; else <<blkno, slotno>>

\* The shape of the hash levels; i_dir_level is zero in every directory.
bucket_num(level) == IF level < HALF_DEPTH THEN 2^level ELSE 2^(HALF_DEPTH - 1)
bucket_block_num(level) == IF level < HALF_DEPTH THEN 2 ELSE 4
LevelBlocks(level) == bucket_num(level) * bucket_block_num(level)
bucket_start_block_index(level, idx) ==
    MapThenSumSet(LevelBlocks, 0 .. level - 1) + idx * bucket_block_num(level)
Bucket(level, name) ==
    LET start == bucket_start_block_index(level, Hash[name] % bucket_num(level))
    IN  start .. start + bucket_block_num(level) - 1

\* The slots in use, and the first of the longest runs of free ones.
SlotsOf(name, slot) == slot .. slot + SLOTS[name] - 1
Used(B) == UNION {SlotsOf(e.name, e.slot) : e \in B}
RunFrom(B, p) == Min({q \in Used(B) \cup {NR_DENTRY_IN_BLOCK} : q >= p}) - p
LongestRun(B) == Max({RunFrom(B, p) : p \in 0 .. NR_DENTRY_IN_BLOCK - 1})
EmptyPos(B) == Min({p \in 0 .. NR_DENTRY_IN_BLOCK - 1 : RunFrom(B, p) = LongestRun(B)})

\* find_dentry_in_block: the entry, or else where it can be created.
Absent(pos) == [ino |-> INVALID_NID, type |-> "unknown", pos |-> pos]
find_dentry_in_block(v, dir, b, name) ==
    LET B == v.blk[dir][b]
        hit == {e \in B : e.name = name}
    IN  IF hit # {} THEN LET e == CHOOSE e \in hit : TRUE
                         IN  [ino |-> e.ino, type |-> e.type, pos |-> <<b, e.slot>>]
        ELSE IF SLOTS[name] <= LongestRun(B) THEN Absent(<<b, EmptyPos(B)>>)
        ELSE Absent(NoPos)

\* lookup: the buckets of the name, level by level, which is the order of their
\* block numbers; of the places where it could be created, the first.
SearchBlocks(v, dir, name, blks) ==
    LET found == {b \in blks : \E e \in v.blk[dir][b] : e.name = name}
        room == {b \in blks : SLOTS[name] <= LongestRun(v.blk[dir][b])}
    IN  IF found # {} THEN find_dentry_in_block(v, dir, Min(found), name)
        ELSE IF room # {} THEN find_dentry_in_block(v, dir, Min(room), name)
        ELSE Absent(NoPos)
lookup(v, dir, name) ==
    SearchBlocks(v, dir, name, UNION {Bucket(l, name) : l \in 0 .. v.inode[dir].depth})

\* is_create_pos_valid: a place within the file whose slots are free.
is_create_pos_valid(v, dir, name, pos) ==
    /\ pos # NoPos
    /\ pos[1] \in DOMAIN v.blk[dir]
    /\ SlotsOf(name, pos[2]) \cap Used(v.blk[dir][pos[1]]) = {}

\* append_hash_level: one level more, all of it a hole.
append_hash_level(v, dir) ==
    LET depth == v.inode[dir].depth + 1
        size == Cardinality(DOMAIN v.blk[dir]) + LevelBlocks(depth)
    IN  [v EXCEPT !.inode[dir].depth = depth,
                  !.blk[dir] = [b \in 0 .. size - 1 |-> IF b \in DOMAIN @ THEN @[b] ELSE {}],
                  !.dinode = @ \cup {dir}]

\* set_bitmap_pos can set these bits of a block's bitmap and no other: 1U << off
\* has no bit past the width of unsigned int, whatever a shift by off gives.
Settable == {p \in 0 .. NR_DENTRY_IN_BLOCK - 1 : p % BITS_PER_LONG < UINT_BITS}

\* The asserts of create_dentry_in_blk: each slot's bit is clear, and set after
\* set_bitmap_pos.
CanSetBits(B, name, slot) ==
    SlotsOf(name, slot) \cap Used(B) = {} /\ SlotsOf(name, slot) \subseteq Settable
===============================================================================
