-------------------------------- MODULE FileIo --------------------------------
(***************************************************************************)
(* One regular file: buffered, mapped and direct writes, writeback,        *)
(* truncate and fallocate (fs-io.c), with the accounting of i_size,        *)
(* i_sectors and i_blocks, and the repair after a crash (fs-gc.c).         *)
(*                                                                         *)
(* The unit is a page, written or not as a whole; v is its contents.  What *)
(* takes i_rwsem runs in sys, one system call at a time; writeback, mapped *)
(* writes, reclaim and direct writes in flight interleave with its steps.  *)
(* ei->i_size and ei->i_flags are equal to the inode in the btree.         *)
(***************************************************************************)
EXTENDS Integers, FiniteSets, FiniteSetsExt

CONSTANTS
    FPages,     \* 0 .. n, the pages of the file
    MaxFops     \* system calls, mapped writes and crashes

VARIABLES
    page,     \* page cache, struct bch_page_state included
    wb,       \* writebacks in flight: i_size when they began, sectors added
    dio,      \* asynchronous direct writes in flight
    ext,      \* extents btree
    di,       \* inodes btree
    isize,    \* inode->i_size
    iblocks,  \* inode->i_blocks
    isectors, \* ei->i_sectors
    sys,      \* system call in progress
    want,     \* what each page should read as
    harmed,   \* a failed write or truncate, or i_size set back by a direct write
    fops      \* operations so far

fiVars == <<page, wb, dio, ext, di, isize, iblocks, isectors, sys, want, harmed, fops>>

NoPage == [in |-> FALSE, dirty |-> FALSE, v |-> 0, alloc |-> FALSE, rsv |-> FALSE,
           sectors |-> 0, dirty_sectors |-> 0]
NoWb == [on |-> "no", new_i_size |-> 0, added |-> 0]
FHole == [t |-> "hole", v |-> 0]
Alloc(e) == IF e.t = "hole" THEN 0 ELSE 1               \* bkey_extent_is_allocation()
NoSys == [op |-> "none", p |-> 0, pc |-> "", flag |-> FALSE, zero |-> FALSE, sectors |-> 0]
MaxOf(a, b) == IF a > b THEN a ELSE b

FiInit ==
    /\ page = [p \in FPages |-> NoPage] /\ wb = [p \in FPages |-> NoWb]
    /\ dio = {} /\ ext = [p \in FPages |-> FHole]
    /\ di = [size |-> 0, sectors |-> 0, sizedirty |-> FALSE, secdirty |-> FALSE]
    /\ isize = 0 /\ iblocks = 0 /\ isectors = 0 /\ sys = NoSys
    /\ want = [p \in FPages |-> 0] /\ harmed = {} /\ fops = 0

More == fops < MaxFops /\ fops' = fops + 1
Locked == sys.op # "none"                               \* i_rwsem
Blocked == Locked \/ dio # {}                           \* pagecache_block_get()

----------------------------------------------------------------------------
\* The page cache

\* The state of a page that was read
bchfs_read(p) == [NoPage EXCEPT !.in = TRUE, !.v = ext[p].v, !.alloc = ext[p].t # "hole",
                          !.sectors = Alloc(ext[p])]

bch_readpage(p) ==
    /\ ~page[p].in /\ ~Blocked /\ p < isize
    /\ page' = [page EXCEPT ![p] = bchfs_read(p)]
    /\ UNCHANGED <<wb, dio, ext, di, isize, iblocks, isectors, sys, want, harmed, fops>>

bch_get_page_reservation(pg) == IF pg.alloc \/ pg.rsv THEN pg ELSE [pg EXCEPT !.rsv = TRUE]

bch_set_page_dirty(pg) ==
    IF pg.dirty THEN pg ELSE [pg EXCEPT !.dirty = TRUE, !.dirty_sectors = 1 - pg.sectors]

Dirtied(pg) == bch_set_page_dirty(bch_get_page_reservation([pg EXCEPT !.v = 1]))

\* bch_write_begin() and bch_write_end(); a page that is overwritten is not read
bch_write(p) ==
    /\ More /\ ~Blocked
    /\ \E pg \in IF page[p].in THEN {page[p]} ELSE {bchfs_read(p), [NoPage EXCEPT !.in = TRUE]} :
         /\ page' = [page EXCEPT ![p] = Dirtied(pg)]
         /\ iblocks' = iblocks + Dirtied(pg).dirty_sectors - pg.dirty_sectors
    /\ isize' = MaxOf(isize, p + 1)
    /\ want' = [want EXCEPT ![p] = 1]
    /\ UNCHANGED <<wb, dio, ext, di, isectors, sys, harmed>>

bch_page_mkwrite(p) ==
    /\ More /\ page[p].in /\ p < isize /\ ~Blocked
    /\ page' = [page EXCEPT ![p] = Dirtied(@)]
    /\ iblocks' = iblocks + Dirtied(page[p]).dirty_sectors - page[p].dirty_sectors
    /\ want' = [want EXCEPT ![p] = 1]
    /\ UNCHANGED <<wb, dio, ext, di, isize, isectors, sys, harmed>>

\* Pages are dropped
bch_clear_page_bits(ps) ==
    /\ \A p \in ps : wb[p].on = "no"
    /\ page' = [p \in FPages |-> IF p \in ps THEN NoPage ELSE page[p]]
    /\ iblocks' = iblocks - Cardinality({p \in ps : page[p].dirty_sectors = 1})

bch_releasepage(p) ==
    /\ page[p].in /\ ~page[p].dirty /\ bch_clear_page_bits({p})
    /\ UNCHANGED <<wb, dio, ext, di, isize, isectors, sys, want, harmed, fops>>

\* A page that is still inside i_size is written; the reservation goes with it
__bch_writepage(p) ==
    /\ page[p].dirty /\ wb[p].on = "no"
    /\ page' = [page EXCEPT ![p].dirty = FALSE, ![p].rsv = @ /\ p >= isize]
    /\ wb' = IF p >= isize THEN wb
             ELSE [wb EXCEPT ![p] = [on |-> "io", new_i_size |-> isize, added |-> 0]]
    /\ UNCHANGED <<dio, ext, di, isize, iblocks, isectors, sys, want, harmed, fops>>

\* Pages are taken in any order, by background writeback, fsync or for memory
bch_writepages == \E p \in FPages : __bch_writepage(p)

\* bchfs_write_index_update(): the extent, i_size and i_sectors in one update
bchfs_extent_update_hook(p, to) ==
    /\ to > di.size => ~di.sizedirty                    \* BUG_ON()
    /\ ext' = [ext EXCEPT ![p] = [t |-> "data", v |-> IF p \in dio THEN 1 ELSE page[p].v]]
    /\ di' = [di EXCEPT !.size = MaxOf(@, to), !.sectors = @ + 1 - Alloc(ext[p])]
    /\ isectors' = isectors + 1 - Alloc(ext[p])

bchfs_write_index_update(p) ==
    /\ wb[p].on = "io"
    /\ \/ /\ bchfs_extent_update_hook(p, Min({p + 1, wb[p].new_i_size}))
          /\ wb' = [wb EXCEPT ![p].on = "done", ![p].added = 1 - Alloc(ext[p])]
       \/ wb' = [wb EXCEPT ![p].on = "error"] /\ UNCHANGED <<ext, di, isectors>>
    /\ UNCHANGED <<page, dio, isize, iblocks, sys, want, fops>>
    /\ harmed' = harmed \cup {h \in {"error"} : wb'[p].on = h}

bch_writepage_io_done_KeepsDirty(p) ==
    /\ wb[p].on \in {"done", "error"}
    /\ page' = IF wb[p].on = "error" THEN page
               ELSE [page EXCEPT ![p].sectors = 1]
    /\ iblocks' = iblocks + wb[p].added
                    - (IF wb[p].on = "error" THEN 0 ELSE page[p].dirty_sectors)
    /\ wb' = [wb EXCEPT ![p] = NoWb]
    /\ UNCHANGED <<dio, ext, di, isize, isectors, sys, want, harmed, fops>>

bch_writepage_io_done(p) ==
    /\ wb[p].on \in {"done", "error"}
    /\ page' = IF wb[p].on = "error" THEN page
               ELSE [page EXCEPT ![p].sectors = 1, ![p].dirty_sectors = 0]
    /\ iblocks' = iblocks + wb[p].added
                    - (IF wb[p].on = "error" THEN 0 ELSE page[p].dirty_sectors)
    /\ wb' = [wb EXCEPT ![p] = NoWb]
    /\ UNCHANGED <<dio, ext, di, isize, isectors, sys, want, harmed, fops>>

----------------------------------------------------------------------------
\* Direct writes: pages are written and invalidated, and the pagecache stays
\* blocked until the write is done.  One that extends the file is waited for.
bch_direct_write(p) ==
    /\ More /\ ~Locked
    /\ sys' = [NoSys EXCEPT !.op = "dio", !.p = p, !.pc = "invalidate", !.flag = p + 1 > isize]
    /\ UNCHANGED <<page, wb, dio, ext, di, isize, iblocks, isectors, want, harmed>>

bch_direct_IO_write ==
    /\ sys.op = "dio" /\ sys.pc = "invalidate"
    /\ ~page[sys.p].dirty /\ sys.p \notin dio /\ bch_clear_page_bits({sys.p})
    /\ dio' = dio \cup {sys.p}
    /\ sys' = IF sys.flag THEN [sys EXCEPT !.pc = "sync"] ELSE NoSys
    /\ want' = [want EXCEPT ![sys.p] = 1]
    /\ UNCHANGED <<wb, ext, di, isize, isectors, harmed, fops>>

\* The hook sets i_size to what the inode in the btree gets
bch_dio_write_done(p) ==
    /\ p \in dio
    /\ bchfs_extent_update_hook(p, p + 1)
    /\ iblocks' = iblocks + 1 - Alloc(ext[p])
    /\ isize' = IF p + 1 > di.size THEN p + 1 ELSE isize
    /\ harmed' = harmed \cup {h \in {"dio"} : isize' < isize}
    /\ dio' = dio \ {p}
    /\ sys' = IF sys.op = "dio" /\ sys.pc = "sync" /\ sys.p = p THEN NoSys ELSE sys
    /\ UNCHANGED <<page, wb, want, fops>>

----------------------------------------------------------------------------
\* System calls of several steps.  flag is shrink for truncate, KEEP_SIZE for
\* fallocate; sectors is what the i_sectors hook has counted.

Goto(pc) == sys' = [sys EXCEPT !.pc = pc, !.sectors = 0]

bch_truncate(n) ==
    /\ More /\ ~Blocked
    /\ sys' = [NoSys EXCEPT !.op = "truncate", !.p = n, !.pc = "drop", !.flag = n <= isize]
    /\ isize' = n
    /\ want' = [p \in FPages |-> IF p >= n THEN 0 ELSE want[p]]
    /\ UNCHANGED <<page, wb, dio, ext, di, iblocks, isectors, harmed>>

bch_fallocate(p, keep, zero) ==
    /\ More /\ ~Blocked
    /\ sys' = [NoSys EXCEPT !.op = "fallocate", !.p = p, !.flag = keep, !.zero = zero,
                            !.pc = IF zero THEN "drop" ELSE "get"]
    /\ want' = IF zero THEN [want EXCEPT ![p] = 0] ELSE want
    /\ UNCHANGED <<page, wb, dio, ext, di, isize, iblocks, isectors, harmed>>

bch_fpunch(p) ==
    /\ More /\ ~Blocked
    /\ sys' = [NoSys EXCEPT !.op = "punch", !.p = p, !.pc = "drop"]
    /\ want' = [want EXCEPT ![p] = 0]
    /\ UNCHANGED <<page, wb, dio, ext, di, isize, iblocks, isectors, harmed>>

bch_fcollapse(p) ==
    /\ More /\ ~Blocked /\ p + 1 < isize
    /\ sys' = [NoSys EXCEPT !.op = "collapse", !.p = p, !.pc = "write"]
    /\ want' = [q \in FPages |-> IF q < p THEN want[q]
                                 ELSE IF q + 1 \in FPages THEN want[q + 1] ELSE 0]
    /\ UNCHANGED <<page, wb, dio, ext, di, isize, iblocks, isectors, harmed>>

write_invalidate_inode_pages_range(from) ==
    /\ \A p \in FPages : p >= from => ~page[p].dirty
    /\ bch_clear_page_bits({p \in FPages : p >= from})

\* truncate_pagecache() and the like, which wait for writeback
sys_drop ==
    /\ \/ /\ sys.pc = "drop"
          /\ bch_clear_page_bits(IF sys.op = "truncate" THEN {p \in FPages : p >= sys.p} ELSE {sys.p})
       \/ sys.pc = "write" /\ write_invalidate_inode_pages_range(sys.p)
    /\ Goto(IF sys.op = "truncate" THEN IF sys.p > di.size THEN "sync" ELSE "mark" ELSE "get")
    /\ UNCHANGED <<wb, dio, ext, di, isize, isectors, want, harmed, fops>>

\* Appends are written out before i_size is set
sys_sync ==
    /\ sys.pc \in {"sync", "sync2"} /\ sys.op # "dio"
    /\ \A p \in FPages : p >= di.size => ~page[p].dirty /\ wb[p].on = "no"
    /\ Goto(IF sys.pc = "sync" THEN "mark" ELSE "setsize")
    /\ UNCHANGED <<page, wb, dio, ext, di, isize, iblocks, isectors, want, harmed, fops>>

bch_write_inode_size(size, dirty) == di' = [di EXCEPT !.size = size, !.sizedirty = dirty]


sys_mark ==
    /\ sys.pc = "mark"
    /\ bch_write_inode_size(isize, TRUE)
    /\ Goto(IF sys.flag THEN "get" ELSE "clear")
    /\ UNCHANGED <<page, wb, dio, ext, isize, iblocks, isectors, want, harmed, fops>>

i_sectors_dirty_get ==
    /\ sys.pc = "get"
    /\ di' = [di EXCEPT !.secdirty = TRUE] /\ Goto("insert")
    /\ UNCHANGED <<page, wb, dio, ext, isize, iblocks, isectors, want, harmed, fops>>

\* bch_truncate_page() fails: the inode keeps I_SIZE_DIRTY
bch_truncate_error ==
    /\ sys.op = "truncate" /\ sys.pc = "insert" /\ sys.sectors = 0
    /\ di' = [di EXCEPT !.secdirty = FALSE]
    /\ sys' = NoSys /\ harmed' = harmed \cup {"truncate"}
    /\ UNCHANGED <<page, wb, dio, ext, isize, iblocks, isectors, want, fops>>

\* One btree update: a discard, a reservation or a moved extent
i_sectors_hook_fn(p, e, next) ==
    /\ ext' = [ext EXCEPT ![p] = e]
    /\ sys' = [sys EXCEPT !.sectors = @ + Alloc(e) - Alloc(ext[p]), !.p = next]

Last == isize - 2                                       \* of a file collapsed by one page

bch_discard(from) ==
    \E p \in FPages : p >= from /\ Alloc(ext[p]) = 1 /\ i_sectors_hook_fn(p, FHole, sys.p)

truncate_insert == sys.op = "truncate" /\ bch_discard(sys.p)

fpunch_insert ==
    sys.op = "punch" /\ Alloc(ext[sys.p]) = 1 /\ i_sectors_hook_fn(sys.p, FHole, sys.p)

fallocate_insert ==
    /\ sys.op = "fallocate"
    /\ ext[sys.p].t = "hole" \/ (sys.zero /\ ext[sys.p].t = "data")
    /\ i_sectors_hook_fn(sys.p, [t |-> "resv", v |-> 0], sys.p)

fcollapse_insert ==
    /\ sys.op = "collapse"
    /\ IF sys.p <= Last THEN i_sectors_hook_fn(sys.p, ext[sys.p + 1], sys.p + 1)
                        ELSE bch_discard(Last + 1)

sys_insert ==
    /\ sys.pc = "insert"
    /\ truncate_insert \/ fpunch_insert \/ fallocate_insert \/ fcollapse_insert
    /\ UNCHANGED <<page, wb, dio, di, isize, iblocks, isectors, want, harmed, fops>>

Inserted ==
    CASE sys.op = "truncate" -> \A p \in FPages : p >= sys.p => Alloc(ext[p]) = 0
      [] sys.op = "punch" -> Alloc(ext[sys.p]) = 0
      [] sys.op = "fallocate" -> ext[sys.p].t = "resv" \/ (~sys.zero /\ ext[sys.p].t = "data")
      [] sys.op = "collapse" -> sys.p > Last /\ \A p \in FPages : p > Last => Alloc(ext[p]) = 0

i_sectors_dirty_put ==
    /\ sys.pc = "insert" /\ Inserted
    /\ iblocks' = iblocks + sys.sectors
    /\ isectors' = isectors + sys.sectors
    /\ di' = [di EXCEPT !.sectors = isectors', !.secdirty = FALSE]
    /\ CASE sys.op = "truncate" -> Goto("clear")
         [] sys.op = "punch" -> sys' = NoSys
         [] sys.op = "collapse" -> Goto("setsize")
         [] sys.op = "fallocate" ->
              IF ~sys.flag THEN IF sys.p + 1 > isize THEN Goto("setsize") ELSE sys' = NoSys
              ELSE IF sys.zero /\ di.size # isize THEN Goto("sync2") ELSE sys' = NoSys
    /\ UNCHANGED <<page, wb, dio, ext, isize, want, harmed, fops>>

\* What i_size is when a call is done
truncate_setsize == sys.op = "truncate" /\ isize' = isize
fcollapse_setsize == sys.op = "collapse" /\ isize' = isize - 1
fallocate_setsize == sys.op = "fallocate" /\ isize' = IF sys.flag THEN isize ELSE sys.p + 1

sys_setsize ==
    /\ sys.pc \in {"clear", "setsize"}
    /\ truncate_setsize \/ fcollapse_setsize \/ fallocate_setsize
    /\ bch_write_inode_size(isize', FALSE)
    /\ sys' = NoSys
    /\ UNCHANGED <<page, wb, dio, ext, iblocks, isectors, want, harmed, fops>>

bch_count_inode_sectors(e) == Cardinality({p \in FPages : Alloc(e[p]) = 1})

\* A crash, and bch_gc_do_inode() at the next mount
fcrash ==
    /\ More
    /\ page' = [p \in FPages |-> NoPage] /\ wb' = [p \in FPages |-> NoWb]
    /\ dio' = {} /\ sys' = NoSys /\ harmed' = harmed \ {"error"}
    /\ ext' = IF di.sizedirty THEN [p \in FPages |-> IF p >= di.size THEN FHole ELSE ext[p]] ELSE ext
    /\ di' = [di EXCEPT !.sizedirty = FALSE, !.secdirty = FALSE,
                !.sectors = IF di.sizedirty \/ di.secdirty
                            THEN bch_count_inode_sectors(ext') ELSE @]
    /\ isize' = di.size /\ iblocks' = di'.sectors /\ isectors' = di'.sectors
    /\ want' = [p \in FPages |-> IF p < di.size THEN ext'[p].v ELSE 0]

FiNext ==
    \/ \E p \in FPages : \/ bch_readpage(p) \/ bch_write(p) \/ bch_page_mkwrite(p)
                         \/ bch_releasepage(p)
                         \/ bchfs_write_index_update(p) \/ bch_writepage_io_done(p)
                         \/ bch_direct_write(p) \/ bch_dio_write_done(p) \/ bch_truncate(p)
                         \/ bch_fpunch(p) \/ bch_fcollapse(p)
                         \/ \E k, z \in BOOLEAN : bch_fallocate(p, k, z)
    \/ bch_writepages \/ bch_direct_IO_write \/ sys_drop \/ sys_sync \/ sys_mark \/ i_sectors_dirty_get
    \/ bch_truncate_error \/ sys_insert \/ i_sectors_dirty_put \/ sys_setsize \/ fcrash

----------------------------------------------------------------------------
FiTypeOK ==
    /\ \A p \in FPages : /\ page[p].sectors + page[p].dirty_sectors \in {0, 1}
                         /\ ext[p].t \in {"hole", "data", "resv"}
                         /\ wb[p].on \in {"no", "io", "done", "error"}
    /\ dio \subseteq FPages /\ isize \in Nat /\ iblocks \in Int /\ isectors \in Int

\* At every moment the inode in the btree says what a mount after a crash
\* needs: i_sectors is the number of allocated sectors or flagged to be
\* recounted, and data past i_size is flagged to be deleted (both are
\* unfixable errors in check_extents()).
DiskConsistent ==
    /\ ~di.secdirty => di.sectors = bch_count_inode_sectors(ext)
    /\ ~di.sizedirty /\ harmed \subseteq {"error"} => \A p \in FPages : p >= di.size => ext[p].t # "data"

\* i_blocks is i_sectors and the sectors that dirty pages will add, so that
\* bch_evict_inode()'s BUG_ON(i_sectors != i_blocks) holds once none is left;
\* a page that is dirty can be written without new space.
BlocksAccounted ==
    /\ isectors + sys.sectors = bch_count_inode_sectors(ext)
    /\ iblocks = isectors + Cardinality({p \in FPages : page[p].dirty_sectors = 1})
                   - Cardinality({p \in FPages : wb[p].added = 1})
    /\ \A p \in FPages : page[p].dirty => page[p].rsv \/ (page[p].alloc /\ ext[p].t # "hole")

\* With no call in progress every page below i_size reads as last written, from
\* the page cache or from the extents, unless i_size was lowered by a direct
\* write, a truncate failed half-way or a page could not be written (harmed).
ReadsRight ==
    (harmed = {} /\ ~Blocked) => \A p \in FPages :
        p < isize => want[p] = IF page[p].in THEN page[p].v ELSE ext[p].v


\* A dirty page that __bch_writepage() finds "fully outside i_size (truncate in
\* progress)" is being truncated.
OutsideMeansTruncate ==
    \A p \in FPages : page[p].dirty /\ p >= isize => sys.op = "truncate"
=============================================================================
