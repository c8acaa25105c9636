------------------------------ MODULE KernelVdb ------------------------------
(***************************************************************************)
(* Dirty bits kept by the kernel (os_dep.c): the soft-dirty bits of        *)
(* /proc/self/pagemap (soft), the modified bits of /proc/<pid>/pagedata    *)
(* (proc) and GetWriteWatch (gww).  The world is stopped while they are    *)
(* read, so the difficulty is in the reading itself: a window onto the     *)
(* page map that is reused from one heap section to the next, buffers that *)
(* are too small, reads that fail or are short, and files that belong to   *)
(* the parent of a forked process.                                         *)
(*                                                                         *)
(* Addresses are in blocks, a page is PgBlks of them, and file positions   *)
(* are in entries of the page map, one for each page.                      *)
(***************************************************************************)
EXTENDS Integers, Sequences, FiniteSets, FiniteSetsExt, Functions

CONSTANTS
    KernelBuilds,   \* records how (soft, proc, gww) and threads
    NPg, PgBlks,    \* the pages of the address space, the blocks of a page
    HeapRanges,     \* the heap sections: a sequence of <<start, limit>>
    RootRanges,     \* the static roots, in the same form
    AlignEntries,   \* the page-map entries that fill a page
    VDB_BUF_SZ, GC_GWW_BUF_LEN,
    PROC_BUF_SZ, MaxProcBuf,  \* the first and the greatest buffer for pagedata
    MaxKernelReads

VARIABLES
    kbuild,
    inc,          \* GC_incremental
    opened,       \* the files are open, and of this process
    ownPid,
    kbits,        \* the kernel's dirty bits: a set of pages
    grungy,       \* GC_grungy_pages: a set of blocks
    ever,         \* GC_written_pages
    procBuf,      \* GC_proc_buf_size
    rd,           \* the GC_read_dirty in progress
    window,       \* GC_pagemap_buf_fpos and _len, and what the buffer really is
    kreads,
    dirtied,      \* ghost: pages written since the last read
    dirtiedEver,  \* ghost: pages written since the mode was turned on
    misplaced     \* ghost: this read had a window of the wrong place

kernelVdbVars == <<kbuild, inc, opened, ownPid, kbits, grungy, ever, procBuf,
                   rd, window, kreads, dirtied, dirtiedEver, misplaced>>
fileVars == <<kbuild, inc, opened, ownPid>>
ghostPages == <<dirtied, dirtiedEver, misplaced>>

Pg == 0 .. NPg - 1
BlocksIn(P) == {b \in 0 .. NPg * PgBlks - 1 : b \div PgBlks \in P}
AllBlocks == BlocksIn(Pg)
Spans(rs) == UNION {r[1] .. r[2] - 1 : r \in Range(rs)}

\* What is scanned: GC_soft_read_dirty also scans the static roots.
Ranges == IF kbuild.how = "soft" THEN HeapRanges \o RootRanges ELSE HeapRanges

Idle == [at |-> "idle", i |-> 1, vaddr |-> 0, unneeded |-> FALSE]
NoWindow == [fpos |-> 0, len |-> 0, data |-> 0, filePos |-> 0]

\* What is assumed of the constants.
KernelVdbAssumption ==
    /\ {NPg, PgBlks, AlignEntries, VDB_BUF_SZ, GC_GWW_BUF_LEN, PROC_BUF_SZ}
           \subseteq Nat \ {0}
    /\ AlignEntries <= VDB_BUF_SZ
    /\ \A r \in Range(HeapRanges) : r[1] % PgBlks = 0 /\ r[2] % PgBlks = 0

KernelVdbTypeOK ==
    /\ kbuild \in KernelBuilds
    /\ {inc, opened, ownPid} \subseteq BOOLEAN
    /\ kbits \subseteq Pg /\ dirtied \subseteq dirtiedEver
    /\ grungy \subseteq AllBlocks /\ ever \subseteq AllBlocks
    /\ rd.at \in {"idle", "scan", "clear", "done"}
    /\ procBuf <= MaxProcBuf

KernelVdbInit ==
    /\ kbuild \in KernelBuilds /\ inc = FALSE /\ opened = FALSE
    /\ ownPid = TRUE /\ grungy = {} /\ ever = {}
    /\ kbits \in {Pg} \union (IF kbuild.how = "proc" THEN {{}} ELSE {})
    /\ procBuf = PROC_BUF_SZ /\ rd = Idle /\ window = NoWindow /\ kreads = 0
    /\ dirtied = {} /\ dirtiedEver = {} /\ misplaced = FALSE

-----------------------------------------------------------------------------

\* A write by the client, or to the collector's own data.
KernelWrite(p) ==
    /\ rd.at = "idle" /\ p \notin kbits
    /\ kbits' = kbits \union {p}
    /\ dirtied' = dirtied \union {p} /\ dirtiedEver' = dirtiedEver \union {p}
    /\ UNCHANGED <<fileVars, grungy, ever, procBuf, rd, window, kreads,
                   misplaced>>

\* GC_dirty_init.  For soft the files are opened and
\* detect_soft_dirty_supported finds that the bit of a page is set by a write
\* before and after the bits of all pages are cleared; for proc pages that
\* may have been written before count as written.  GC_enable_incremental then
\* collects or assumes all clean.
KernelDirtyInit ==
    /\ ~inc /\ ~opened /\ rd.at = "idle" /\ inc' = TRUE /\ opened' = TRUE
    /\ ever' \in IF kbuild.how # "proc" THEN {ever}
                 ELSE {AllBlocks} \union (IF dirtied = {} THEN {ever} ELSE {})
    /\ kbits' = IF kbuild.how = "soft" THEN {} ELSE kbits
    /\ dirtied' = {} /\ dirtiedEver' = {}
    /\ UNCHANGED <<kbuild, ownPid, grungy, procBuf, rd, window, kreads,
                   misplaced>>

\* fork(): with threads GC_dirty_update_child opens the files of the child,
\* or gives the incremental mode up.  Without, the next read notices.
KernelFork ==
    /\ inc /\ ownPid /\ rd.at = "idle" /\ kbuild.how # "gww"
    /\ IF kbuild.threads
       THEN /\ opened' \in BOOLEAN /\ inc' = opened'
            /\ UNCHANGED ownPid
       ELSE ownPid' = FALSE /\ UNCHANGED <<opened, inc>>
    /\ UNCHANGED <<kbuild, kbits, grungy, ever, procBuf, rd, window, kreads,
                   ghostPages>>

\* GC_read_dirty, up to the first section.  The files are opened again in a
\* child; when that fails all counts as dirty, and so on every later read (of
\* a build that has no mprotect to turn to then).
ReadBegins ==
    /\ inc /\ rd.at = "idle" /\ kreads < MaxKernelReads
    /\ kreads' = kreads + 1
    /\ \E unneeded \in BOOLEAN :
         \/ /\ ownPid \/ opened
            /\ ownPid' = TRUE
            /\ grungy' = IF unneeded /\ kbuild.how # "proc" THEN grungy ELSE {}
            /\ rd' = [at |-> IF unneeded /\ kbuild.how = "soft" THEN "clear"
                             ELSE "scan",
                      i |-> 1, vaddr |-> Ranges[1][1], unneeded |-> unneeded]
            /\ window' = NoWindow
            /\ UNCHANGED <<opened, ever>>
         \/ /\ ~ownPid /\ opened' = FALSE
            /\ grungy' = IF unneeded THEN grungy ELSE AllBlocks
            /\ ever' = IF kbuild.how = "proc" THEN AllBlocks ELSE ever
            /\ rd' = [Idle EXCEPT !.at = "done", !.unneeded = unneeded]
            /\ UNCHANGED <<ownPid, window>>
    /\ UNCHANGED <<kbuild, inc, kbits, procBuf, ghostPages>>

-----------------------------------------------------------------------------
(* soft: GC_soft_read_dirty.                                               *)

\* The position of the range that follows, a hint to read ahead; there is
\* none from the heap to the roots.
NextHint ==
    IF rd.i < Len(Ranges) /\ rd.i # Len(HeapRanges)
    THEN Ranges[rd.i + 1][1] \div PgBlks ELSE 0

\* How many entries one read asks for.
Asked(len, ofs, aligned) ==
    IF NextHint > aligned /\ NextHint - aligned < VDB_BUF_SZ
    THEN VDB_BUF_SZ ELSE Min({len + ofs, VDB_BUF_SZ})

\* lseek and read at aligned, unless the last read ended there.
Seek(aligned, filePos) ==
    IF window.len = 0 \/ window.fpos + window.len # aligned
    THEN aligned ELSE filePos

\* pagemap_buffered_read: the windows it may leave.  The one in use, if the
\* position is in it; otherwise a new one at an aligned position, or, when
\* the read does not get as far as the position, at the position itself.
\* A read gives at least one entry and may give fewer than it was asked for.
pagemap_buffered_read(fpos, len) ==
    IF window.fpos <= fpos /\ fpos < window.fpos + window.len
    THEN {window}
    ELSE LET aligned == fpos - (fpos % AlignEntries)
             ofs == fpos - aligned
             at1 == Seek(aligned, window.filePos)
             Got(at, n) == 1 .. Min({n, NPg - at})
             first == Got(at1, Asked(len, ofs, aligned))
         IN  {[fpos |-> aligned, len |-> r, data |-> at1, filePos |-> at1 + r]
                  : r \in {x \in first : x > ofs}}
             \union
             UNION {LET at2 == Seek(fpos, at1 + r)
                    IN  {[fpos |-> fpos, len |-> q, data |-> at2,
                          filePos |-> at2 + q] : q \in Got(at2, Asked(len, 0, fpos))}
                    : r \in {x \in first : x <= ofs}}

\* A mutant: the last entry of the window is taken for the one after it.
EntryPageNext(win, fpos, k) == win.data + (fpos - win.fpos) + k + 1

\* The page whose entry the buffer holds for the k-th page from fpos.
EntryPage(win, fpos, k) == win.data + (fpos - win.fpos) + k

\* The pages from vaddr to limit, the last one may be partly covered.
PagesLeft(vaddr, limit) == (limit - vaddr + PgBlks - 1) \div PgBlks

\* One turn of soft_set_grungy_pages.  A read of a part of an entry makes it
\* give up, with all pages dirty.
soft_set_grungy_pages ==
    /\ kbuild.how = "soft" /\ rd.at = "scan"
    /\ LET start == Ranges[rd.i][1]
           limit == Ranges[rd.i][2]
           vaddr == rd.vaddr - (rd.vaddr % PgBlks)
           fpos == vaddr \div PgBlks
           len == PagesLeft(vaddr, limit)
       IN  \E win \in pagemap_buffered_read(fpos, len) :
             LET res == Min({win.fpos + win.len - fpos, len})
                 dirty == {fpos + k : k \in {j \in 0 .. res - 1 :
                                               EntryPage(win, fpos, j) \in kbits}}
                 next == (fpos + res) * PgBlks
                 last == rd.i = Len(Ranges)
                 Over == [rd EXCEPT !.at = IF last THEN "clear" ELSE "scan",
                                    !.i = IF last THEN 1 ELSE rd.i + 1,
                                    !.vaddr = IF last THEN 0 ELSE Ranges[rd.i + 1][1]]
             IN  /\ window' = win /\ misplaced' = (misplaced \/ win.data # win.fpos)
                 /\ \/ /\ grungy' = grungy \union
                              (BlocksIn(dirty) \intersect (start .. limit - 1))
                       /\ rd' = IF next < limit THEN [rd EXCEPT !.vaddr = next]
                                ELSE Over
                    \/ grungy' = AllBlocks /\ rd' = Over
    /\ UNCHANGED <<fileVars, kbits, ever, procBuf, kreads, dirtied, dirtiedEver>>

clear_soft_dirty_bits ==
    /\ rd.at = "clear" /\ kbits' = {} /\ rd' = [rd EXCEPT !.at = "done"]
    /\ UNCHANGED <<fileVars, grungy, ever, procBuf, window, kreads, ghostPages>>

-----------------------------------------------------------------------------
(* proc and gww.                                                           *)

\* GC_written_pages after a failed read.
Punted == AllBlocks

\* GC_proc_read_dirty: the read resets the bits.  A buffer that is too small
\* is doubled if there is memory; other failures make all pages dirty.
GC_proc_read_dirty ==
    /\ kbuild.how = "proc" /\ rd.at = "scan"
    /\ \/ /\ Cardinality(kbits) <= procBuf
          /\ grungy' = BlocksIn(kbits) /\ ever' = ever \union BlocksIn(kbits)
          /\ kbits' = {} /\ rd' = [rd EXCEPT !.at = "done"]
          /\ UNCHANGED procBuf
       \/ /\ Cardinality(kbits) > procBuf
          /\ procBuf' = Min({2 * procBuf, MaxProcBuf})
          /\ UNCHANGED <<grungy, ever, kbits, rd>>
       \/ /\ grungy' = IF rd.unneeded THEN grungy ELSE AllBlocks
          /\ ever' = Punted
          /\ rd' = [rd EXCEPT !.at = "done"]
          /\ UNCHANGED <<kbits, procBuf>>
    /\ UNCHANGED <<fileVars, window, kreads, ghostPages>>

\* A section is done when the buffer was not filled.
GwwDone(count) == count # GC_GWW_BUF_LEN

\* GC_gww_read_dirty: some of the dirty pages of a section, which are reset,
\* or a failure, which makes the whole section dirty.
GC_gww_read_dirty ==
    /\ kbuild.how = "gww" /\ rd.at = "scan"
    /\ LET sect == Ranges[rd.i][1] .. Ranges[rd.i][2] - 1
           there == {p \in kbits : BlocksIn({p}) \subseteq sect}
           Over == [rd EXCEPT !.at = IF rd.i = Len(Ranges) THEN "done" ELSE "scan",
                              !.i = IF rd.i = Len(Ranges) THEN 1 ELSE rd.i + 1]
       IN  \/ \E P \in SUBSET there :
                /\ Cardinality(P) = Min({GC_GWW_BUF_LEN, Cardinality(there)})
                /\ kbits' = kbits \ P
                /\ grungy' = IF rd.unneeded THEN grungy ELSE grungy \union BlocksIn(P)
                /\ rd' = IF GwwDone(Cardinality(P)) THEN Over ELSE rd
           \/ /\ grungy' = IF rd.unneeded THEN grungy ELSE grungy \union sect
              /\ rd' = Over /\ UNCHANGED kbits
    /\ UNCHANGED <<fileVars, ever, procBuf, window, kreads, ghostPages>>

\* The collection has used the bits, and the client runs.
ReadEnds ==
    /\ rd.at = "done" /\ rd' = Idle /\ grungy' = {} /\ dirtied' = {}
    /\ window' = NoWindow /\ misplaced' = FALSE
    /\ UNCHANGED <<fileVars, kbits, ever, procBuf, kreads, dirtiedEver>>

KernelVdbNext ==
    \/ \E p \in Pg : KernelWrite(p)
    \/ KernelDirtyInit \/ KernelFork \/ ReadBegins
    \/ soft_set_grungy_pages \/ clear_soft_dirty_bits
    \/ GC_proc_read_dirty \/ GC_gww_read_dirty \/ ReadEnds

KernelVdbSpec == KernelVdbInit /\ [][KernelVdbNext]_kernelVdbVars

-----------------------------------------------------------------------------

\* When GC_read_dirty is done, and its result is wanted, every block of the
\* heap, and for soft of the roots, on a page that was written since the
\* last time is reported, unless two short reads put the window of
\* pagemap_buffered_read in the wrong place.
KernelWritesReported ==
    rd.at = "done" /\ ~rd.unneeded /\ ~misplaced =>
        BlocksIn(dirtied) \intersect Spans(Ranges) \subseteq grungy

\* A page that was ever written stays in GC_written_pages (Solaris), which
\* decides whether its objects need to be pushed at all.
EverWrittenKept ==
    rd.at = "done" /\ kbuild.how = "proc" /\ inc =>
        BlocksIn(dirtiedEver) \subseteq ever
=============================================================================
