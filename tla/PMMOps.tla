------------------------------ MODULE PMMOps ------------------------------
(***************************************************************************)
(* The bitmap physical-page allocator of SimpleOS (pmm.c).                 *)
(*                                                                         *)
(* Frames are numbered 0 .. NumFrames-1 (MAX_PAGES).  The bitmap is the    *)
(* set of frames whose bit is 1 (used).  Addresses are in "units"; a page  *)
(* is PageSize units and a uint32_t wraps at Word units.  pmm_init is a    *)
(* pure operator of the multiboot memory map; the allocation functions are *)
(* pure operators on a record [bitmap, used, total] so that the client     *)
(* state machine (PMM) and the kernel model (Kernel) can compose them      *)
(* inside their own actions.                                               *)
(***************************************************************************)
EXTENDS Naturals, FiniteSets, SequencesExt

CONSTANTS
    NumFrames,   \* MAX_PAGES
    PageSize,    \* PAGE_SIZE in units
    Word,        \* 2^32 in units: uint32_t arithmetic is modulo Word
    LowMem,      \* 0x100000: the first 1MB, reserved and skipped by alloc
    KernelEnd,   \* &_kernel_end
    MemMaps,     \* the multiboot memory maps the machine may report
    MaxRun       \* largest count a client passes to pmm_alloc_pages

MaxMem == NumFrames * PageSize            \* MAX_PHYSICAL_MEMORY
Frames == 0 .. NumFrames - 1
MMAP_TYPE_AVAILABLE == 1
NotFound == -1                            \* 0xFFFFFFFF

ASSUME MaxMem <= Word /\ LowMem % PageSize = 0 /\ KernelEnd >= LowMem

PAGE_ALIGN_DOWN(a) == a - (a % PageSize)
PAGE_ALIGN_UP(a) == PAGE_ALIGN_DOWN((a + PageSize - 1) % Word)
ADDR_TO_PFN(a) == a \div PageSize
AllocBase == ADDR_TO_PFN(LowMem)          \* ADDR_TO_PFN(0x100000)

(* bitmap_test: a frame outside the bitmap reads as used. *)
bitmap_test(bm, pfn) == pfn >= NumFrames \/ pfn \in bm

(* bitmap_set over a set of frames: frames beyond MAX_PAGES are ignored. *)
bitmap_set(bm, S) == bm \cup (S \cap Frames)

(* find_free_page: first clear bit in start .. total-1. *)
find_free_page(bm, total, start) ==
    LET free == {i \in start .. total - 1 : ~bitmap_test(bm, i)}
    IN  IF free = {} THEN NotFound
        ELSE CHOOSE i \in free : \A j \in free : i <= j

(* Mutant: a used bit does not reset consecutive. *)
RECURSIVE ScanKeepRun(_, _, _, _, _, _)
ScanKeepRun(bm, total, count, i, consecutive, start) ==
    IF i >= total THEN NotFound
    ELSE IF bitmap_test(bm, i)
         THEN ScanKeepRun(bm, total, count, i + 1, consecutive, start)
         ELSE LET st == IF consecutive = 0 THEN i ELSE start
              IN  IF consecutive + 1 = count THEN st
                  ELSE ScanKeepRun(bm, total, count, i + 1, consecutive + 1, st)

(* find_free_pages: the scanning loop with its consecutive/start locals. *)
RECURSIVE Scan(_, _, _, _, _, _)
Scan(bm, total, count, i, consecutive, start) ==
    IF i >= total THEN NotFound
    ELSE IF bitmap_test(bm, i)
         THEN Scan(bm, total, count, i + 1, 0, start)
         ELSE LET st == IF consecutive = 0 THEN i ELSE start
              IN  IF consecutive + 1 = count THEN st
                  ELSE Scan(bm, total, count, i + 1, consecutive + 1, st)

find_free_pages(bm, total, count, start) == Scan(bm, total, count, start, 0, 0)

(* Reference definition of first fit: the least start of a free run. *)
FirstFitRef(bm, total, count, start) ==
    LET ok == {s \in start .. total - count :
                  \A j \in s .. s + count - 1 : ~bitmap_test(bm, j)}
    IN  IF ok = {} THEN NotFound ELSE CHOOSE s \in ok : \A t \in ok : s <= t

(***************************************************************************)
(* pmm_init.  One step of the loop over the memory map: the 64-bit base    *)
(* and length are truncated to uint32_t, total_memory sums the lengths of  *)
(* every available entry, and the whole pages of the clipped region are   *)
(* cleared.  Then total_pages is the available byte count in pages, the    *)
(* first 1MB and the kernel image are reserved, and used_pages is counted  *)
(* below total_pages.                                                      *)
(***************************************************************************)
InitEntry(acc, e) ==
    LET base   == e.base % Word
        length == e.length % Word
        endA   == (base + length) % Word
        end    == IF endA > MaxMem THEN MaxMem ELSE endA
        region == {p \in ADDR_TO_PFN(PAGE_ALIGN_UP(base))
                          .. ADDR_TO_PFN(PAGE_ALIGN_DOWN(end)) - 1 : p < NumFrames}
    IN  IF e.type # MMAP_TYPE_AVAILABLE THEN acc
        ELSE [total_memory |-> (acc.total_memory + length) % Word,
              bitmap |-> IF base < MaxMem THEN acc.bitmap \ region ELSE acc.bitmap]

(* Mutant: the kernel image is not reserved. *)
pmm_init_nokernel(mm) ==
    LET scan  == FoldLeft(InitEntry, [total_memory |-> 0, bitmap |-> Frames], mm)
        pages == scan.total_memory \div PageSize
        total == IF pages > NumFrames THEN NumFrames ELSE pages
        bm    == bitmap_set(scan.bitmap, 0 .. AllocBase - 1)
    IN  [bitmap |-> bm, total |-> total,
         used |-> Cardinality({p \in 0 .. total - 1 : p \in bm})]

pmm_init(mm) ==
    LET scan   == FoldLeft(InitEntry, [total_memory |-> 0, bitmap |-> Frames], mm)
        pages  == scan.total_memory \div PageSize
        total  == IF pages > NumFrames THEN NumFrames ELSE pages
        kpages == (PAGE_ALIGN_UP(KernelEnd) - LowMem) \div PageSize
        bm     == bitmap_set(scan.bitmap,
                             (0 .. AllocBase - 1) \cup (AllocBase .. AllocBase + kpages - 1))
    IN  [bitmap |-> bm, total |-> total,
         used |-> Cardinality({p \in 0 .. total - 1 : p \in bm})]

(***************************************************************************)
(* The allocation API.  s is [bitmap, used, total]; an allocation returns  *)
(* [s |-> new state, pfn |-> frame], pfn 0 standing for the 0 returned on  *)
(* failure (frame 0 is never handed out: alloc starts at AllocBase > 0).   *)
(***************************************************************************)
(* Mutant: failure returns the 0xFFFFFFFF sentinel instead of 0. *)
pmm_alloc_page_sentinel(s) ==
    LET pfn == find_free_page(s.bitmap, s.total, AllocBase)
    IN  IF pfn = NotFound THEN [s |-> s, pfn |-> NotFound]
        ELSE [s |-> [s EXCEPT !.bitmap = bitmap_set(@, {pfn}), !.used = @ + 1],
              pfn |-> pfn]

pmm_alloc_page(s) ==
    LET pfn == find_free_page(s.bitmap, s.total, AllocBase)
    IN  IF pfn = NotFound THEN [s |-> s, pfn |-> 0]
        ELSE [s |-> [s EXCEPT !.bitmap = bitmap_set(@, {pfn}), !.used = @ + 1],
              pfn |-> pfn]

(* Mutant: used_pages counts one page per call, as pmm_alloc_page does. *)
pmm_alloc_pages_onecount(s, count) ==
    LET pfn == find_free_pages(s.bitmap, s.total, count, AllocBase)
    IN  IF count = 0 THEN [s |-> s, pfn |-> 0]
        ELSE IF count = 1 THEN pmm_alloc_page(s)
        ELSE IF pfn = NotFound THEN [s |-> s, pfn |-> 0]
        ELSE [s |-> [s EXCEPT !.bitmap = bitmap_set(@, pfn .. pfn + count - 1),
                              !.used = (@ + 1) % Word],
              pfn |-> pfn]

(* Mutant: a run that ends at the last frame is refused (off by one). *)
pmm_alloc_pages_lastrun(s, count) ==
    LET pfn == find_free_pages(s.bitmap, s.total, count, AllocBase)
    IN  IF count = 0 THEN [s |-> s, pfn |-> 0]
        ELSE IF count = 1 THEN pmm_alloc_page(s)
        ELSE IF pfn = NotFound \/ pfn + count >= s.total THEN [s |-> s, pfn |-> 0]
        ELSE [s |-> [s EXCEPT !.bitmap = bitmap_set(@, pfn .. pfn + count - 1),
                              !.used = (@ + count) % Word],
              pfn |-> pfn]

pmm_alloc_pages(s, count) ==
    LET pfn == find_free_pages(s.bitmap, s.total, count, AllocBase)
    IN  IF count = 0 THEN [s |-> s, pfn |-> 0]
        ELSE IF count = 1 THEN pmm_alloc_page(s)
        ELSE IF pfn = NotFound THEN [s |-> s, pfn |-> 0]
        ELSE [s |-> [s EXCEPT !.bitmap = bitmap_set(@, pfn .. pfn + count - 1),
                              !.used = (@ + count) % Word],
              pfn |-> pfn]

(* pmm_free_page applied to each frame of S: a frame below total_pages    *)
(* whose bit is set is cleared and used_pages decremented unless already   *)
(* 0; any other frame is ignored.                                          *)
pmm_free_frames(s, S) ==
    LET freed == {p \in S : p < s.total /\ bitmap_test(s.bitmap, p)}
        k     == Cardinality(freed)
    IN  [s EXCEPT !.bitmap = @ \ freed, !.used = IF @ >= k THEN @ - k ELSE 0]

pmm_free_page(s, pfn) == pmm_free_frames(s, {pfn})

pmm_free_pages(s, pfn, count) == pmm_free_frames(s, pfn .. pfn + count - 1)

(* pmm_mark_region_used / _free: bounded by MAX_PAGES, not total_pages.    *)
pmm_mark_region_used(s, base, length) ==
    LET set == {p \in ADDR_TO_PFN(PAGE_ALIGN_DOWN(base))
                      .. ADDR_TO_PFN(PAGE_ALIGN_UP((base + length) % Word)) - 1 :
                  p < NumFrames /\ ~bitmap_test(s.bitmap, p)}
    IN  [s EXCEPT !.bitmap = @ \cup set, !.used = (@ + Cardinality(set)) % Word]

pmm_mark_region_free(s, base, length) ==
    LET clr == {p \in ADDR_TO_PFN(PAGE_ALIGN_UP(base))
                      .. ADDR_TO_PFN(PAGE_ALIGN_DOWN((base + length) % Word)) - 1 :
                  p < NumFrames /\ bitmap_test(s.bitmap, p)}
        k   == Cardinality(clr)
    IN  [s EXCEPT !.bitmap = @ \ clr, !.used = IF @ >= k THEN @ - k ELSE 0]

=============================================================================
