-------------------------------- MODULE PMM --------------------------------
(***************************************************************************)
(* The allocator of pmm.c as a state machine: the machine boots with one   *)
(* of MemMaps (pmm_init), then a client allocates and frees.  held is the  *)
(* client's set of blocks <<pfn, count>>; it frees a block with the call   *)
(* that allocated it, as the kernel does.  outcome records the result of   *)
(* the last call, for the refinement of FrameAllocator.                    *)
(***************************************************************************)
EXTENDS PMMOps

VARIABLES mmap, bitmap, used_pages, total_pages, held, outcome

vars == <<mmap, bitmap, used_pages, total_pages, held, outcome>>

St == [bitmap |-> bitmap, used |-> used_pages, total |-> total_pages]

Store(s) == bitmap' = s.bitmap /\ used_pages' = s.used

Init ==
    /\ mmap \in MemMaps
    /\ LET s == pmm_init(mmap)
       IN  bitmap = s.bitmap /\ used_pages = s.used /\ total_pages = s.total
    /\ held = {}
    /\ outcome = "none"

Granted(r, count) ==
    /\ Store(r.s)
    /\ held' = IF r.pfn = 0 THEN held ELSE held \cup {<<r.pfn, count>>}
    /\ outcome' = IF r.pfn = 0 THEN "refused" ELSE "granted"
    /\ UNCHANGED <<mmap, total_pages>>

AllocPage == Granted(pmm_alloc_page(St), 1)

AllocPages(count) == Granted(pmm_alloc_pages(St, count), count)

FreePage(b) ==
    /\ b \in held /\ b[2] = 1
    /\ Store(pmm_free_page(St, b[1]))
    /\ held' = held \ {b}
    /\ outcome' = "released"
    /\ UNCHANGED <<mmap, total_pages>>

FreePages(b) ==
    /\ b \in held
    /\ Store(pmm_free_pages(St, b[1], b[2]))
    /\ held' = held \ {b}
    /\ outcome' = "released"
    /\ UNCHANGED <<mmap, total_pages>>

Next ==
    \/ AllocPage
    \/ \E n \in 2 .. MaxRun : AllocPages(n)
    \/ \E b \in held : FreePage(b) \/ FreePages(b)

Spec == Init /\ [][Next]_vars

(* pmm_mark_region_used / pmm_mark_region_free, which nothing in the       *)
(* kernel calls yet, on a region that holds no frame the client owns.      *)
MarkRegion(base, length, used) ==
    LET lo == PAGE_ALIGN_DOWN(base) \div PageSize
        hi == PAGE_ALIGN_UP(base + length) \div PageSize
    IN  /\ \A b \in held : b[1] + b[2] <= lo \/ hi <= b[1]
        /\ Store(IF used THEN pmm_mark_region_used(St, base, length)
                 ELSE pmm_mark_region_free(St, base, length))
        /\ outcome' = "marked"
        /\ UNCHANGED <<mmap, total_pages, held>>

NextMarks ==
    \/ Next
    \/ \E base \in 0 .. MaxMem - 1, length \in 1 .. 2 * PageSize, used \in BOOLEAN :
           MarkRegion(base, length, used)

SpecMarks == Init /\ [][NextMarks]_vars

HeldFrames == UNION {b[1] .. b[1] + b[2] - 1 : b \in held}

TypeOK ==
    /\ mmap \in MemMaps
    /\ bitmap \subseteq Frames
    /\ used_pages \in 0 .. NumFrames
    /\ total_pages \in 0 .. NumFrames
    /\ held \subseteq (AllocBase .. NumFrames - 1) \X (1 .. MaxRun)
    /\ outcome \in {"none", "granted", "refused", "released", "marked"}

(* used_pages, which pmm_get_free_memory subtracts from total_pages, is    *)
(* exactly the number of set bits below total_pages after every sequence   *)
(* of pmm_alloc_page/pmm_alloc_pages/pmm_free_page/pmm_free_pages calls.   *)
UsedPagesConsistent ==
    used_pages = Cardinality({p \in 0 .. total_pages - 1 : p \in bitmap})

(* find_free_pages, the scan with its consecutive/start bookkeeping,       *)
(* returns the first fit in every reachable bitmap and for every count.    *)
FirstFitCorrect ==
    \A n \in 1 .. MaxRun :
        find_free_pages(bitmap, total_pages, n, AllocBase)
            = FirstFitRef(bitmap, total_pages, n, AllocBase)

(* A frame the allocator can hand out: below total_pages, not set at boot. *)
BootPool(mm) ==
    {p \in AllocBase .. pmm_init(mm).total - 1 : p \notin pmm_init(mm).bitmap}

(* The allocator implements FrameAllocator: it hands out only free frames  *)
(* of the boot pool, in contiguous runs, and refuses only when no run of   *)
(* the requested length is free.                                           *)
Abs == INSTANCE FrameAllocator
           WITH pool <- BootPool(mmap), owned <- HeldFrames, last <- outcome

AbsSpec == Abs!Spec

(* Usable(mm, p): frame p lies wholly inside an available entry of the     *)
(* 64-bit memory map, inside no other entry, and above the kernel image.   *)
Usable(mm, p) ==
    LET lo == p * PageSize
        hi == lo + PageSize
        In(e) == e.base <= lo /\ hi <= e.base + e.length
        Meets(e) == e.base < hi /\ lo < e.base + e.length
    IN  /\ lo >= PAGE_ALIGN_UP(KernelEnd)
        /\ \E i \in DOMAIN mm : mm[i].type = MMAP_TYPE_AVAILABLE /\ In(mm[i])
        /\ \A i \in DOMAIN mm : mm[i].type # MMAP_TYPE_AVAILABLE => ~Meets(mm[i])

(* Every frame pmm_alloc_page/pmm_alloc_pages has handed out is RAM the    *)
(* firmware reported available, as pmm_init's map parsing must ensure.     *)
AllocatesOnlyUsableMemory == \A p \in HeldFrames : Usable(mmap, p)

=============================================================================
