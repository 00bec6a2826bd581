------------------------------- MODULE Kernel -------------------------------
(***************************************************************************)
(* The SimpleOS core on one CPU: the PMM (PMMOps), the VMM (vmm.c), the    *)
(* process table (process.c), the round-robin scheduler (scheduler.c),     *)
(* the timer interrupt (timer.c) and int 0x80 (syscall.c, usermode.c),     *)
(* driven by the shell commands of kernel.c that create processes, and    *)
(* the shell's file commands on the RAM file system (RamFS).               *)
(*                                                                         *)
(* Memory.  All model frames lie in the first 4MB, which vmm_init          *)
(* identity-maps through first_page_table (KPT) installed at index 0 of    *)
(* kernel_page_directory (KPD): first-fit allocation from 1MB keeps every  *)
(* frame the kernel hands out below 4MB.  mem[f][i] is entry i of frame f  *)
(* read as a page directory or page table, 0 when not present.  Only the   *)
(* indices the code touches are kept: PDE 0 (identity), PDE 1 (0x400000 -  *)
(* 0x7FFFFF, used by the alloc and usermode commands), PDE 767 (the user   *)
(* stack at 0xBFFFF000), PTE 0 and PTE 1023.  KPT's entries are the        *)
(* identity and are not stored.  Flags are not kept: every entry the code  *)
(* writes below 0xC0000000 is user-accessible.                             *)
(***************************************************************************)
EXTENDS PMMOps, RamFS

CONSTANTS
    MaxProc,      \* MAX_PROCESSES (32 in process.h)
    TimeSlice,    \* the quantum written by process_create and schedule (10)
    KPD,          \* frame of kernel_page_directory (in the kernel image)
    KPT,          \* frame of first_page_table (in the kernel image)
    BatchSizes,   \* processes created by one shell command (testproc: 3, testhier: 4)
    MaxBatches,   \* bound on the process-creating commands typed
    Syscalls,     \* the numbers user code may put in eax before int 0x80
    MaxLen,       \* bound on the length argument of SYSCALL_WRITE
    FsNames,      \* file names typed at the shell, as cut to 31 characters
    FsLens,       \* lengths of the text of a "write" command (1 .. 247)
    WELCOME, README   \* "welcome.txt" and "readme.txt", written at boot

Slots == 0 .. MaxProc - 1
Idx == {0, 1, 767, 1023}
UserPDI == {0, 1, 767}                     \* the stored PDEs below 768
Empty == [i \in Idx |-> 0]

(* Virtual pages as <<PDE index, PTE index>>. *)
USER_STACK == <<767, 1023>>                \* 0xBFFFF000, process_create
TEST_VIRT  == <<1, 0>>                     \* 0x400000, shell "alloc"
UM_STACK   == <<1, 1023>>                  \* 0x800000 - 4096, enter_user_mode
LOW_PAGE   == <<0, 0>>                     \* kernel image / code, identity-mapped
UserBufs   == {USER_STACK, TEST_VIRT, LOW_PAGE}

BootStack == AllocBase - 1     \* esp0 = 0x90000 (tss_init): a frame of the first 1MB
SYSCALL_EXIT == 1
SYSCALL_WRITE == 2
SYSCALL_GETPID == 6

ASSUME KPD # KPT /\ {KPD, KPT} \subseteq AllocBase .. NumFrames - 1

VARIABLES
    bitmap, used_pages, total_pages,      \* pmm.c
    mem, current_pd_phys,                 \* vmm.c
    proc, current_process, next_pid,      \* process.c: process_table, current, next_pid
    scheduling_enabled,                   \* scheduler.c
    tss_esp0,                             \* gdt.c: tss_entry.esp0
    status,                               \* "running", halted, panic or corrupt
    kpc, kl,                              \* shell control point and locals (idle context)
    batches,                              \* process-creating commands typed so far
    lastSys,                              \* the last completed system call
    files,                                \* ramfs.c: files
    fsOut                                 \* the last file command and what it printed

vars == <<bitmap, used_pages, total_pages, mem, current_pd_phys, proc,
          current_process, next_pid, scheduling_enabled, tss_esp0, status,
          kpc, kl, batches, lastSys, files, fsOut>>

(***************************************************************************)
(* Memory operations on a record k = [pm, mem, cr3], pm being the PMM      *)
(* record of PMMOps; an operation returning a value returns [k, v].        *)
(***************************************************************************)
(* hit records that a pmm_alloc_page of the step returned a frame of the  *)
(* kernel image, which is only free after vmm_destroy_page_directory has   *)
(* released the identity-mapped 4MB.  Every caller writes the frame it is  *)
(* given (zero_page, the directory loop of vmm.c:130-140, the shell's test *)
(* word, a stack), so kernel_page_directory or first_page_table is         *)
(* overwritten under the running kernel: what the machine does next is     *)
(* undefined, and the model stops in status "corrupt".                     *)
KernelImage == AllocBase .. ADDR_TO_PFN(PAGE_ALIGN_UP(KernelEnd)) - 1

K == [pm |-> [bitmap |-> bitmap, used |-> used_pages, total |-> total_pages],
      mem |-> mem, cr3 |-> current_pd_phys, hit |-> FALSE]

SetK(k) ==
    /\ bitmap' = k.pm.bitmap
    /\ used_pages' = k.pm.used
    /\ mem' = k.mem
    /\ current_pd_phys' = k.cr3
    /\ status' = IF k.hit THEN "corrupt" ELSE status

Alloc(k) ==
    LET r == pmm_alloc_page(k.pm)
    IN  [k |-> [k EXCEPT !.pm = r.s, !.hit = @ \/ r.pfn \in KernelImage], v |-> r.pfn]

FreeFrames(k, S) == [k EXCEPT !.pm = pmm_free_frames(@, S)]

(* get_page_table: the PDE is read in the directory named by               *)
(* current_pd_phys; a missing table is allocated, zeroed and installed.    *)
get_page_table(k, pdi, create) ==
    LET pd == k.cr3
        a  == Alloc(k)
    IN  IF k.mem[pd][pdi] # 0 THEN [k |-> k, v |-> k.mem[pd][pdi]]
        ELSE IF ~create THEN [k |-> k, v |-> 0]
        ELSE IF a.v = 0 THEN a
        ELSE [k |-> [a.k EXCEPT !.mem = [@ EXCEPT ![a.v] = Empty, ![pd][pdi] = a.v]],
              v |-> a.v]

(* vmm_map_page: writing into first_page_table only re-states the identity *)
(* mapping (the code page of process_create and enter_user_mode).          *)
vmm_map_page(k, va, phys) ==
    LET g == get_page_table(k, va[1], TRUE)
    IN  IF g.v = 0 THEN [k |-> g.k, v |-> FALSE]
        ELSE IF g.v = KPT THEN [k |-> g.k, v |-> TRUE]
        ELSE [k |-> [g.k EXCEPT !.mem[g.v][va[2]] = phys], v |-> TRUE]

vmm_unmap_page(k, va) ==
    LET g == get_page_table(k, va[1], FALSE)
    IN  IF g.v = 0 \/ g.v = KPT THEN k ELSE [k EXCEPT !.mem[g.v][va[2]] = 0]

(* vmm_is_mapped in the current directory. *)
vmm_is_mapped(k, va) ==
    LET t == k.mem[k.cr3][va[1]]
    IN  t # 0 /\ (t = KPT \/ k.mem[t][va[2]] # 0)

(* vmm_alloc_page: a frame, mapped, or freed again if the map fails. *)
vmm_alloc_page(k, va) ==
    LET a == Alloc(k)
        m == vmm_map_page(a.k, va, a.v)
    IN  IF a.v = 0 THEN [k |-> a.k, v |-> FALSE]
        ELSE IF ~m.v THEN [k |-> FreeFrames(m.k, {a.v}), v |-> FALSE]
        ELSE m

(* vmm_create_page_directory: user entries cleared, then entry 0 copied   *)
(* from the kernel directory, so every directory shares first_page_table;  *)
(* the copy reads kernel_page_directory after the clearing loop.           *)
vmm_create_page_directory(k) ==
    LET a       == Alloc(k)
        cleared == [a.k.mem EXCEPT ![a.v] = Empty]
    IN  IF a.v = 0 THEN a
        ELSE [k |-> [a.k EXCEPT !.mem = [cleared EXCEPT ![a.v][0] = cleared[KPD][0]]],
              v |-> a.v]

(* The frames a page table maps: all of them for the identity table. *)
PTFrames(k, t) == IF t = KPT THEN Frames ELSE {k.mem[t][j] : j \in Idx} \ {0}

(* vmm_destroy_page_directory: every present PDE below 768 is walked, its  *)
(* mapped frames freed, then the table, then the directory.  Entry 0 is    *)
(* the shared first_page_table and is walked like any other.               *)
vmm_destroy_page_directory(k, pd) ==
    LET pts == {k.mem[pd][i] : i \in UserPDI} \ {0}
    IN  IF pd = 0 \/ pd = KPD THEN k
        ELSE FreeFrames(k, UNION {PTFrames(k, t) : t \in pts} \cup pts \cup {pd})

vmm_switch_page_directory(k, pd) == [k EXCEPT !.cr3 = pd]

(* vmm_init: kernel_page_directory with first_page_table, the identity    *)
(* map of the first 4MB, at entry 0; every other table is zeroed.          *)
vmm_init == [f \in Frames |-> IF f = KPD THEN [Empty EXCEPT ![0] = KPT] ELSE Empty]

(***************************************************************************)
(* Process table and scheduler.  A slot is [pid, state, pd, kstack, slice, *)
(* ctx]; ctx is the pid whose saved context (eip, esp, selectors) the slot *)
(* holds, written last by process_create.  Fields a failed creation or a   *)
(* new occupant does not write keep their old values, as in the static     *)
(* process_table.  The idle process's kernel_stack and time_slice are      *)
(* never written by process_init and stay 0.                               *)
(***************************************************************************)
NoProc == [pid |-> 0, state |-> "UNUSED", pd |-> 0, kstack |-> 0, slice |-> 0, ctx |-> 0]

process_init == [s \in Slots |-> IF s = 0
                                 THEN [NoProc EXCEPT !.state = "RUNNING", !.pd = KPD]
                                 ELSE NoProc]

(* process_alloc: the first UNUSED slot, or -1. *)
process_alloc(p) ==
    LET free == {s \in Slots : p[s].state = "UNUSED"}
    IN  IF free = {} THEN -1 ELSE Min(free)

(* Mutant: the scan always starts at slot 1. *)
find_next_process_fromone(p, c) ==
    LET hit == {i \in 0 .. 2 * MaxProc - 1 :
                   p[(1 + i) % MaxProc].state = "READY" /\ p[(1 + i) % MaxProc].pid # 0}
    IN  IF hit = {} THEN 0 ELSE (1 + Min(hit)) % MaxProc

(* find_next_process: from slot (current->pid + 1) mod MAX_PROCESSES, 2N   *)
(* slots, the first READY one with a non-zero pid; else slot 0 (idle).     *)
find_next_process(p, c) ==
    LET start == p[c].pid + 1
        hit   == {i \in 0 .. 2 * MaxProc - 1 :
                     p[(start + i) % MaxProc].state = "READY"
                     /\ p[(start + i) % MaxProc].pid # 0}
    IN  IF hit = {} THEN 0 ELSE (start + Min(hit)) % MaxProc

(* Built(s): process_create has run to the end for the slot's occupant. *)
Built(s) == s # 0 /\ proc[s].state # "UNUSED" /\ proc[s].ctx = proc[s].pid

(* Code runs at ring 3 in the current context: a built process, or idle    *)
(* after enter_user_mode's iret.                                           *)
UserContext(c) == Built(c) \/ (c = 0 /\ kpc = "ring3")

Running == status = "running"

(***************************************************************************)
(* Timer interrupt: timer_callback -> scheduler_tick -> scheduler_schedule *)
(* in one step (interrupt gate: IF is clear in the handler).  The tick     *)
(* arrives between any two steps of the shell and of user code; a tick     *)
(* with scheduling disabled changes nothing and is left out.               *)
(***************************************************************************)
(* Mutant: time_slice decremented without the "> 0" test. *)
TickCount_nofloor ==
    /\ Running /\ scheduling_enabled
    /\ proc[current_process].slice # 1
    /\ proc' = [proc EXCEPT ![current_process].slice = @ - 1]
    /\ UNCHANGED <<bitmap, used_pages, total_pages, mem, current_pd_phys,
                   current_process, next_pid, scheduling_enabled, tss_esp0,
                   status, kpc, kl, batches, lastSys>>

TickCount ==
    /\ Running /\ scheduling_enabled
    /\ proc[current_process].slice > 1
    /\ proc' = [proc EXCEPT ![current_process].slice = @ - 1]
    /\ UNCHANGED <<bitmap, used_pages, total_pages, mem, current_pd_phys,
                   current_process, next_pid, scheduling_enabled, tss_esp0,
                   status, kpc, kl, batches, lastSys>>

(* Mutant: process_set_current without the TSS esp0 update. *)
scheduler_schedule_notss(p, c) ==
    LET next == find_next_process(p, c)
    IN  /\ proc' = IF next = c THEN p
                   ELSE [p EXCEPT ![c].state = IF @ = "RUNNING" THEN "READY" ELSE @,
                                  ![next].state = "RUNNING",
                                  ![next].slice = TimeSlice]
        /\ current_process' = next
        /\ tss_esp0' = tss_esp0
        /\ current_pd_phys' = IF next = c THEN current_pd_phys ELSE p[next].pd

(* process_set_current: current_process, and tss_set_kernel_stack. *)
process_set_current(p, next) ==
    /\ current_process' = next
    /\ tss_esp0' = p[next].kstack

scheduler_schedule(p, c) ==
    LET next == find_next_process(p, c)
    IN  /\ proc' = IF next = c THEN p
                   ELSE [p EXCEPT ![c].state = IF @ = "RUNNING" THEN "READY" ELSE @,
                                  ![next].state = "RUNNING",
                                  ![next].slice = TimeSlice]
        /\ IF next = c THEN UNCHANGED <<current_process, tss_esp0>>
           ELSE process_set_current(p, next)
        /\ current_pd_phys' = IF next = c THEN current_pd_phys ELSE p[next].pd

TickSchedule ==
    /\ Running /\ scheduling_enabled
    /\ proc[current_process].slice <= 1
    /\ scheduler_schedule([proc EXCEPT ![current_process].slice = 0], current_process)
    /\ UNCHANGED <<bitmap, used_pages, total_pages, mem, next_pid,
                   scheduling_enabled, status, kpc, kl, batches, lastSys>>

Tick == TickCount \/ TickSchedule

(***************************************************************************)
(* The shell (kmain's loop, kernel.c) runs in the idle process's context,  *)
(* so it only makes progress while slot 0 is current.  A process-creating  *)
(* command (testproc, testexit, testhier) calls process_create n times and *)
(* scheduler_start if all n returned a pid.  process_create is split at    *)
(* the points where a timer tick can observe its partial work.            *)
(***************************************************************************)
ShellRuns == Running /\ current_process = 0

Slot == kl.slot

Returned(ok) ==
    /\ kl' = [kl EXCEPT !.left = @ - 1, !.ok = @ /\ ok]
    /\ kpc' = "create"

(* A failed step of process_create: the memory undone, the slot UNUSED.   *)
Abort(k) ==
    /\ SetK(k)
    /\ proc' = [proc EXCEPT ![Slot].state = "UNUSED"]
    /\ Returned(FALSE)

(* What a step leaves alone besides memory; SetK writes status itself. *)
Ctl == <<current_process, scheduling_enabled, tss_esp0, batches, lastSys>>
Sched == <<Ctl, status>>
Mem == <<bitmap, used_pages, mem, current_pd_phys>>

ShellCommand(n) ==
    /\ ShellRuns /\ kpc = "shell" /\ batches < MaxBatches
    /\ kpc' = "create"
    /\ kl' = [kl EXCEPT !.left = n, !.ok = TRUE]
    /\ batches' = batches + 1
    /\ UNCHANGED <<Mem, total_pages, proc, next_pid, current_process,
                   scheduling_enabled, tss_esp0, status, lastSys>>

(* process_create, lines 75-101: slot, pid, PCB fields, READY. *)
CreateSlot ==
    /\ ShellRuns /\ kpc = "create" /\ kl.left > 0
    /\ process_alloc(proc) # -1
    /\ LET s == process_alloc(proc)
       IN  /\ proc' = [proc EXCEPT ![s].pid = next_pid, ![s].state = "READY",
                                   ![s].slice = TimeSlice]
           /\ kl' = [kl EXCEPT !.slot = s]
    /\ next_pid' = next_pid + 1
    /\ kpc' = "c_pd"
    /\ UNCHANGED <<Mem, total_pages, Sched>>

CreateTableFull ==
    /\ ShellRuns /\ kpc = "create" /\ kl.left > 0
    /\ process_alloc(proc) = -1
    /\ Returned(FALSE)
    /\ UNCHANGED <<Mem, total_pages, proc, next_pid, Sched>>

(* lines 104-109 *)
CreatePD ==
    LET r == vmm_create_page_directory(K)
    IN  /\ ShellRuns /\ kpc = "c_pd" /\ r.v # 0
        /\ SetK(r.k)
        /\ proc' = [proc EXCEPT ![Slot].pd = r.v]
        /\ kpc' = "c_kstack"
        /\ UNCHANGED <<total_pages, next_pid, kl, Ctl>>

CreatePDFail ==
    /\ ShellRuns /\ kpc = "c_pd" /\ vmm_create_page_directory(K).v = 0
    /\ proc' = [proc EXCEPT ![Slot].pd = 0, ![Slot].state = "UNUSED"]
    /\ Returned(FALSE)
    /\ UNCHANGED <<Mem, total_pages, next_pid, Sched>>

(* lines 112-118 *)
CreateKStack ==
    LET a == Alloc(K)
    IN  /\ ShellRuns /\ kpc = "c_kstack" /\ a.v # 0
        /\ SetK(a.k)
        /\ proc' = [proc EXCEPT ![Slot].kstack = a.v]
        /\ kpc' = "c_ustack"
        /\ UNCHANGED <<total_pages, next_pid, kl, Ctl>>

CreateKStackFail ==
    /\ ShellRuns /\ kpc = "c_kstack" /\ Alloc(K).v = 0
    /\ Abort(vmm_destroy_page_directory(K, proc[Slot].pd))
    /\ UNCHANGED <<total_pages, next_pid, Ctl>>

(* lines 121-132 *)
CreateUStack ==
    LET a == Alloc(K)
    IN  /\ ShellRuns /\ kpc = "c_ustack" /\ a.v # 0
        /\ SetK(a.k)
        /\ kl' = [kl EXCEPT !.us = a.v]
        /\ kpc' = "c_switch"
        /\ UNCHANGED <<total_pages, proc, next_pid, Ctl>>

CreateUStackFail ==
    /\ ShellRuns /\ kpc = "c_ustack" /\ Alloc(K).v = 0
    /\ Abort(vmm_destroy_page_directory(FreeFrames(K, {proc[Slot].kstack}), proc[Slot].pd))
    /\ UNCHANGED <<total_pages, next_pid, Ctl>>

(* lines 136-137: old_pd saved, the new directory installed. *)
CreateSwitch ==
    /\ ShellRuns /\ kpc = "c_switch"
    /\ kl' = [kl EXCEPT !.old_pd = current_pd_phys]
    /\ SetK(vmm_switch_page_directory(K, proc[Slot].pd))
    /\ kpc' = "c_map"
    /\ UNCHANGED <<total_pages, proc, next_pid, Ctl>>

(* lines 139-147: the user stack mapped in the current directory. *)
CreateMap ==
    LET m == vmm_map_page(K, USER_STACK, kl.us)
    IN  /\ ShellRuns /\ kpc = "c_map" /\ m.v
        /\ SetK(m.k)
        /\ kpc' = "c_finish"
        /\ UNCHANGED <<total_pages, proc, next_pid, kl, Ctl>>

(* Mutant: the rollback does not switch back to the old directory. *)
CreateMapFail_noswitch ==
    LET m == vmm_map_page(K, USER_STACK, kl.us)
    IN  /\ ShellRuns /\ kpc = "c_map" /\ ~m.v
        /\ Abort(vmm_destroy_page_directory(
                     FreeFrames(m.k, {kl.us, proc[Slot].kstack}), proc[Slot].pd))
        /\ UNCHANGED <<total_pages, next_pid, Ctl>>

CreateMapFail ==
    LET m    == vmm_map_page(K, USER_STACK, kl.us)
        back == vmm_switch_page_directory(m.k, kl.old_pd)
    IN  /\ ShellRuns /\ kpc = "c_map" /\ ~m.v
        /\ Abort(vmm_destroy_page_directory(
                     FreeFrames(back, {kl.us, proc[Slot].kstack}), proc[Slot].pd))
        /\ UNCHANGED <<total_pages, next_pid, Ctl>>

(* lines 150-183: the code page is re-mapped in first_page_table (no      *)
(* change here), the old directory reinstalled, the context written.      *)
CreateFinish ==
    /\ ShellRuns /\ kpc = "c_finish"
    /\ SetK(vmm_switch_page_directory(K, kl.old_pd))
    /\ proc' = [proc EXCEPT ![Slot].ctx = proc[Slot].pid]
    /\ Returned(TRUE)
    /\ UNCHANGED <<total_pages, next_pid, Ctl>>

(* The end of the command: scheduler_start only if every create succeeded. *)
BatchStart ==
    /\ ShellRuns /\ kpc = "create" /\ kl.left = 0 /\ kl.ok
    /\ scheduling_enabled' = TRUE
    /\ kpc' = "shell"
    /\ UNCHANGED <<Mem, total_pages, proc, current_process, next_pid, tss_esp0,
                   status, kl, batches, lastSys>>

BatchFailed ==
    /\ ShellRuns /\ kpc = "create" /\ kl.left = 0 /\ ~kl.ok
    /\ kpc' = "shell"
    /\ UNCHANGED <<Mem, total_pages, proc, next_pid, kl, Sched>>

(* Mutant: the test page is freed without vmm_unmap_page. *)
AllocCommand_nounmap ==
    LET a == Alloc(K)
        m == vmm_map_page(a.k, TEST_VIRT, a.v)
    IN  /\ ShellRuns /\ kpc = "shell"
        /\ SetK(IF a.v = 0 THEN K ELSE FreeFrames(m.k, {a.v}))
        /\ UNCHANGED <<total_pages, proc, next_pid, kpc, kl, Ctl>>

(* Shell "alloc": pmm_alloc_page, map at 0x400000 in the current directory *)
(* (a page table is allocated once and kept), write, unmap, pmm_free_page. *)
AllocCommand ==
    LET a == Alloc(K)
        m == vmm_map_page(a.k, TEST_VIRT, a.v)
        u == IF m.v THEN vmm_unmap_page(m.k, TEST_VIRT) ELSE m.k
    IN  /\ ShellRuns /\ kpc = "shell"
        /\ SetK(IF a.v = 0 THEN K ELSE FreeFrames(u, {a.v}))
        /\ UNCHANGED <<total_pages, proc, next_pid, kpc, kl, Ctl>>

(* Shell "halt": cli, then hlt forever. *)
HaltCommand ==
    /\ ShellRuns /\ kpc = "shell"
    /\ status' = "halted"
    /\ UNCHANGED <<Mem, total_pages, proc, current_process, next_pid,
                   scheduling_enabled, tss_esp0, kpc, kl, batches, lastSys>>

(* Shell "usermode": enter_user_mode maps a stack page at 0x7FF000 with    *)
(* vmm_alloc_page and irets to ring 3 in the idle context.                 *)
UserModeCommand ==
    LET r == vmm_alloc_page(K, UM_STACK)
    IN  /\ ShellRuns /\ kpc = "shell"
        /\ SetK(r.k)
        /\ kpc' = IF r.v THEN "ring3" ELSE "shell"
        /\ UNCHANGED <<total_pages, proc, next_pid, kl, Ctl>>

(***************************************************************************)
(* int 0x80 from ring 3 (isr_handler -> syscall_handler), atomic: the      *)
(* vector is an interrupt gate.  Number 0x01 goes to                      *)
(* usermode_syscall_handler, which disables interrupts and halts; the      *)
(* idle context at ring 3 (user_mode_test_function) only issues that one.  *)
(***************************************************************************)
Caller == proc[current_process].pid

SyscallExit ==
    /\ Running /\ UserContext(current_process) /\ SYSCALL_EXIT \in Syscalls
    /\ status' = "halted"
    /\ lastSys' = [pid |-> Caller, num |-> SYSCALL_EXIT, ret |-> 0]
    /\ UNCHANGED <<Mem, total_pages, proc, current_process, next_pid,
                   scheduling_enabled, tss_esp0, kpc, kl, batches>>

(* SYSCALL_WRITE reads buffer[i] for i < length through the caller's      *)
(* directory with no check.                                                *)
WriteFaults(fd, buf, len) == fd \in {1, 2} /\ len > 0 /\ ~vmm_is_mapped(K, buf)

SyscallWrite(fd, buf, len) ==
    /\ Running /\ Built(current_process) /\ SYSCALL_WRITE \in Syscalls
    /\ ~WriteFaults(fd, buf, len)
    /\ lastSys' = [pid |-> Caller, num |-> SYSCALL_WRITE,
                   ret |-> IF fd \in {1, 2} THEN len ELSE -1]
    /\ UNCHANGED <<Mem, total_pages, proc, current_process, next_pid,
                   scheduling_enabled, tss_esp0, status, kpc, kl, batches>>

(* The read of an unmapped buffer page faults in ring 0; the page-fault    *)
(* handler (vmm_page_fault_handler) prints and halts.                      *)
WritePageFault(fd, buf, len) ==
    /\ Running /\ Built(current_process) /\ SYSCALL_WRITE \in Syscalls
    /\ WriteFaults(fd, buf, len)
    /\ status' = "panic"
    /\ UNCHANGED <<Mem, total_pages, proc, current_process, next_pid,
                   scheduling_enabled, tss_esp0, kpc, kl, batches, lastSys>>

(* READ, FORK, EXEC and unknown numbers return -1; GETPID returns 1. *)
SyscallReturn(n) ==
    /\ Running /\ Built(current_process) /\ n \in Syscalls \ {SYSCALL_EXIT, SYSCALL_WRITE}
    /\ lastSys' = [pid |-> Caller, num |-> n, ret |-> IF n = SYSCALL_GETPID THEN 1 ELSE -1]
    /\ UNCHANGED <<Mem, total_pages, proc, current_process, next_pid,
                   scheduling_enabled, tss_esp0, status, kpc, kl, batches>>

(***************************************************************************)
(* The shell's file commands (kernel.c, lines 320-431).  Each cuts the     *)
(* name to 31 characters (FsNames are the names after that) and calls the  *)
(* ramfs functions; fsOut records the number the shell prints from.  They  *)
(* touch nothing but files, so a tick between their steps is invisible.    *)
(***************************************************************************)
FsAllNames == FsNames \cup {WELCOME, README}

FsOut(cmd, name, rc) == [cmd |-> cmd, name |-> name, rc |-> rc]

FileStep(fs, out) ==
    /\ ShellRuns /\ kpc = "shell"
    /\ files' = fs
    /\ fsOut' = out
    /\ UNCHANGED <<Mem, total_pages, proc, next_pid, kpc, kl, Sched>>

(* "touch": ramfs_exists, then ramfs_create. *)
TouchCommand(name) ==
    LET c == ramfs_create(files, name)
    IN  IF ramfs_exists(files, name) THEN FileStep(files, FsOut("touch", name, 1))
        ELSE FileStep(c.fs, FsOut("touch", name, c.rc))

RmCommand(name) ==
    LET d == ramfs_delete(files, name)
    IN  FileStep(d.fs, FsOut("rm", name, d.rc))

(* "cat": ramfs_exists, then ramfs_read into a buffer of RAMFS_MAX_FILESIZE. *)
CatCommand(name) ==
    FileStep(files, FsOut("cat", name, IF ramfs_exists(files, name)
                                        THEN ramfs_read(files, name, RAMFS_MAX_FILESIZE)
                                        ELSE -1))

WriteCommand(name, len) ==
    LET w == ramfs_write(files, name, len)
    IN  FileStep(w.fs, FsOut("write", name, w.rc))

LsCommand == FileStep(files, FsOut("ls", NoName, ramfs_count(files)))

DfCommand == FileStep(files, FsOut("df", NoName, ramfs_free_space(files)))

FilesUnchanged == UNCHANGED <<files, fsOut>>

FileCommand ==
    \/ \E n \in FsNames : TouchCommand(n) \/ RmCommand(n) \/ CatCommand(n)
    \/ \E n \in FsNames, len \in FsLens : WriteCommand(n, len)
    \/ LsCommand \/ DfCommand

(***************************************************************************)
(* Boot (kmain): pmm_init, vmm_init, process_init, scheduler_init.         *)
(***************************************************************************)
Init ==
    /\ \E mm \in MemMaps :
           /\ bitmap = pmm_init(mm).bitmap
           /\ used_pages = pmm_init(mm).used
           /\ total_pages = pmm_init(mm).total
    /\ mem = vmm_init
    /\ current_pd_phys = KPD
    /\ proc = process_init
    /\ current_process = 0
    /\ next_pid = 1
    /\ scheduling_enabled = FALSE
    /\ tss_esp0 = BootStack
    /\ status = "running"
    /\ kpc = "shell"
    /\ kl = [slot |-> 0, left |-> 0, ok |-> TRUE, old_pd |-> 0, us |-> 0]
    /\ batches = 0
    /\ lastSys = [pid |-> 0, num |-> 0, ret |-> 0]
    /\ files = ramfs_write(ramfs_write(ramfs_init, WELCOME, 58).fs, README, 136).fs
    /\ fsOut = FsOut("none", NoName, 0)

(* Shell "reboot": lidt of an empty IDT, then int 3, which triple-faults  *)
(* and resets the CPU; the machine boots kmain again from the same memory *)
(* map (the maps of one model differ in size, so the map is the one whose  *)
(* total_pages the running kernel has), and everything in RAM, the files   *)
(* included, starts over.                                                  *)
RebootCommand ==
    /\ ShellRuns /\ kpc = "shell"
    /\ \E mm \in MemMaps :
           /\ pmm_init(mm).total = total_pages
           /\ bitmap' = pmm_init(mm).bitmap
           /\ used_pages' = pmm_init(mm).used
           /\ total_pages' = pmm_init(mm).total
    /\ mem' = vmm_init
    /\ current_pd_phys' = KPD
    /\ proc' = process_init
    /\ current_process' = 0
    /\ next_pid' = 1
    /\ scheduling_enabled' = FALSE
    /\ tss_esp0' = BootStack
    /\ status' = "running"
    /\ kpc' = "shell"
    /\ kl' = [slot |-> 0, left |-> 0, ok |-> TRUE, old_pd |-> 0, us |-> 0]
    /\ batches' = 0
    /\ lastSys' = [pid |-> 0, num |-> 0, ret |-> 0]
    /\ files' = ramfs_write(ramfs_write(ramfs_init, WELCOME, 58).fs, README, 136).fs
    /\ fsOut' = FsOut("none", NoName, 0)

Create ==
    \/ CreateSlot \/ CreateTableFull
    \/ CreatePD \/ CreatePDFail
    \/ CreateKStack \/ CreateKStackFail
    \/ CreateUStack \/ CreateUStackFail
    \/ CreateSwitch
    \/ CreateMap \/ CreateMapFail
    \/ CreateFinish

Shell ==
    \/ \E n \in BatchSizes : ShellCommand(n)
    \/ Create
    \/ BatchStart \/ BatchFailed
    \/ AllocCommand
    \/ UserModeCommand
    \/ HaltCommand

Syscall ==
    \/ SyscallExit
    \/ \E fd \in {1, 3}, buf \in UserBufs, len \in 0 .. MaxLen :
           SyscallWrite(fd, buf, len) \/ WritePageFault(fd, buf, len)
    \/ \E n \in Syscalls : SyscallReturn(n)

Next ==
    \/ (Shell \/ Tick \/ Syscall) /\ FilesUnchanged
    \/ FileCommand
    \/ RebootCommand

(* The PIT interrupts every 10ms whenever interrupts are enabled, which    *)
(* they are everywhere except inside handlers and after a halt.            *)
Spec == Init /\ [][Next]_vars /\ WF_vars(Tick /\ FilesUnchanged)

(***************************************************************************)
(* Properties.                                                             *)
(***************************************************************************)
States == {"UNUSED", "READY", "RUNNING"}
MaxPid == MaxBatches * (CHOOSE b \in BatchSizes : \A c \in BatchSizes : c <= b)
Stages == {"shell", "create", "c_pd", "c_kstack", "c_ustack", "c_switch",
           "c_map", "c_finish", "ring3"}

TypeOK ==
    /\ bitmap \subseteq Frames
    /\ mem \in [Frames -> [Idx -> {0} \cup Frames]]
    /\ current_pd_phys \in {0} \cup Frames
    /\ proc \in [Slots -> [pid : 0 .. MaxPid, state : States, pd : {0} \cup Frames,
                           kstack : {0} \cup Frames, slice : 0 .. TimeSlice,
                           ctx : 0 .. MaxPid]]
    /\ current_process \in Slots
    /\ next_pid \in 1 .. MaxPid + 1
    /\ scheduling_enabled \in BOOLEAN
    /\ tss_esp0 \in {0} \cup Frames
    /\ status \in {"running", "halted", "panic", "corrupt"}
    /\ kpc \in Stages
    /\ batches \in 0 .. MaxBatches
    /\ files \in [FsSlots -> [used : BOOLEAN, name : FsAllNames \cup {NoName},
                              size : 0 .. RAMFS_MAX_FILESIZE]]

(* The frames each party holds, as <<frame, owner>> pairs: the kernel      *)
(* directory and identity table, the tables and pages below PDE 1 of the   *)
(* kernel directory; for every process, its directory, the tables its      *)
(* PDEs 1 and 767 name, the pages those map and its kernel stack, from the *)
(* step of process_create that stores each of them; the user stack frame   *)
(* process_create holds in a local before mapping it.                      *)
TablesOf(pd) == {mem[pd][i] : i \in {1, 767}} \ {0}
PagesOf(pd) == UNION {PTFrames(K, t) : t \in TablesOf(pd)}

HasPD(s) == Built(s) \/ (s = Slot /\ kpc \in {"c_kstack", "c_ustack", "c_switch",
                                             "c_map", "c_finish"})
HasKStack(s) == Built(s) \/ (s = Slot /\ kpc \in {"c_ustack", "c_switch", "c_map",
                                                 "c_finish"})

Claims ==
    {<<KPD, "kernel">>, <<KPT, "kernel">>}
    \cup {<<t, "kernel">> : t \in TablesOf(KPD)}
    \cup {<<f, "kernel">> : f \in PagesOf(KPD)}
    \cup UNION {{<<proc[s].pd, <<s, "pd">>>>}
                \cup {<<t, <<s, "pt">>>> : t \in TablesOf(proc[s].pd)}
                \cup {<<f, <<s, "page">>>> : f \in PagesOf(proc[s].pd)}
                : s \in {x \in Slots : HasPD(x) /\ proc[x].state # "UNUSED"}}
    \cup {<<proc[s].kstack, <<s, "kstack">>>> :
              s \in {x \in Slots : HasKStack(x) /\ proc[x].state # "UNUSED"}}
    \cup (IF kpc \in {"c_switch", "c_map"} THEN {<<kl.us, <<Slot, "ustack">>>>} ELSE {})

(* Every frame some page directory, page table, mapping, PCB or            *)
(* process_create local refers to is marked used in the PMM bitmap and    *)
(* has exactly one owner, across any interleaving of shell commands,       *)
(* timer ticks and system calls (spec 3: a freed frame is never still      *)
(* referenced, a frame is never held twice).                               *)
FrameOwnership ==
    \A f \in Frames :
        LET owners == {c[2] : c \in {x \in Claims : x[1] = f}}
        IN  owners # {} => f \in bitmap /\ Cardinality(owners) = 1

(* Dispatch state is coherent after every tick and command: exactly the   *)
(* current slot is RUNNING; when code runs at ring 3 the TSS esp0 is that  *)
(* context's kernel stack; CR3 is the current process's directory except   *)
(* while process_create has its new directory installed (lines 137-159).   *)
KernelStackOf(c) == IF c = 0 THEN BootStack ELSE proc[c].kstack

DispatchConsistent ==
    /\ {s \in Slots : proc[s].state = "RUNNING"} = {current_process}
    /\ UserContext(current_process) => tss_esp0 = KernelStackOf(current_process)
    /\ current_pd_phys = IF current_process = 0 /\ kpc \in {"c_map", "c_finish"}
                         THEN proc[Slot].pd
                         ELSE proc[current_process].pd

(* Once scheduler_start has run, every READY process is eventually         *)
(* dispatched by the round-robin scan of find_next_process, unless the     *)
(* machine halts or the shell's reboot empties the table (spec 8.6: no     *)
(* process is starved).                                                    *)
ReadyEventuallyRuns ==
    \A s \in Slots \ {0}, p \in 1 .. MaxPid :
        (scheduling_enabled /\ proc[s].state = "READY" /\ proc[s].pid = p)
            ~> (~Running \/ proc[s].state = "UNUSED"
                \/ (proc[s].pid = p /\ proc[s].state = "RUNNING"))

(* The slot table implements a directory (RamFSSpec): through any sequence *)
(* of touch, rm, cat, write, ls and df, each name has at most one file, a  *)
(* cat shows the size the last write of that name stored, a full table    *)
(* refuses only names it does not hold, and ls and df count the files the  *)
(* directory has (ramfs.c find_file / find_free_slot / ramfs_write).       *)
FsDir == [n \in FsAllNames |-> IF ramfs_exists(files, n)
                               THEN files[find_file(files, n)].size ELSE -1]

BootFsDir == [n \in FsAllNames |-> CASE n = WELCOME -> 58
                                     [] n = README  -> 136
                                     [] OTHER       -> -1]

FS == INSTANCE RamFSSpec WITH Names <- FsAllNames, Lens <- FsLens,
        MaxFiles <- RAMFS_MAX_FILES, MaxFileSize <- RAMFS_MAX_FILESIZE,
        MISSING <- -1, BootDir <- BootFsDir, dir <- FsDir, ret <- fsOut

FileSystemRefines == FS!Spec

(* The timer only ever dispatches a process whose process_create has       *)
(* finished: the slot is made READY at line 86, before its directory,      *)
(* kernel stack and context exist (spec 4.3: create is atomic).            *)
DispatchedProcessComplete ==
    current_process # 0 => Built(current_process)

=============================================================================
