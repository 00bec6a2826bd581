# TLA+ models of the SimpleOS kernel, its SMP scheduler and the OS/2 emulator

These modules model three programs of the repository:

- the SimpleOS kernel in `src/simpleos-main/simpleos/`, an i386 protected-mode kernel: the physical memory manager (PMM), the virtual memory manager (VMM), processes, the scheduler, traps and system calls, and the input event ring;
- the per-CPU SMP scheduler in `src/side_project/SMPScheduler.cpp`, a multi-processor run-queue design with spinlocks, priorities, affinity and work stealing;
- the OS/2 API emulation layer in `src/OS2_Wrapper/os2_emulator.c`, which maps OS/2 file handles onto the Linux descriptors of the process hosting an OS/2 program.

The models are checked with TLC. `PROJECT.json` lists the components, the runs, the mutants, the source lines each definition models (`map`), the findings and the hazards.

## The system and how its parts interact

| Part | Source | What it does |
|---|---|---|
| PMM | `pmm.c`, `pmm.h` | A bitmap of frames, 1 = used. `pmm_init` builds it from the multiboot memory map. It reserves the first 1MB and the kernel image, and sets `total_pages` and `used_pages`. `pmm_alloc_page` and `pmm_alloc_pages` are first fit from 1MB. `pmm_free_page` and `pmm_free_pages` clear bits below `total_pages`. |
| VMM | `vmm.c` | `vmm_init` identity-maps the first 4MB through `first_page_table`, which is installed at PDE 0 of `kernel_page_directory`. Every directory made by `vmm_create_page_directory` copies that PDE, so all address spaces share the identity table. `get_page_table` works in the directory named by `current_pd_phys` and allocates missing tables from the PMM. |
| Process table | `process.c` | 32 slots. Slot 0 is idle (pid 0), running in the kernel directory. `process_create` takes an UNUSED slot and a pid, marks the slot READY, then allocates a directory, a kernel stack and a user stack. It switches to the new directory to map the user stack at 0xBFFFF000, switches back and writes the context. Every failure rolls back what was done so far. |
| Scheduler | `scheduler.c`, `timer.c` | Each PIT tick decrements `time_slice`. When the slice reaches 0, `scheduler_schedule` runs `find_next_process`. That function scans 2N slots from `(current->pid + 1) mod N` and returns the first READY slot with a non-zero pid, or idle. The switch sets the TSS esp0 and CR3. |
| Traps and system calls | `idt.c`, `syscall.c`, `usermode.c`, `gdt.c` | int 0x80 goes to `syscall_handler`. Number 1 goes to the user-mode test handler, which halts. WRITE copies the user buffer to VGA with no check. GETPID returns 1. The other numbers return -1. A kernel page fault prints and halts. `enter_user_mode` maps a stack page and irets to ring 3. |
| Event ring | `events.c`, `keyboard.c`, `mouse.c`, `kernel.c` | A ring of 256 events. `push_event` runs inside the keyboard (IRQ1) and mouse (IRQ12) handlers; when the ring is full it drops the oldest event by advancing `queue_tail`. kmain's loop calls `events_pending`, then `pop_event`, hands the event to the shell's line editor, and calls `halt_cpu` after every iteration. |
| RAM file system | `ramfs.c`, `ramfs.h` | A table of 32 slots `[name, data, size, used]`. `find_file` returns the first used slot with the name, and `find_free_slot` the first unused one. `ramfs_create` refuses a name that exists or a full table. `ramfs_write` creates the file when it is missing and clamps the size to 4096. `ramfs_delete` clears the slot. kmain writes `welcome.txt` and `readme.txt` at boot. The shell's `touch`, `rm`, `cat`, `write`, `ls` and `df` cut the name to 31 characters and call these functions. |
| Shell and boot | `kernel.c` | Boot runs `pmm_init` (with a fallback map), `vmm_init`, `process_init` and `scheduler_init`. The shell loop runs in idle's context with interrupts on. `testproc`, `testexit` and `testhier` call `process_create` several times, then `scheduler_start` if all of them succeeded. `alloc` allocates, maps, unmaps and frees a page. `usermode` enters ring 3. `halt` stops the CPU with interrupts off. `reboot` loads an empty IDT and raises int 3, so the triple fault resets the machine and kmain boots again. |

The SMP scheduler is a separate program. Each CPU has one run queue: a doubly linked list per priority (0-127), a bitmap of the non-empty lists, a thread counter and a spinlock. `enqueue_thread` pushes at the head. `dequeue_highest_priority` takes the head of the highest non-empty list. `sched_create_thread` places a thread on `find_best_cpu`'s choice. `sched_balance_load` steals from the other CPUs' lists, within the thread's affinity mask. The API functions take a lock only around the list operations, so their other loads and stores interleave with those of other CPUs.

The OS/2 emulator is a third, hosted program. It keeps a table of 256 handle slots; slots 0-2 are stdin, stdout and stderr, and `allocate_handle` gives out slots from 3. `DosOpen` translates the OS/2 open flags into `open()` flags, opens the file and takes a slot for the descriptor. `DosRead`, `DosWrite`, `DosSetFilePtr` and `DosClose` look the handle up and call `read`, `write`, `lseek` and `close`. `DosDelete`, `DosSleep`, `DosAllocMem`, `DosFreeMem` and `DosExit` are thin wrappers of `unlink`, `usleep`, `malloc`, `free` and `exit`. A loaded OS/2 program calls them one after another through `resolve_os2_api`.

Because the shell runs with interrupts on, a timer tick can fall between any two steps of `process_create`. Once scheduling is enabled, ticks also move the CPU away from idle, and the shell then waits until idle is dispatched again.

## Modules

| Module | Models | Notes |
|---|---|---|
| `PMMOps` | `pmm.c` as pure operators on a record `[bitmap, used, total]` | `pmm_init` is a `FoldLeft` of `InitEntry` over the map. It keeps the 32-bit truncation of the 64-bit base and length (`% Word`). `find_free_pages` is the RECURSIVE `Scan` with the code's `consecutive`/`start` locals. `FirstFitRef` is the reference it is checked against. An allocation returns `[s, pfn]`, where pfn 0 means failure, as in the code. |
| `PMM` | the PMM as a state machine with one client | `Init` boots with one of `MemMaps`. `AllocPage`, `AllocPages(n)`, `FreePage(b)` and `FreePages(b)` are the API calls. `held` holds the client's blocks. `MarkRegion` (in `NextMarks`) adds `pmm_mark_region_used` and `pmm_mark_region_free`, which nothing in the kernel calls yet. |
| `FrameAllocator` | the abstract allocator | It grants a free run from a fixed pool, refuses only when no free run of that length exists, and releases owned frames. `PMM` implements it via `Abs == INSTANCE FrameAllocator WITH pool <- BootPool(mmap), owned <- HeldFrames, last <- outcome`, checked as the property `AbsSpec`. |
| `RamFS` | `ramfs.c` as pure operators on the slot table | An operation returns `[fs, rc]`. Names are model values, and contents are abstracted to sizes. |
| `RamFSSpec` | the abstract directory | A function of names to a size or MISSING, plus the number each command reports. `Kernel` implements it via `FS == INSTANCE RamFSSpec WITH dir <- FsDir, ret <- fsOut, ...`, checked as `FileSystemRefines`. |
| `Kernel` | PMM, VMM, process table, scheduler, traps and shell commands on one CPU | It extends `PMMOps` and `RamFS`. Memory operations compose as operators on `k = [pm, mem, cr3]` inside one action, so each action is a whole handler. |
| `EventQueue` | `events.c` with its producers and its consumer | `DeviceIRQ(n)` is one handler pushing n events atomically (`KeyboardIRQ`, `MouseIRQ`). `pop_event` is split at each mention of the volatile `queue_tail`: `Index` loads it and `Copy` copies the slot it names (line 36), then `Load` and `Store` (line 37). A handler can run between any two of these steps. `Pending`, `Halt` and `TimerIRQ` are kmain's loop and the hlt it ends in. |
| `SMPSched` | `SMPScheduler.cpp` after `sched_init` | One action per locked section or unlocked step of each API call, indexed by the calling CPU. See below. |
| `SMPThreads` | the thread life cycle the SMP scheduler promises (spec 4.4) | Each thread is NEW, READY, RUNNING on one CPU, or BLOCKED, with create, dispatch (only on a CPU its mask allows), preempt, block and wake. Where READY threads wait is left open. `SMPSched` implements it via `Abs == INSTANCE SMPThreads WITH tstate <- ..., running <- [c \in CPUs \|-> RunsOn(c)], affinity <- cpu_affinity_mask`, checked as `ThreadsRefines`. |
| `OS2API` | `os2_emulator.c` over a model of the hosting Linux process | One action per exported Dos* call. See below. |
| `MC_PMM`, `MC_Kernel`, `MC_EventQueue`, `MC_SMPSched`, `MC_OS2API` | model values for TLC | Memory maps, ring size, threads as model values, and the scale constants. |

### How Kernel corresponds to the code

The state maps onto the code as follows:

- `bitmap`, `used_pages` and `total_pages` are the PMM statics.
- `mem[f][i]` is entry i of frame f read as a directory or page table, 0 when not present. Only PDE/PTE indices 0, 1, 767 and 1023 are kept, because they are the only ones the code touches. The identity table's entries are implicit.
- `current_pd_phys` is the VMM static (CR3).
- `proc`, `current_process` and `next_pid` are `process_table`, `current_process` and `next_pid`. A slot keeps `[pid, state, pd, kstack, slice, ctx]`. `ctx` is the pid whose context `process_create` last wrote.
- `scheduling_enabled` and `tss_esp0` are the scheduler flag and `tss.esp0`.
- `status` is running, halted (by `cli; hlt` in the user-mode handler or the `halt` command), panic (the page-fault handler) or corrupt. Corrupt means a `pmm_alloc_page` has just handed out a frame of the kernel image. That frame is free only after `vmm_destroy_page_directory` has released the whole identity-mapped 4MB (see kernel_wipe). Every caller writes the frame it gets: `zero_page`, the directory loop of vmm.c:130-140, the `alloc` test word, or a stack. So `kernel_page_directory` or `first_page_table` is overwritten under the running kernel, and what follows is undefined. The model stops there rather than keep running where the code would fault. `K.hit` carries that fact from `Alloc` to `SetK`.
- `kpc` and `kl` are the shell's control point and the locals of the `process_create` under way (`slot`, `old_pd`, the user-stack frame). `batches` counts the commands typed.
- `lastSys` is the last completed system call, with its caller and return value.
- `files` is the ramfs table. `fsOut` is the last file command, with the number the shell prints from: touch 1 (exists), 0 (created) or -1; the return of `ramfs_delete`, `ramfs_read` (-1 when `ramfs_exists` fails) or `ramfs_write`; and `ramfs_count` for ls and `ramfs_free_space` for df.

The actions map onto the code as follows:

- `process_create` is split at each allocation, because those are the points a tick can observe: `CreateSlot`, `CreatePD`, `CreateKStack`, `CreateUStack`, `CreateSwitch`, `CreateMap` and `CreateFinish`. Each failure branch is its own action (`CreateTableFull`, `CreatePDFail`, `CreateKStackFail`, `CreateUStackFail`, `CreateMapFail`) and performs the code's rollback exactly. That rollback includes `vmm_destroy_page_directory` walking PDE 0. `vmm_create_page_directory` reads `kernel_page_directory[0]` after its clearing loop, as the code does.
- `TickCount` and `TickSchedule` are `timer_callback` → `scheduler_tick` → `scheduler_schedule` in one step. The IRQ runs behind an interrupt gate.
- The system calls `SyscallExit`, `SyscallWrite`, `WritePageFault` and `SyscallReturn` are atomic (int 0x80 is an interrupt gate). They are enabled in ring-3 context: a built process, or idle after `usermode`.
- `AllocCommand` and `UserModeCommand` are the `alloc` and `usermode` shell commands.
- `HaltCommand` is `halt`: status becomes halted.
- `RebootCommand` is `reboot`. Every variable returns to its value in `Init`, the files included, because everything lives in RAM and kmain runs again. `RamFSSpec` has a matching `Reset` step back to the boot directory, and `ReadyEventuallyRuns` is discharged when a reboot empties the process table.
- `TouchCommand`, `RmCommand`, `CatCommand`, `WriteCommand`, `LsCommand` and `DfCommand` are the file commands. Each is one step, because nothing but the shell touches `files`, so a tick inside one cannot be observed. `Init` includes kmain's `ramfs_init` and the two boot writes.

### How EventQueue corresponds to the code

`event_queue`, `queue_head` and `queue_tail` are the statics of `events.c`. An event is its arrival number; the key, position and buttons are left out, since no property reads them. `cpc` is kmain's control point, and `ev` and `t` are `pop_event`'s copied event and loaded `queue_tail`. `sent`, `got` and `dropped` are history variables: the events pushed, the events delivered to the shell, and the events `push_event` discarded. `push_event` is an operator on `[q, head, tail]`, and `PushAll` folds it over a burst. `Store` goes straight to `"halted"` because kmain calls `halt_cpu` after every event.

### How SMPSched corresponds to the code

The state maps onto the code as follows:

- `q` is the run queues of all CPUs: `next` and `prev` of each thread, `queues[c][p]` the list heads, `queue_bitmap[c]` the set of marked priorities, and `num_threads[c]` modulo `Word`.
- `state`, `priority_class`, `priority_delta`, `effective_priority`, `cpu_id`, `cpu_affinity_mask` (a set of CPU numbers, {} for 0) and `numa_node` are the thread fields the code reads. `created` is the set of threads returned by `sched_create_thread`, and `current[c]` is `cpu_sched[c].current_thread`.
- `pc`, `arg`, `nxt`, `vi`, `tload` and `rqsel` are each CPU's control point and the locals of the call under way. `Done(c)` resets them when a call returns. `setprio_calls` bounds `sched_set_priority`.

The actions map onto the code as follows:

- A section under a spinlock is one step: `Enqueue` (enqueue_thread), `ScheduleDequeue` (dequeue_highest_priority), and the victim scan `BalanceSteal`. The unlocked parts are separate steps: `SetPriority` then `SetPriorityEnqueue`, `Schedule` / `ScheduleEnqueue` / `ScheduleDequeue` / `ScheduleFinish`, `Yield` then `YieldEnqueue`, `Block`, `Unblock` then `UnblockEnqueue`, `Balance`, `BalanceSteal`, and `BalanceEnqueue`.
- `StealScan` walks a victim's lists as `steal_thread` does. On a cyclic list (which `sched_set_priority` can make) the code loops forever with the lock held; the model's CPU goes to `"hung"`, and `LockFree` keeps every other CPU off that queue.
- `sched_create_thread` reads `numa_node` before it writes it: the read is a choice from `Garbage`. Run smp takes `Garbage = {0}` to stay within its time budget. The value only weights the load of each candidate. The candidates are always drawn from the mask (line 177), so no value of the field can place a thread outside its mask.
- The refinement mapping to `SMPThreads` is defined as follows. A thread not yet returned by `sched_create_thread` is NEW; otherwise its state is `state[t]`. A CPU runs `current[c]` when that thread is RUNNING and the CPU is not inside `sched_schedule`, `sched_yield` or `sched_block` (`GivenUp`). It does run it while inside `sched_unblock`, `sched_set_priority` or the balancer, which the running thread calls. Enqueues, the balancer's moves and `ClearCurrent` are stutters of the abstract spec.

`SMPSched` has no type invariant. The variables are total functions over fixed domains by construction, and every plausible faulty variant of the code (for example a priority outside the class band) makes TLC fail on a function application before a type invariant is checked, so such an invariant would add no check.

### How OS2API corresponds to the code

The state maps onto the code as follows:

- `handle_table` and `handle_table_initialized` are the statics of `os2_emulator.c`. A slot is `[linux_fd, in_use, path]`; a path is a file name from `Names`. `Init` has the table zeroed, as a static array is before `init_handle_table` runs.
- `fdtab`, `exists` and `heap` are the hosting Linux process: its descriptor table (each descriptor records the file it reaches and its access mode), the names in the directory, and the malloc blocks in use. Descriptors 0-2 start on the terminal.
- `running` is FALSE after `DosExit`. `ret` is the last call with its return code, the handle it used or returned, the action `DosOpen` reported and the file a transfer reached. Every action sets it.

The actions map onto the code as follows:

- `DosOpen(name, ulOpenFlags, ulOpenMode)` is the whole call: `init_handle_table`, the flag translation `open_flags`, `open()` with Linux's order of checks (`OpenRefusal`: EMFILE, then EEXIST or ENOENT; otherwise a nondeterministic error from `OpenErrs` or success on the lowest free descriptor), `allocate_handle`, the `close()` on a full table, and the action `ReportedAction` infers from the flags.
- `DosRead(h)` and `DosWrite(h)` are `Transfer`: `get_linux_fd`, then `read` or `write`, which fail with EBADF on a released descriptor or one not open for that direction. The data and the byte counts are left out.
- `DosClose(h)` releases the descriptor whatever `close()` returns, as Linux does, and frees the handle only when `close()` returns 0; `CloseErrs` are the errors `close()` may report.
- `DosSetFilePtr` refuses an origin other than 0-2, fails with ESPIPE on the terminal and EBADF on a released descriptor, and may fail with EINVAL for a negative offset (the offset value is abstracted to its sign).
- `errno_to_os2` is the code's switch on Linux errno values, which the module names with their numbers.

No fairness is assumed: the calls are made by one sequential program, and no property is about progress.

### Scale

A page is 2 units, a `uint32_t` wraps at 64, and the first 4 units are the reserved first 1MB, so allocation starts at frame 2.

- **Kernel:** 24 frames. The kernel image ends at unit 8, so frames 2 and 3 are `kernel_page_directory` and `first_page_table`. A process costs 4 frames: directory, kernel stack, user stack, and the table for PDE 767. `TightMap` (5 free frames) fits one process, `MediumMap` two and `AmpleMap` four. `MapFailMap` (7 free frames) also fits one process. With it, the second process fails at the table for its user stack, or at the user stack itself once the alloc command has taken a table. `TightMap` gives the failures at the directory and at the kernel stack. Run kernel_oom boots from either map. A reboot keeps the map it booted from: the two maps differ in `total_pages`, and `RebootCommand` picks the map by that value.
- **RAM file system (run kernel_oom):** 3 slots, with the two boot files in slots 0 and 1. The typed names are `welcome.txt`, f1 and f2, and the write lengths are 1 and 2. The second new name therefore finds the table full, and `rm` frees a slot that a later create reuses. The other kernel runs type no file names: only `ls` and `df` run there. The shell can pass at most 247 bytes of text, so the 4096-byte clamp is never reached.
- **PMM:** 12 frames and `KernelEnd` 5.
  - `FallbackMap` is the shape of kmain's synthesised map.
  - `HoleMap` has a reserved hole, and an ACPI entry beyond `total_pages`.
  - `HighMap` adds an available entry at 4GB (unit 64).

- **EventQueue:** a ring of 3 slots (2 usable, as in the code), 6 events, bursts of up to 3. A mouse packet pushes up to 4 events (3 buttons and a move), so a burst of 3 already overflows the ring from any fill level.
- **SMPSched:** 2 CPUs in 2 NUMA nodes, 3 threads (2 in the runs with `sched_set_priority` or liveness), classes IDLETIME and REGULAR with delta -16, giving priorities 0 and 32 (two bitmap words). `num_threads` wraps at 8. Masks {} (all), {0} and {1}.

- **OS2API:** 4 handle slots (one user slot, 3) and 5 descriptors (two beyond the terminal), 2 file names under symmetry, the open flags 0x01, 0x02, 0x10, 0x11 and 0x12, the access modes read, write and read-write, and one malloc block. With one user slot the table fills on the second open, and with two free descriptors a descriptor released by a failed `close()` is reused by the next `open()` while another is still open. The pass run explores 95,929 states to depth 11 in about 2 minutes.

These bounds are enough because each finding needs only one or two processes, and the allocator's edge cases only need runs of 1 to 3 frames against a few holes.

### Fairness

`Spec` of `Kernel` assumes `WF_vars(Tick)`. The PIT fires every 10ms whenever interrupts are enabled, and they are enabled everywhere in the kernel except inside handlers and after a halt. No fairness is assumed for the shell or for user code: a command may never be typed, and a process may never make a system call. The PMM specification has no liveness.

`EventQueue` assumes weak fairness of the consumer's steps and of `TimerIRQ`. The loop runs whenever the CPU is not halted, and the PIT keeps firing. `SMPSched` assumes weak fairness of each CPU's steps inside a call, and strong fairness of `Schedule(c)`. A CPU that has entered a call keeps executing it. Nothing in the repository calls `sched_schedule`. Spec 4.4 says the kernel calls it on every timer tick, and the strong fairness stands for that tick: the call is taken infinitely often whenever it is enabled infinitely often. It is disabled while the CPU is inside another call.

## Runs

| Run | Cfg | Expect | What it shows |
|---|---|---|---|
| pmm | `MC_PMM.cfg` | pass | See below. |
| kernel | `MC_Kernel.cfg` (AmpleMap, 4 slots, 2 commands of 3 creates) | pass | See below. |
| kernel_oom | `MC_Kernel_oom.cfg` (TightMap or MapFailMap, 3 commands, file commands) | pass | Every failure path of `process_create` leaves the dispatch state coherent, with the shell back in the kernel directory. Interleaved with those paths, the file commands make the slot table implement the directory of `RamFSSpec` (`FileSystemRefines`). Under refinement, a name has at most one file, `cat` shows the last size written, a full table refuses only new names, and `ls` and `df` count what the directory holds. |
| kernel_halfbuilt | `MC_Kernel_halfbuilt.cfg` (5 slots) | violation | See below. |
| kernel_wipe | `MC_Kernel_wipe.cfg` (TightMap, 4 slots) | violation | See below. |
| events | `MC_EventQueue.cfg` | pass | Handlers are interleaved with every load and store of `pop_event`. Until the ring first overflows, they never make it deliver an event twice or out of order (`DeliveredInOrderWithoutOverflow`). The timer-driven loop drains the ring (`PendingEventuallyPopped`). |
| events_loss | `MC_EventQueue_loss.cfg` | violation | See below. |
| smp | `MC_SMPSched.cfg` (3 threads, one unblocking CPU, no `sched_set_priority`) | pass | See below. |
| smp_any | `MC_SMPSched_any.cfg` (2 threads, `sched_set_priority` allowed) | pass | Even when `sched_set_priority` corrupts the lists and a steal walk hangs, the bitmap marks exactly the non-empty lists (`BitmapTracksLists`). Deadlock is not checked: a hung walk holds its victim's lock forever, so the system can really stop. |
| smp_unblock | `MC_SMPSched_unblock.cfg` (both CPUs unblock) | violation | See below. |
| os2 | `MC_OS2API.cfg` | pass | See below. Deadlock is not checked: after `DosExit` the process has ended and nothing more can happen. |
| os2_close | `MC_OS2API_close.cfg` | violation | See below. |

More on the runs that need it:

- **pmm:** the fallback map and a map with holes are checked against all four of the following:
  - `UsedPagesConsistent`: `used_pages` equals the set bits below `total_pages`.
  - `FirstFitCorrect`: `Scan` equals the reference first fit for every reachable bitmap.
  - `AllocatesOnlyUsableMemory`: every handed-out frame is available RAM above the kernel.
  - `AbsSpec`: the refinement of `FrameAllocator`.
- **kernel:** with memory for every process, it checks every interleaving of shell commands, ticks and system calls. The properties checked are:
  - `DispatchConsistent`: the single RUNNING slot is current, esp0 is that context's kernel stack, and CR3 is its directory except inside `process_create`'s switch window.
  - `ReadyEventuallyRuns`.
- **kernel_halfbuilt:** a command issued after `scheduler_start` makes a slot READY before it is built. A tick then dispatches it.
- **kernel_wipe** (`FrameOwnership`: every frame a directory, table, mapping, PCB or `process_create` local refers to is marked used and has one owner). One process is created. The next `process_create` fails its kernel-stack allocation, and the rollback calls `vmm_destroy_page_directory`, which walks PDE 0, the identity table every directory shares (vmm.c:155). That frees every frame of the first 4MB: the kernel image with `kernel_page_directory` and `first_page_table`, and the first process's frames. The very next `pmm_alloc_page` returns `kernel_page_directory` (status corrupt). The scan of `find_next_process` keyed by `pid + 1` (scheduler.c:42) can skip a READY process only when pids and slots drift apart. That drift needs a failed create followed by a successful one. No code path returns frames to the allocator except this wipe, and a create that fails before its directory exists has run out of memory for good. So the drift starts with the wipe, and the code is corrupt before the scan can starve anyone. `ReadyEventuallyRuns` holds in run kernel.
- **events_loss:** `pop_event` reads `queue_tail` once for the copy (line 36) and again for the increment (line 37). A mouse burst into the full ring between the two advances `queue_tail` under drop-oldest, and the store then skips one more event, which was neither delivered nor dropped (`NoLossBeyondDropOldest`, spec 6).
- **smp:** every interleaving of the API calls of two CPUs keeps five properties:
  - `QueueIntegrity`: every list is acyclic with consistent `prev` links, the bitmap and `num_threads` agree with the lists, and no thread is queued twice.
  - `ExclusiveDispatch`: a dispatched thread is on no queue and current on one CPU only.
  - `AffinityRespected`: a thread runs only on a CPU its mask allows.
  - `IdleCPUFindsWork`: a CPU with no current thread and a non-empty queue eventually dispatches or loses the work to a thief.
  - `ThreadsRefines`: the queues implement `SMPThreads`. A thread is dispatched only from READY, on a CPU that runs nothing and that its mask allows. It stops running only through `sched_schedule`, `sched_yield` or `sched_block`, and a BLOCKED thread becomes READY only through `sched_unblock`.
- **os2:** every sequence of calls, with `open()` failing on lookup and `close()` failing, keeps three properties:
  - `TypeOK`, which includes that every return code is one of the OS/2 codes the emulator defines.
  - `NoDescriptorLeak`: every descriptor the process holds is the `linux_fd` of a handle in use, so the program can still close it. This covers the `close(fd)` on a full handle table.
  - `CreatedOnlyWhenNew`: `DosOpen` reports FILE_CREATED only for a name that was not in the directory. The action is inferred from the open flags, not observed.
- **os2_close:** `DosClose` returns the error of `close()` without freeing the handle (os2_emulator.c:311), but Linux has already released the descriptor. The next `DosOpen` gets the same descriptor number, and a `DosRead` or `DosWrite` through the old handle reaches the new file. With handle 0-2 the old handle is a standard stream, so terminal I/O goes to a user file (`TransferReachesItsFile`).
- **smp_unblock:** `sched_unblock` tests `state == BLOCKED` without the lock. Two CPUs both pass the test and both enqueue the thread. In the trace, both copies land on CPU 0's list, and CPU 0 dispatches the thread while its second copy is still queued (`ExclusiveDispatch`). A second CPU could then take that copy too.

Each property of a passing run has a mutant in `PROJECT.json`. A mutant is a variant of one modelled definition that is defined just before it: a missing guard, a missing reset, an off-by-one, a missing TSS update, a dropped switch-back, a free without unmap, an unwrapped ring index, a read of the wrong slot, a dropped `prev` update, a bitmap bit left set, a handle slot taken without checking `in_use`, an errno returned as an OS/2 code, FILE_CREATED reported for every O_CREAT, a file lookup that stops one slot early, or `sched_unblock` without its BLOCKED test. TLC finds the property violated when the variant replaces the definition.

## Defects read from the code without a run

These follow from the translated definitions in one or two steps. The run list keeps the questions that take many steps to answer, so these have no run; `PROJECT.json` lists them as hazards.

- `pop_event` loads `queue_tail` and then copies the slot it names (events.c:36), with interrupts enabled. If a burst wraps the ring between the two, the slot already holds a newer event. Suppose the consumer loads tail 0, then three pushes into the 3-slot ring write event 4 into slot 0 and move tail to 2. The consumer copies event 4, line 37 stores tail 0, and the next pop delivers event 4 again. TLC finds this trace for "no event is delivered twice" in the events configuration. The project's runs keep the related skip (events_loss) as the violation of this code, and the events run claims order only until the first overflow.
- `pmm_init` truncates a 64-bit base above 4GB to 32 bits (pmm.c:94), so a high available region frees low frames, including reserved ones.
- The identity table installed at PDE 0 of every directory carries `PTE_USER` (vmm.c:99), so every kernel stack in the first 4MB is writable from ring 3.
- Syscall number 1 reaches the halting test handler, not `SYSCALL_EXIT` (syscall.c:33). GETPID returns 1 whatever the caller is (syscall.c:92). WRITE copies from an unchecked user pointer, so an unmapped buffer faults in ring 0 and halts the machine (syscall.c:62).
- `find_best_cpu` returns CPU 0 when no CPU of the mask exists (SMPScheduler.cpp:172), so a mask naming only CPUs beyond `num_cpus` places the thread on CPU 0.
- `calculate_priority` gives `base` for a delta of -16 or less, where spec 4.4 gives `base + 1` (SMPScheduler.cpp:155).
- `enqueue_thread` pushes at the head of the list (SMPScheduler.cpp:218). Threads of one priority are served last in, first out, so a READY thread can wait forever while threads enqueued after it keep running; spec 4.4 says FIFO.
- `sched_set_priority` on a READY thread enqueues it again without removing it, against its own comment "Remove and re-add" (SMPScheduler.cpp:371). The thread is then in two lists, or points at itself, and `QueueIntegrity` fails as soon as `MaxSetPriority` is 1.
- `steal_thread` walks a cyclic list forever with the victim's lock held (SMPScheduler.cpp:458). Run smp_any reaches this state; its cause is the double enqueue of `sched_set_priority`. `QueueIntegrity`, checked in run smp, rules out the cyclic lists it needs.
- In the OS/2 emulator:
  - Only `DosOpen` calls `init_handle_table`, so `DosWrite(1, ...)` before the first `DosOpen` returns ERROR_INVALID_HANDLE (os2_emulator.c:253).
  - Flags 0x11 (create if new, open if exists) omit O_EXCL, so `DosOpen` reports FILE_EXISTED for a file it has just created (os2_emulator.c:231). This is the case of the code's own test 1.
  - Flags 0x12 (create if new, replace if exists) add O_EXCL, so on an existing file `open()` fails with EEXIST and `DosOpen` returns ERROR_INVALID_FUNCTION instead of replacing the file (os2_emulator.c:202).
  - After `DosClose(1)` the next `DosOpen` gets descriptor 1, and the emulator's own `printf` log goes into that file.
  - An access value of 3 leaves the flags at their initial 0, which is O_RDONLY (os2_emulator.c:183), and ERROR_NEGATIVE_SEEK is defined but never returned.
- In the OS/2 loader (not modelled): the bounds check of a section copy adds two `uint32_t` values that can wrap (os2_loader.c:226), so a crafted image passes it and `memcpy` reads beyond the file buffer; `e_lfanew` is used without a check against the file size.

## What is not modelled, and why

- **Process exit and reparenting** (`process_exit_with_code`). They are reached only from the SYSCALL_EXIT case, which is dead because number 1 is taken by the halt handler. They are planned, with the `testexit` scenario, as a variant that routes number 1 to SYSCALL_EXIT.
- **Parts of the VMM that nothing calls:** `vmm_map_range`, `vmm_unmap_range`, `vmm_free_page` and `vmm_get_physical`. Also PTE flags apart from the user bit, and the kernel half (indices 768 and above), which the code never populates. The parent and child fields of a PCB are omitted too, because the parent is always 0 while only idle creates processes.
- **`events_clear`**, which has no caller, and the event payloads, which no property reads.
- **`AbstractLayer.cpp`** of the side project: CPUID, APIC, ACPI, TSC and port I/O are hardware access. `sched_init` is the model's initial state. The scheduler's time accounting, tids, pids and OS/2 session flags are left out, because no decision of the code reads them.
- **`ramfs_append`**, which has no caller, and `ramfs_size` and `ramfs_list`, which only display. `str_copy` truncates a name to 31 characters while `find_file` compares the full name, so a longer name would make `ramfs_write` dereference NULL (ramfs.c:121). The shell truncates names to 31 characters before every call (kernel.c:346), so the model's names are the truncated ones and that path cannot be reached.
- **The PS/2 byte streams.** `mouse_callback` assembles three-byte packets and realigns only on bit 3 of the first byte, so a lost byte misframes the packets that follow (listed as a hazard). `EventQueue` starts from the events the handlers push, not from the bytes.
- **Out of scope:** the VGA, graphics and printf drivers, the PS/2 decoders, the DOS API shim and the OPUS4.5 kernel. These are I/O, formatting, or separate hosted programs.
- **The rest of OS2_Wrapper.** `resolve_os2_api` is a read-only lookup by name, and the `TEST_API` main is a test driver. `os2_loader.c` parses LE and LX images, and `newcode/` is a C++ dependency analyzer over byte buffers. These are data transformations with no state carried between calls, which is not what a model checker adds to. In `OS2API`, file contents, offsets and byte counts are abstracted, as are `DosSleep`'s duration and `DosAllocMem`'s size and flags.
- **Descriptor-table setup** (`gdt_init`, `idt_init`). This is configuration. Its effect appears only as `BootStack` and the interrupt-gate atomicity.
- **`switch_to_process`**, which is not in the repository. A dispatch is modelled as installing the slot's state.

## Further work

The project keeps twelve runs, one per question. The following would each need a run of their own:

1. Process exit, reparenting and the directory leak of spec 9. This would be a variant of `Kernel` that routes number 1 to `SYSCALL_EXIT`. As shipped, that code is unreachable.
2. A VMM round-trip and teardown model. It would map, unmap and translate over a few virtual pages, and check the teardown conservation of spec 8.5. It would exercise functions that nothing in the kernel calls.
3. Violation runs for the defects listed above that have none yet.
