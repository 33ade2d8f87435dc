# A TLA+ model of egos-2000-d1

egos-2000-d1 is a small teaching operating system for one RISC-V hart. Three
layers run on the machine:

| layer | what it does | source |
|---|---|---|
| earth | drivers (terminal, SD card), timer, traps, memory translation | `earth/` |
| grass | process table, round-robin scheduler, two system calls: send and receive | `grass/` |
| servers and apps | `sys_proc` (spawn, exit, killall), `sys_file`, `sys_dir`, `sys_shell`, user apps | `apps/`, with `library/` (servers, elf, file, libc) |

`tools/mkfs.c` builds the file system image on the development machine; at run
time the disk is only read (`disk_write` is `FATAL`).

Processes only talk by synchronous messages. The shell asks `sys_proc` to
spawn a command; `sys_proc` asks `sys_dir` where the program is, which asks
`sys_file` for the directory; `sys_proc` then reads the program block by block
from `sys_file`, makes it ready and answers the shell. An app that ends sends
`PROC_EXIT` to `sys_proc`, which frees it and, if the shell waits for it,
tells the shell. The timer preempts the shell and the apps, never the servers,
and looks for Ctrl+C, on which the running app is killed and the shell made
runnable. `sys_proc` gives pages to a process through the MMU interface, which
is a software TLB or Sv39 page tables, chosen at boot. `sys_file` reads blocks
through the tree disk, which reads them from the SD card.

`PROJECT.json` lists every part with its sources and status, and the hazards
of the code, each at its line.

## Modules

| module | models | state and actions |
|---|---|---|
| `Grass` | `grass/kernel.c`, `grass/process.c`, `grass/syscall.c` | one function per field of `proc_set`, the current slot, the mapped address space, the syscall area of every process; one operator per C function, each trap handler one step |
| `Rendezvous` | what send and receive promise | processes that are idle, sending or receiving, and their message buffers |
| `GrassProofs` | proofs about `Grass`: its invariant, its action properties, and that it implements `Rendezvous` | |
| `Hart` | `earth/earth.s`, `earth/cpu_intr.c`, `earth/cpu_timer.c`, `grass/grass.s`, `ctx_entry` and the `mret` of `proc_yield` | the machine as one record (mode, `mstatus`, `mepc`, stack pointer, `tp`, compare register, `proc_set`); boot steps, instructions, timer ticks, trap entry, the kernel's choice, exit |
| `HartProofs` | proofs about `Hart` | |
| `Terminal` | `earth/dev_tty.c`, `parse_request` and the loop of `sys_shell.c`, `dir_do_lookup` of `sys_dir.c` | the UART's FIFO, the buffer and index of the line editor, the screen, the shell's request; a key, the prompt, one turn of the reading loop, one turn of parsing, spawn, the kernel's poll for Ctrl+C |
| `EgosSystem` | the servers, the shell, the apps, the user | extends `Grass`; `pc[p]` is where process `p` continues, the locals of the servers are variables |
| `SystemCalls`, `SystemProofs` | proofs about `EgosSystem`: what its programs do to the kernel, and who waits for whom | |
| `Mmu` | `earth/cpu_mmu.c`, `load_app` of `library/elf/elf.c` | frame table, frame contents, page tables, the window of the software TLB; load a page, switch, store to a page, store into a frame, free |
| `AddressSpaces` | what memory translation promises | the pages of each process, and whether they are protected |
| `MmuProofs` | proofs about `Mmu`: its invariant, and that it implements `AddressSpaces` | |
| `TreeDisk` | `library/file/file.c`, the writes of `tools/mkfs.c` | the blocks of the disk with superblock, inodes, trees and free list; a read or a write of a block of a file |
| `InodeStore` | what the tree disk promises | files as functions from offsets to blocks |
| `MmcHost` | `mmc_send_cmd` of `earth/modules/mmc/mmc_bsp.c` with the controller | the polling loop it is in, its deadline, the registers; one action per exit of a loop, and the hardware's own steps |
| `MmcHostProofs` | proofs about `MmcHost` | |
| `SdCard` | `earth/modules/mmc/mmc.c`, `earth/dev_disk.c` | what the driver believes, clock and width of the controller, the card; one action per command |
| `SdCardProofs` | proofs about `SdCard` | |
| `MCGrass`, `MCSystem`, `MCMmu` | constants for TLC | |

### Kernel and servers

A trap handler runs with interrupts off on the only hart, so a system call
from its `ecall` to the return into some process is one action. The search
loops of the kernel (first free slot, next runnable slot, first receiver, last
sender) are written as quantifiers with a first or last condition. `FATAL`
prints and loops: it sets `fatal` to the place and the machine stays there. A
slot that is freed keeps its pid, as in the code. A message is copied through
the two address spaces it is read and written in (`CopyMsg`); where the kernel
leaves the address space after the copy does not matter, for `proc_yield` follows
and switches to the process it resumes. A page that is not cleared
holds any value of `Garbage`; `shell_waiting` of `sys_proc`, which is not
initialised, starts as either value.

`Grass` alone is open: any process makes any call at any time. What only
`sys_proc` does (allocate, load, make ready, free) happens while `sys_proc`
runs, one load at a time, and only user apps are freed; these are the only
restrictions. `EgosSystem` closes the model: every process follows its
program, and its actions are built from those of `Grass`. Command lines and message
contents are abstracted to what the programs tell apart; the kinds of request
and reply keep their numbers, because the code reads the type of one struct
where another was written. The working directory is in memory that all
processes share: `cd` reads it, asks `sys_dir`, and writes its inode and then
its path in two steps, between which it can be preempted or killed.

### Hart

`Grass` takes a handler as one step; `Hart` opens it up, from the first
instruction after reset. The privilege bits, `tp`, MPRV, the compare register
and the stack a context is saved on are state. The registers of a process are
one value, which every instruction of the process may change; the compare
register is two halves of `HALF` values each; `left` remembers
how a process stood when it lost the hart, so that the properties can compare
it with how it is resumed. Which process the kernel picks is the subject of
`Grass`: here it may pick any that has been started, and a slot may be started
again at any time. Both translations are initial states.

### Terminal

The alphabet has one character that can be in a name, a digit, the ampersand,
the blank and the three control characters. `buf` keeps what an earlier line
left behind its end, as in the code. `LineAsTyped` and `ParsedAsWords` compare
the loops of the code with reference definitions: the line that remains when
each backspace erases the character before it, and the maximal runs of
non-blanks. The prompt and the call of `tty_read` are two steps: in between the
timer handler still takes, and drops, what is typed, so `LineAsTyped` is about
what the UART holds when `tty_read` begins and what is typed from then on.

`dir_do_lookup` searches the text of `/bin`, in which names and inode numbers
alternate, and converts what follows the match. `FoundByName` says that a
command which is an entry leads to its own inode, and that of the others none
is found, except the inode numbers themselves: such a number is taken for a
name, and what follows it, a name, is converted to inode 0. The system then
loads the text of a directory as a program; `Terminal` stops there.

### Memory

A page is its three table indexes, its contents one value. Operations are
functions on one record, the memory of the MMU, and a record whose last
allocation failed stays as it is (`FATAL`). The refinement mapping reads the
memory of a process from the window, its frames or its page tables.

A process stores to its own pages. With the software TLB nothing is translated
and apps run in machine mode, so an app can also store into any frame, as
`crash2` does; this is `StoreFrame`, for the frames that are in use. With page
tables the frames are mapped for `sys_proc` alone and the store of `crash2` is
a fault. `AddressSpaces` therefore has `protected`, which is true with page
tables: then only the owner changes a page, and `PrivateMemory` means privacy.
Without it another process can store to a page, and `PrivateMemory` says that
nothing but stores changes one: no load, switch, end of a process or reuse of a
frame does.

### Tree disk

A block is a data value, a block of references, of inodes or of free-list
links. The operations are functions from a disk to a disk, so that the disk a
failed write leaves behind is exactly what was written before the failure.
`treedisk_write` keeps a pointer to a variable of the previous iteration of
its loop, declared inside the loop; the build has no optimisation flag, the
variable keeps its stack slot, and the model follows that outcome.

### SD card

`MmcHost` opens up one call of `mmc_send_cmd`; `SdCard` takes such a call as
one step that succeeds or fails, where the card may have obeyed a command that
failed. The card and the controller are not part of the repository: they are
modelled from what the driver expects of them, and may fail at any command.
The clock of the card is modelled with its source, dividers and rounding, and
the identification of an MMC card with the read of its timing region and the
polling of `mmc_send_status`. CMD12 is not sent: `mmc_send_cmd` returns 0 for it
at once (`SendNothing` of `MmcHost`), so that what ends a read of several blocks
is the controller. With `fatal_err` set `mmc_send_cmd` returns an error at once;
an action of `SdCard` that would send then fails without the card. The clock of
`MmcHost` stops at 2^TimeBits: later instants compare alike with every truncated
deadline, so nothing is lost and time needs no other bound.

## Runs

| run | module, configuration | question |
|---|---|---|
| `kernel` | `MCGrass`, `MCGrass.cfg` | do the invariants of the process table, the scheduler and IPC hold under every sequence of calls, and do send and receive implement `Rendezvous`? |
| `foreground` | `MCSystem`, `SystemForeground.cfg` | with foreground commands, is `FATAL` never reached, does the prompt return only after the app, do inode and path of the working directory agree there, does every command end and every send complete? |
| `concurrent` | `MCSystem`, `SystemConcurrent.cfg` | with background apps, killall and Ctrl+C, does an app run only when loaded, and is it answered only by the server it asked, which owes an answer to nobody who does not wait for it (`AnswersAwaited`)? |
| `memory` | `MCMmu`, `MCMmu.cfg` | do page tables give private memory, and the software TLB memory that only stores change, does no frame have two uses, do the frames of the software TLB come back? |
| `tree_disk` | `TreeDisk`, `TreeDisk.cfg` | does the tree disk implement an inode store, also when the disk is full, and is every block in exactly one place? |
| `sd_host` | `MmcHost`, `MmcHost.cfg` | does `mmc_send_cmd` always return, is its success real, and does it give up only when the time is over? |
| `sd_card` | `SdCard`, `SdCard.cfg` | do driver and card agree after identification, is no card clocked too fast, is a block that was read the right one, do all calls end? |
| `hart` | `Hart`, `Hart.cfg` | does every trap find its handler and no handler fault, is each process resumed with its own registers, address and privilege, does it get a whole time slice, and one that ends? |
| `terminal` | `Terminal`, `Terminal.cfg` | is the line the shell gets the one that was typed and shown, is it split into its words and the right program found, does Enter end a line and Ctrl+C give the shell back? |
| `replies`, `killall_dead`, `crash1` | `MCSystem`, `SystemReplies.cfg`, `SystemKillall.cfg`, `SystemCrash.cfg` | counterexamples, see Findings |

Bounds, and why they are enough:

- `kernel`: three slots and four pids: `sys_proc`, the shell and two apps. Two
  processes can wait to send while the third runs, and the fourth pid takes
  the slot of an app that ended.
- `foreground`: five slots, three apps one after the other (the first is the
  `cd` of the shell's start), programs of two blocks: a first and a last one.
  The lines are `cd` without argument, to the parent, and to a directory, `ls`,
  which asks one server once, a name that does not exist, `killall` and a line
  that is too long.
- `concurrent`: six slots and three apps, the first again `cd`, so that two
  are alive together: `clock` in the background and `cat`, which asks two
  servers. Ctrl+C can kill `cat` in the middle of a request, and another app
  can start while the server still waits for the dead one.
- `memory`: with page tables four processes, of which three are alive at once;
  with 31 frames the pool runs out at the first and at the second page of the
  fourth, and the fourth fits when others ended. With the software TLB three
  processes (`MaxSoftPid`), all alive or the third in the frames of the
  second; it does not run out of frames here. The limit of 32 page table bases
  is not reached. An app stores to its pages and into every frame in use.
- `tree_disk`: two references per block, two inodes, ten blocks, and offsets
  that give a tree of three levels with holes. The free list starts with four
  link blocks. The disk gets full while a tree grows and while it is walked.
  The second file cannot reach three levels when the first has.
- `sd_host`: eight instants, waits of one to three, two words through a FIFO
  of one. Every polling loop can be entered with a deadline that wraps.
- `sd_card`: all kinds of card, from one that is ready at once to one that is
  ready only at the poll where the driver gives up; any command may fail, and
  each retry loop can be exhausted. The timing region of an MMC card names no
  clock, one below 25 MHz, or one just below the 50 MHz of the host.
- `hart`: three processes, a server, the shell and an app: the timer treats
  the first one unlike the others. Halves of two bits, so that the compare
  register crosses from the lower half into the upper one, and time slices of
  two ticks of five.
- `terminal`: a buffer of five, words of three, two of them, and five
  characters typed for one line: a line can fill the buffer, a word be too
  long and words be too many, each with a backspace or an ampersand on the way.
  Two characters can wait in the FIFO, so one can be typed ahead of Ctrl+C.

Deadlock is checked in every run; a `FATAL` or a full disk is a step that stays
where it is.

Fairness. `FairSpec` of `EgosSystem` is weak fairness of the servers (not
preempted, they run when scheduled), of the timer, and strong fairness of the
shell and each app: they are preempted and scheduled again, and a time slice
is long enough for a step. The user need not type. In `Hart` the boot, the
counter and a handler go on, and an interrupt that is due is taken; a process
need not do anything. In `Terminal` the shell's loops go on while there is a
character to take, and the timer interrupts a running app (`SliceEnds` of
`Hart`); again nobody has to type. In `MmcHost` the polling
loops go on and time goes on; nothing is assumed of the hardware. In `SdCard`
the driver goes on with the command it is at; that a command returns is
`CommandReturns` of `MmcHost`.

## Proofs

`GrassProofs` proves, for every value of the constants that `GrassAssumption`
allows, that `KernelInv` is an invariant of `Grass`. The assumption: there is a
slot; the pids of `sys_proc`, the shell and the first app are in this order and
not above `MaxPid`; `Addressees` are pids; `Garbage` is a nonempty set of
syscall areas. `MaxPid` stays a bound of the proof: the counter does not
overflow. `KernelInv` is the conjunction of

- `TypeOK`,
- `PidsUnique`: no two slots have the same pid, except 0,
- four facts about each slot: its pid was given out; without a pid it is
  unused; a server or the shell is never unused again; the slot that is being
  loaded has the newest pid,
- `RunningIsCurrent`: exactly the current slot runs,
- `AddressSpaceIsCurrent`: the mapped address space is that of the process
  that runs,
- `NoMissedRendezvous`: no process waits to send to one that waits to receive,
- `MemoryOwned`: a process has memory from its load to its end.

The properties need each other and the facts about slots. The kernel sets the
status of a process by its pid, in every slot that has it, so what a handler
does to the table is known only with `PidsUnique`. That a new pid is fresh needs
that all pids were given out. When an app is killed the shell is made runnable
whatever its status was: that it has memory needs that its slot is neither
unused nor being loaded.

Every handler that reschedules ends in `proc_yield`. The proof has one lemma
for that end (`YieldPreserves`), from a condition on the status column the
handler passes to it (`Sound`), and one lemma per handler that shows the
condition. `TypeCorrect`, `RendezvousNeverMissed`, `ReturnsToRunning`,
`ReturnsInOwnSpace`, `PidsAlwaysUnique` and `MemoryAlwaysOwned` are
consequences of `KernelInvariant`.

`DeliveryAlwaysAddressed` and `SendAlwaysReleased` prove the action properties
`DeliveryAddressed` and `SendReleased` from `KernelInv`, one lemma per handler.
That a message reaches one process only, and releases one only, again rests on
`PidsUnique`.

`KernelImplementsRendezvous` proves that `Grass` implements `Rendezvous`. The
refinement mapping finds the slot of a pid with `CHOOSE`; `Maps` says what it is
slot by slot, and `MappingHolds` that the two agree under `KernelInv`, because a
pid that exists has one slot. The mapping does not tell apart the statuses
between which `proc_yield` moves processes (`YieldMaps`), and the image of a pid
depends on its own slot and syscall area alone (`MapsSame`), so that a handler
has only to be compared with `Rendezvous` at the one or two processes it
touches. A fault is included: it runs whatever call the syscall area holds,
which is still a send or a receive.

`SystemCalls` and `SystemProofs` are about `EgosSystem`, for any number of
slots, pids and blocks, any lines, and Ctrl+C at any time.

- Each action of a program is a call of the kernel, known by what it does in
  `Rendezvous`. `BaseInv`, which is `KernelInv`, the types of the locals and
  that an app does not exist while its blocks are read (`LoadInv`), is
  inductive; `AppsLoadedBeforeRun` follows.
- `SystemUsesKernel`: every behaviour of the system is one of `Grass`, if the
  programs of `Grass` may address every pid (`Addressees = Pids`). All that is
  proved of `Grass` then holds of the system.
- `SendsComplete`: without Ctrl+C (`CtrlC = FALSE`) a send returns only once
  its message is taken. With it the shell can be released from its send.
- `SystemInvariant` proves `SystemInv`: besides `BaseInv` it has `AnswersAwaited`
  and `NoFaultAhead`. `AnswersAwaited` says for every process what it may be
  blocked in where its program stands, and that the answer a server is about to
  send is one its addressee waits for; it is almost inductive, since a server
  owes an answer from the step in which it takes the request. Its enemy is a
  fault: `excp_entry` runs the call left in the syscall area, and in the page of
  a new process that can be a call of a killed one, to anyone. The theorem and
  its consequences `AnswersAlwaysAwaited` and `RepliesFromServer` therefore
  assume that the command that faults is not typed (`"crash1" \notin Lines`).
  `NoFaultAhead` carries this through the system: the faulting command is not
  in the shell's line, in a message on its way, in a request `sys_proc` has
  taken, or in the program of a process. What uncleared pages hold stays
  arbitrary.

`HartProofs` proves the safety properties of `Hart` for any number of
processes, values of the registers, length of the time slice and width of the
compare register, as long as the time and a slice fit the register
(`HartAssumption`). The invariant `HartInv` says where the context of each
process is: at the stack pointer `proc_set` has for it, in its own address
space, with the address in `mepc` of its slot; and with which privilege and MPRV
the handlers run, which is what makes these addresses the right ones with page
tables. `ContextResumed`, `PrivilegeKept`, `SliceIsFull` and `EveryTrapHandled`
follow from it, one lemma per function of the code that changes the machine.

`MmuProofs` proves for any number of frames, table entries, processes, pages
and values, and any regions, that frames are disjoint, that with the software
TLB none is lost, and that both translations implement `AddressSpaces`. `MmuInv`
gives every frame one role. With the software TLB that is the owner and page in
the frame table. With page tables the owner is not recorded, and the role is
found from the tables: a root, a table of the first level, a leaf table or a
page, at one place of one process (`Shape`, with a function `w` from frames to
roles). A walk that allocates gives a free frame a role, and the roles of the
others are not touched, so no path can lead to a frame of another process. The
proof follows the functions of the code from `mmu_alloc` to
`pagetable_identity_mapping`, including those that fail halfway.

`MmcHostProofs` proves for every number of words, depth of the FIFO, time
allowed and width of a deadline that `mmc_send_cmd` reports success only for a
command that was completed with all its data (`SuccessAlwaysReal`), whatever
the controller does, and that until the 32-bit wrap it gives up a wait only
when its time is over (`TimeoutNeverEarly`). The first needs `HostInv`: while
no command is in the controller nothing is left of an earlier one (`Quiet`);
while one is, its words are in the buffer, in the FIFO or still to come, and
the flags tell how far it is (`InFlight`); a failed one leaves only through the
reset that empties the FIFO (`Resetting`). `Quiet` is what a late answer to a
command already given up would break. The second needs `TimeInv`: the deadline
and the allowed time always belong to the wait the driver is in.

`SdCardProofs` proves `InitAgrees` and `ReadCorrect` for every set of kinds of
card, number of retries and polls and size of the card, wherever a command
fails. `SdInv` follows `pc`: each stage of the identification knows what the
commands before it have settled (`Stage`), and `has_init` is set only by the
last one (`Accepted`). `ClockAlwaysWithinCard` needs `ClockInv`, which says the
same of the clocks, and arithmetic on the dividers of `mmc_set_mclk`. It is
proved for the 600 MHz that `PERIPH0` is on this machine, and for a timing
region that does not name 3 or 4 MHz, for which the divider does not fit its
field and the clock comes out too high.

TLC has also checked the inductive invariants with the constants of the runs
(`BaseInv` and `NoFaultAhead` with those of `concurrent`), in configurations
that are not kept. The exception is `MmuInv`, which quantifies over all assignments of
roles and which TLC cannot enumerate; the properties that follow from it are
checked.

Only model-checked:

- liveness, which is out of the prover's reach: `CommandsEnd`, `CommandReturns`,
  `CallEnds`, `SliceEnds`, `ReadEnds`, `CtrlCReturns`;
- `TreeDisk` and `Terminal`: what their recursive definitions compute needs
  induction over data, which is out of reach too;
- `NoFatal`, `PromptAfterExit` and `WorkdirAgrees` of `EgosSystem`, which hold
  only when foreground commands alone are typed.

## Findings

- `replies`: `dir_lookup` and `file_read` take the next message from anyone
  for the reply. A background app that ends while `sys_proc` spawns another one
  stops `sys_proc` in `FATAL` (`library/servers/servers.c:31`, `:45`).
- `killall_dead`: a freed slot keeps its pid, so a server that answers an app
  killed in the middle of a request waits for it forever
  (`grass/kernel.c:167`), and in the end no process can run.
- `crash1`: the test for system calls ends in `|| EXCP_ID_ECALL_M`, which is
  always true; the exception of a user app is executed as a system call, and
  the code that kills the app is dead (`grass/kernel.c:34`).

Other behaviour met while modelling, which no run states as a property:

- The `FATAL` of `killall_dead` has two more ways to it, which no configuration
  here keeps; `SystemKillall.cfg` shows each with other constants. `sys_proc`
  keeps `shell_waiting` after a foreground spawn that failed, so that the end of
  an older app answers a shell that does not wait (`Lines = {"clock &",
  "nosuch"}`). And when Ctrl+C kills an app before the shell has begun to wait
  for it, waking the shell has no effect, and the shell waits for an app that
  is gone (`Lines = {"ls"}`, `CtrlC = TRUE`).
- Characters typed between the prompt and the call of `tty_read` can be taken
  by the timer handler (`earth/dev_tty.c:25`).
- Deadlines of the SD driver have 32 bits and the clock 64
  (`earth/modules/mmc/mmc_bsp.c:1247`): from 71 minutes after power-on every
  wait that is not over at its first poll is taken for a timeout.
  `TimeoutAfterTime` is therefore about the time before. `disk_read` drops the
  result of `mmc_bread` (`earth/dev_disk.c:20`).
- `page_table_map` does not record the owner of a page
  (`earth/cpu_mmu.c:208`), so with page tables the pages of a process are
  never freed; `SoftTlbKeepsFrames` is about the software TLB.
- Processes start with the privilege the bits of MPP give, which is S with
  page tables and M with the software TLB; the comment at
  `grass/kernel.c:145` expects user mode for apps. `ModeKept` says that a
  process keeps the privilege it started with.
- `CTX_SAVE` makes room for 27 words and stores `t6` as the 28th
  (`earth/earth.s:41`), over the word at the top of the interrupted stack.
- A line of blanks has no argument: `argv[argc - 1]` is read before the array
  (`apps/system/sys_shell.c:51`), and the empty name is found in `/bin`. In
  `Terminal` the system stops there, and `FoundByName` is about lines with an
  argument.
- A blank after the last of `CMD_NARGS` words refuses a line that fits.
- In `dir_do_lookup` the bound of the loop is unsigned
  (`apps/system/sys_dir.c:20`): a name longer than the directory makes it run
  past the block. An inode number typed as a name is found, as inode 0.
- Ctrl+C can kill `cd` between its two writes (`apps/user/cd.c:28`), which
  leaves inode and path of the working directory apart; after the first `cd`
  was killed so, the path is empty, and the search for a slash starts before
  its front (`apps/user/cd.c:38`). `WorkdirAgrees` is checked without Ctrl+C.
- `mmc_send_status` leaves its loop with the counter at -1
  (`earth/modules/mmc/mmc.c:66`), so a card that never gets ready is reported
  ready; no caller looks.

In the SD driver also: `mmc_switch` overwrites
the error of its command, so the retry in `mmc_change_freq` never sees it; the
SCR command is retried without its prefix; a failed last clock change leaves
the card initialised and unusable; MMC cards before version 4 are clocked at
25 or 26 MHz whatever their CSD says, and a clock of 26 MHz is rounded up to
27.3, so `ClockWithinCard` leaves these out.

## Not modelled

- Start-up code that clears memory, pin and clock set-up, delays and the
  register macros: straight-line code without state of its own.
- `ult.c`, a skeleton for an exercise: its functions are empty.
- What is printed, and the C library stubs behind it.
- Which register is saved at which place of a stack frame: `Hart` has one value
  for the registers of a process.
- Of the SD driver the delay registers, the timing tables, card fields that no
  later decision uses, `mmc_switch_part`, and reads of several blocks other than
  that of the timing region (no caller of `disk_read` asks for more than one).
- Of the loader the arithmetic on program headers, and `load_grass`.
- Of `mkfs.c` copying the kernel binaries into the image.
- Ends of the ranges that the bounds leave out: overflow of the pid counter,
  the 64-bit time counter, and the 32 page table bases.

## Possible extensions

- A proof of `BlocksPartitioned` for trees of a fixed number of levels.
- `Hart` shown to implement the atomic handlers of `Grass`.
- `SdCard` composed with `TreeDisk`: what a file read returns when the card
  fails.
