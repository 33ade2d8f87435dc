-------------------------------- MODULE Mmu --------------------------------
(***************************************************************************)
(* Memory translation (earth/cpu_mmu.c, earth/dev_page.c) with its callers *)
(* in the kernel and the loader (library/elf/elf.c load_app): frames, the  *)
(* software TLB that copies a process in and out of one window, and Sv39   *)
(* page tables.  Both translations implement AddressSpaces.                *)
(*                                                                         *)
(* A page is its three table indexes <<vpn2, vpn1, vpn0>>.  The contents   *)
(* of a page, and of a frame used as one, is one value.                    *)
(***************************************************************************)
EXTENDS Integers, Sequences, FiniteSetsExt

CONSTANTS
    NFRAMES,       \* frames of the frame cache (256 in the code)
    NBASES,        \* length of pid_to_pagetable_base (32 in the code)
    NENTRIES,      \* entries of a table (512 in the code)
    MaxPid,        \* bound on the pids given out
    MaxSoftPid,    \* the same bound, when the software TLB was chosen
    UART0, SMHC0,  \* regions of the device registers
    Kernel,        \* region of earth, grass, their stack and interfaces
    FrameCache,    \* region of the frames
    Memory,        \* region of the whole memory
    AppPages,      \* sequence of the pages load_app maps, in its order
    Value          \* contents told apart

Frames  == 0..(NFRAMES - 1)
Entries == 0..(NENTRIES - 1)
PageNo  == Entries \X Entries \X Entries
Pids    == 1..MaxPid
Pages   == Range(AppPages)
NONE    == -1

(* a region is a first page and a number of pages *)
Region == [first : PageNo, npages : Nat]

GPID_PROCESS == 1   \* sys_proc, which loads the others and never ends

(* struct frame_mapping; memset to zero by mmu_free *)
FreeFrame == [use |-> FALSE, pid |-> 0, page |-> NONE]

(* A page table entry is NONE when not valid, the frame it leads to, or    *)
(* Identity, a leaf that maps a page to itself.                            *)
Identity   == NFRAMES
ClearTable == [v \in Entries |-> NONE]

ASSUME MmuAssumption ==
    /\ {NFRAMES, NBASES, NENTRIES, MaxPid, MaxSoftPid} \subseteq Nat \ {0}
    /\ MaxSoftPid <= MaxPid
    /\ 0 \in Value /\ NONE \notin Value
    /\ {UART0, SMHC0, Kernel, FrameCache, Memory} \subseteq Region
    /\ AppPages \in Seq(PageNo) /\ AppPages # <<>>
    /\ \A i, j \in DOMAIN AppPages : AppPages[i] = AppPages[j] => i = j

VARIABLES
    m,            \* the MMU's memory, a record:
                  \*   translation: "SOFT_TLB" or "PAGE_TABLE", chosen at boot
                  \*   table: struct frame_mapping of every frame
                  \*   data, pt: contents of a frame, as a page and as a table
                  \*   base: pid_to_pagetable_base, a frame or NONE
                  \*   got: the frame mmu_alloc gave last, NONE after FATAL
    window,       \* the user address space that the software TLB fills
    curr_vm_pid,  \* static in soft_tlb_switch and page_table_switch
    loading,      \* the process being loaded and its pages still to load
    live          \* processes loaded and not freed

mmuVars == <<m, window, curr_vm_pid, loading, live>>

-----------------------------------------------------------------------------
(* Frames                                                                  *)

Failed(r) == r.got = NONE       \* FATAL: nothing happens after it
Fail(r)   == [r EXCEPT !.got = NONE]

(* mmu_alloc takes the first frame not in use; it does not set its owner *)
FirstFree(free, r) ==
    IF free = {} THEN Fail(r)
    ELSE LET f == Min(free) IN [r EXCEPT !.got = f, !.table[f].use = TRUE]

mmu_alloc(r) == FirstFree({f \in Frames : ~r.table[f].use}, r)

Owns(r, p, f) == r.table[f].use /\ r.table[f].pid = p

mmu_free_short(r, p) ==
    [r EXCEPT !.table = [f \in Frames |-> IF Owns(r, p, f) /\ f > 0 /\ Owns(r, p, f - 1)
                                          THEN FreeFrame ELSE @[f]]]
mmu_free_all(r, p) ==
    [r EXCEPT !.table = [f \in Frames |-> IF r.table[f].use THEN FreeFrame ELSE @[f]]]
mmu_free(r, p) ==
    [r EXCEPT !.table = [f \in Frames |-> IF Owns(r, p, f) THEN FreeFrame ELSE @[f]]]

-----------------------------------------------------------------------------
(* Page tables; every step keeps a memory in which one before it failed   *)

(* a frame for a table of p: allocated, owned and cleared *)
Owned(a, p) ==
    IF Failed(a) THEN a ELSE [a EXCEPT !.table[a.got].pid = p, !.pt[a.got] = ClearTable]
NewTable(r, p) == Owned(mmu_alloc(r), p)

SetBase(a, p) == IF Failed(a) THEN a ELSE [a EXCEPT !.base[p] = a.got]
Root(r, p)    == IF Failed(r) \/ r.base[p] # NONE THEN r ELSE SetBase(NewTable(r, p), p)

(* with a table below entry v of table t, allocated if it is not there *)
SetEntry(a, t, v) == IF Failed(a) THEN a ELSE [a EXCEPT !.pt[t][v] = a.got]
Below(r, p, t, v) ==
    IF Failed(r) \/ r.pt[t][v] # NONE THEN r ELSE SetEntry(NewTable(r, p), t, v)

L1(r, p, g)   == r.pt[r.base[p]][g[1]]
Leaf(r, p, g) == r.pt[L1(r, p, g)][g[2]]

Level1(r, p, g) == IF Failed(r) THEN r ELSE Below(r, p, r.base[p], g[1])
Level0(r, p, g) == IF Failed(r) THEN r ELSE Below(r, p, L1(r, p, g), g[2])

walk_page_tables(r, p, g) == Level0(Level1(Root(r, p), p, g), p, g)

SetIdentity(r, p, g, n) ==
    IF Failed(r) THEN r
    ELSE IF g[3] + n > NENTRIES THEN Fail(r)
    ELSE [r EXCEPT !.pt[Leaf(r, p, g)] =
             [v \in DOMAIN @ |-> IF v \in g[3]..(g[3] + n - 1) THEN Identity ELSE @[v]]]

setup_identity_region(r, p, region) ==
    SetIdentity(walk_page_tables(r, p, region.first), p, region.first, region.npages)

DeviceRegions(r, p) == setup_identity_region(setup_identity_region(r, p, UART0), p, SMHC0)
KernelRegions(r, p) == setup_identity_region(DeviceRegions(r, p), p, Kernel)

pagetable_identity_mapping(r, p) ==
    IF p = 0 THEN setup_identity_region(DeviceRegions(r, p), p, Memory)
    ELSE IF p = GPID_PROCESS THEN setup_identity_region(KernelRegions(r, p), p, FrameCache)
    ELSE KernelRegions(r, p)

-----------------------------------------------------------------------------
(* The interface: map and switch                                           *)

soft_tlb_map(r, p, g, f) == [r EXCEPT !.table[f].pid = p, !.table[f].page = g]

(* the owner of f is not set *)
SetLeaf(r, p, g, f) == IF Failed(r) THEN r ELSE [r EXCEPT !.pt[Leaf(r, p, g)][g[3]] = f]

WithTables(r, p) == IF r.base[p] = NONE THEN pagetable_identity_mapping(r, p) ELSE r

page_table_map(r, p, g, f) ==
    IF p >= NBASES THEN Fail(r)
    ELSE SetLeaf(walk_page_tables(WithTables(r, p), p, g), p, g, f)

mmu_map(r, p, g, f) ==
    IF r.translation = "SOFT_TLB" THEN soft_tlb_map(r, p, g, f) ELSE page_table_map(r, p, g, f)

(* what leaves the window goes to its frames *)
SwappedOut_skipped(r) == r
SwappedOut(r) ==
    [r EXCEPT !.data = [f \in Frames |-> IF Owns(r, curr_vm_pid, f)
                                         THEN window[r.table[f].page] ELSE @[f]]]

SwappedIn(r, p) ==
    [g \in Pages |->
        LET fs == {f \in Frames : Owns(r, p, f) /\ r.table[f].page = g}
        IN  IF fs = {} THEN window[g] ELSE r.data[Max(fs)]]

(* soft_tlb_switch or page_table_switch, from memory r *)
mmu_switch(r, p) ==
    /\ curr_vm_pid' = p
    /\ IF r.translation = "SOFT_TLB" /\ p # curr_vm_pid
       THEN m' = SwappedOut(r) /\ window' = SwappedIn(SwappedOut(r), p)
       ELSE m' = r /\ UNCHANGED window

-----------------------------------------------------------------------------
(* The callers                                                             *)

Empty(t) ==
         [translation |-> t,
          table |-> [f \in Frames |-> FreeFrame],
          data  |-> [f \in Frames |-> 0],
          pt    |-> [f \in Frames |-> ClearTable],
          base  |-> [p \in 0..(NBASES - 1) |-> NONE],
          got   |-> 0]

mmu_init(t) ==
    IF t = "PAGE_TABLE" THEN pagetable_identity_mapping(Empty(t), 0) ELSE Empty(t)

Init ==
    /\ m \in {mmu_init(t) : t \in {"SOFT_TLB", "PAGE_TABLE"}}
    /\ window = [g \in Pages |-> 0]
    /\ curr_vm_pid = NONE
    /\ loading = [pid |-> GPID_PROCESS, left |-> AppPages]
    /\ live = {}

Idle == loading.left = <<>>

(* load_app, run by the kernel for sys_proc and by sys_proc for the rest:  *)
(* allocate, map and fill the next page.  The last page keeps what the     *)
(* frame held.  sys_proc waits for sys_file between two blocks, so other   *)
(* processes run between two pages.                                        *)
MapNext(a) == IF Failed(a) THEN a ELSE mmu_map(a, loading.pid, Head(loading.left), a.got)

LoadInto(f, r) ==
    LET last == Len(loading.left) = 1
    IN  \/ /\ Failed(r)
           /\ m' = r /\ UNCHANGED <<loading, live>>
        \/ /\ ~Failed(r)
           /\ \E v \in (IF last THEN {r.data[f]} ELSE Value) : m' = [r EXCEPT !.data[f] = v]
           /\ loading' = [loading EXCEPT !.left = Tail(@)]
           /\ live' = IF last THEN live \union {loading.pid} ELSE live

LoadPage ==
    /\ ~Failed(m) /\ ~Idle
    /\ loading.pid = GPID_PROCESS \/ curr_vm_pid = GPID_PROCESS
    /\ \E a \in {mmu_alloc(m)} : \E r \in {MapNext(a)} : LoadInto(a.got, r)
    /\ UNCHANGED <<window, curr_vm_pid>>

(* sys_proc starts to load the next process *)
Spawn ==
    /\ ~Failed(m) /\ Idle /\ curr_vm_pid = GPID_PROCESS
    /\ loading.pid < (IF m.translation = "SOFT_TLB" THEN MaxSoftPid ELSE MaxPid)
    /\ loading' = [pid |-> loading.pid + 1, left |-> AppPages]
    /\ UNCHANGED <<m, window, curr_vm_pid, live>>

(* the scheduler, or the copy of a message, switches to a process *)
Switch(p) ==
    /\ ~Failed(m) /\ p \in live
    /\ mmu_switch(m, p)
    /\ UNCHANGED <<loading, live>>

(* the current process stores to a page of its own address space *)
Store(g, v) ==
    /\ ~Failed(m) /\ curr_vm_pid \in live
    /\ IF m.translation = "SOFT_TLB"
       THEN window' = [window EXCEPT ![g] = v] /\ UNCHANGED m
       ELSE /\ m' = [m EXCEPT !.data[m.pt[Leaf(m, curr_vm_pid, g)][g[3]]] = v]
            /\ UNCHANGED window
    /\ UNCHANGED <<curr_vm_pid, loading, live>>

(* With the software TLB nothing is translated and apps run in machine     *)
(* mode (PMode of Hart): they can store into any frame, as crash2 does     *)
(* (apps/user/crash2.c).  With page tables that store is a fault, for only *)
(* sys_proc has the frames mapped.  Stores to frames not in use are left   *)
(* out: no process has a page there.                                       *)
StoreFrame(f, v) ==
    /\ ~Failed(m) /\ curr_vm_pid \in live
    /\ m.translation = "SOFT_TLB" /\ m.table[f].use
    /\ m' = [m EXCEPT !.data[f] = v]
    /\ UNCHANGED <<window, curr_vm_pid, loading, live>>

(* proc_free of p: by sys_proc, which goes on, or by the kernel for the    *)
(* current process, which then yields to q in the same trap                *)
Free(p, q) ==
    /\ ~Failed(m) /\ p \in live \ {GPID_PROCESS} /\ q \in live \ {p}
    /\ p = curr_vm_pid \/ (q = GPID_PROCESS /\ curr_vm_pid = GPID_PROCESS /\ Idle)
    /\ mmu_switch(mmu_free(m, p), q)
    /\ live' = live \ {p}
    /\ UNCHANGED loading

Halted == Failed(m) /\ UNCHANGED mmuVars

Next ==
    \/ LoadPage \/ Spawn \/ Halted
    \/ \E p \in Pids : Switch(p)
    \/ \E p, q \in Pids : Free(p, q)
    \/ \E g \in Pages, v \in Value : Store(g, v)
    \/ \E f \in Frames, v \in Value : StoreFrame(f, v)

Spec == Init /\ [][Next]_mmuVars

-----------------------------------------------------------------------------
(* Both translations implement AddressSpaces                               *)

Existing == live \union (IF Idle THEN {} ELSE {loading.pid})

(* the frame the page tables of p lead to for page g, if they do *)
PageFrame(r, p, g) ==
    IF r.base[p] = NONE THEN {}
    ELSE IF L1(r, p, g) = NONE THEN {}
    ELSE IF Leaf(r, p, g) = NONE THEN {}
    ELSE {r.pt[Leaf(r, p, g)][g[3]]} \ {NONE, Identity}

(* the frames that hold page g of p: none or one *)
FramesOf(p, g) ==
    IF m.translation = "SOFT_TLB"
    THEN {f \in Frames : Owns(m, p, f) /\ m.table[f].page = g}
    ELSE IF p \notin Existing \/ p >= NBASES THEN {}
    ELSE PageFrame(m, p, g)

absSpace ==
    [p \in Pids |-> [g \in Pages |->
        LET fs == FramesOf(p, g)
        IN  IF fs = {} THEN NONE
            ELSE IF m.translation = "SOFT_TLB" /\ p = curr_vm_pid THEN window[g]
            ELSE m.data[Min(fs)]]]

AS == INSTANCE AddressSpaces WITH
          Proc <- Pids, Page <- Pages, Unmapped <- NONE, NoProc <- NONE,
          space <- absSpace, current <- curr_vm_pid,
          protected <- m.translation = "PAGE_TABLE"

(* Each process has private memory, whatever is loaded, switched and freed *)
(* (soft_tlb_switch, page_table_map, mmu_free): with page tables a page of *)
(* a process changes only by its own stores.  With the software TLB it     *)
(* changes also by the store of another app into the frame it is kept in,  *)
(* from which nothing protects it, but by nothing else.                    *)
PrivateMemory == AS!ASSpec

(* the frames that are tables of p *)
Tables(p) ==
    IF m.translation = "SOFT_TLB" \/ p >= NBASES THEN {}
    ELSE IF m.base[p] = NONE THEN {}
    ELSE LET l1 == Range(m.pt[m.base[p]]) \ {NONE}
         IN  {m.base[p]} \union l1 \union UNION {Range(m.pt[t]) \ {NONE} : t \in l1}

Held(p) == Tables(p) \union UNION {FramesOf(p, g) : g \in Pages}

(* No frame serves two processes, the kernel's tables included, or as a    *)
(* table and as a page, or as two pages: mmu_alloc gives out only frames   *)
(* that mmu_free took from a process that is gone.                         *)
FramesDisjoint ==
    /\ \A p, q \in Existing \union {0} : p # q => Held(p) \intersect Held(q) = {}
    /\ \A p \in Existing, g \in Pages :
          /\ FramesOf(p, g) \intersect Tables(p) = {}
          /\ \A h \in Pages \ {g} : FramesOf(p, g) \intersect FramesOf(p, h) = {}

(* A frame in use is held by a process that exists, or by the kernel: what *)
(* mmu_alloc gave to a process, mmu_free takes back.                       *)
NoFrameLeaked ==
    Failed(m) \/ \A f \in Frames :
        m.table[f].use => \E p \in Existing \union {0} : f \in Held(p)

(* ... which holds with the software TLB, where soft_tlb_map records the   *)
(* owner of every frame.                                                   *)
SoftTlbKeepsFrames == m.translation = "SOFT_TLB" => NoFrameLeaked
=============================================================================
