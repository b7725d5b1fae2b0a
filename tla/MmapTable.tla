----------------------------- MODULE MmapTable -----------------------------
(***************************************************************************)
(* The adapter's mappings of the device (loopback_driver0.c): op_mmap      *)
(* gives out the page shared with the driver, a chunk of the guest's RAM   *)
(* or the frame the adapter selected before, and registers the last two in *)
(* share_mmap_list, from which the fault handler of a RAM mapping finds    *)
(* the frame of the page touched.  Nothing compares the next free entry    *)
(* with the length of the list: one mapping too many is written into the   *)
(* memory behind it.  Addresses and sizes are in pages.                    *)
(***************************************************************************)
EXTENDS Naturals, FiniteSets, FiniteSetsExt

CONSTANTS MmapLimit,   \* length of share_mmap_list (200)
          Addresses,   \* page numbers of the adapter's address space
          Sizes,       \* sizes of the mappings the adapter makes
          Big,         \* a larger mapping is RAM (100)
          Stride,      \* frames of RAM per RAM mapping (0x40000)
          SizeWrap,    \* pages that 32 bits of bytes hold (2^20)
          Frames,      \* frames the adapter selects: rings and buffers
          MaxMmaps,    \* bound on the mappings of a session
          MaxOpens     \* bound on the sessions

ASSUME MmapAssumption ==
    /\ {MmapLimit, SizeWrap} \subseteq Nat \ {0} /\ {Big, Stride} \subseteq Nat
    /\ Addresses \subseteq Nat \ {0} /\ Sizes \subseteq Nat \ {0}
    /\ Frames \subseteq Nat /\ {MaxMmaps, MaxOpens} \subseteq Nat

VARIABLES open,                        \* whether the device is open
          share_mmap_list, mmap_index, \* the table and its next free entry
          cur_ram_idx,                 \* RAM mappings of this session
          share_communication_struct,  \* the next mmap is the shared page
          vq_pfn,                      \* the frame the next mmap is of
          vmas,                        \* the mappings there are
          ptes,                        \* pages the fault handler inserted
          opens, mmaps,                \* sessions so far, mappings registered in this one
          overrun                      \* history: an entry was written behind the table

globals == <<share_mmap_list, mmap_index, cur_ram_idx, share_communication_struct, vq_pfn>>
mmap_vars == <<open, globals, vmas, ptes, opens, mmaps, overrun>>

Entries == 0..(MmapLimit - 1)
Empty == [pfn |-> 0, vm_start |-> 0, size |-> 0]

MmapTypeOK ==
    /\ open \in BOOLEAN
    /\ share_mmap_list \in [Entries -> [pfn : Nat, vm_start : Nat, size : Nat]]
    /\ \A e \in Entries : share_mmap_list[e].size < SizeWrap
    /\ mmap_index \in Nat /\ cur_ram_idx \in Nat
    /\ share_communication_struct \in BOOLEAN
    /\ vq_pfn \in Frames \cup {0}
    /\ vmas \subseteq [start : Addresses, size : Sizes,
                       kind : {"page", "ram", "frame"}, pfn : Nat]
    /\ ptes \subseteq [addr : Nat, pfn : Nat]
    /\ opens \in 0..MaxOpens /\ mmaps \in 0..MaxMmaps
    /\ overrun \in BOOLEAN

MmapInit ==
    /\ open = FALSE
    /\ share_mmap_list = [e \in Entries |-> Empty]
    /\ mmap_index = 0 /\ cur_ram_idx = 0
    /\ share_communication_struct = FALSE
    /\ vq_pfn = 0
    /\ vmas = {} /\ ptes = {} /\ opens = 0 /\ mmaps = 0 /\ overrun = FALSE

Pages(v) == v.start..(v.start + v.size - 1)

\* The kernel places a mapping where none is.
IsFree(start, size) ==
    /\ start..(start + size - 1) \subseteq Addresses
    /\ \A v \in vmas : Pages(v) \cap (start..(start + size - 1)) = {}

-----------------------------------------------------------------------------
(* The table.                                                              *)

\* There is no entry left: the record goes into whatever the build has put behind the
\* array, which may be any of the driver's variables, the index itself among them (an
\* index outside the table is MmapLimit).
Overruns ==
    /\ mmap_index \notin Entries
    /\ overrun' = TRUE
    /\ mmap_index' \in 0..MmapLimit /\ cur_ram_idx' \in 0..MmapLimit
    /\ share_communication_struct' \in BOOLEAN
    /\ vq_pfn' \in Frames \cup {0}
    /\ UNCHANGED share_mmap_list

\* Registers a mapping that makes it chunks mappings of RAM.
add_share_mmap(pfn, start, size, chunks) ==
    /\ mmaps' = mmaps + 1
    /\ \/ /\ mmap_index \in Entries
          /\ share_mmap_list' = [share_mmap_list EXCEPT ![mmap_index] =
                [pfn |-> pfn, vm_start |-> start, size |-> size % SizeWrap]]
          /\ mmap_index' = mmap_index + 1 /\ cur_ram_idx' = chunks
          /\ UNCHANGED <<share_communication_struct, vq_pfn, overrun>>
       \/ Overruns

\* Mutant: records found by their frame.
RemoveByFrame(gone) ==
    /\ share_mmap_list' = [e \in Entries |->
          IF \E v \in gone : v.kind # "page" /\ v.pfn = share_mmap_list[e].pfn
          THEN Empty ELSE share_mmap_list[e]]
    /\ UNCHANGED mmap_index

\* pf_mmap_close of every mapping in gone; the shared page has no vm_ops.
share_mmap_rem(gone) ==
    /\ share_mmap_list' = [e \in Entries |->
          IF \E v \in gone : v.kind # "page" /\ v.start = share_mmap_list[e].vm_start
          THEN Empty ELSE share_mmap_list[e]]
    /\ UNCHANGED mmap_index

\* share_mmap_exist_vma_return_correct_pfn: the first entry that has the page.
FrameAt(addr) ==
    LET hits == {e \in Entries :
                    /\ share_mmap_list[e].vm_start <= addr
                    /\ addr < share_mmap_list[e].vm_start + share_mmap_list[e].size}
        first == share_mmap_list[Min(hits)]
    IN  IF hits = {} THEN 0 ELSE (addr - first.vm_start) + first.pfn

\* share_mmap_exist_vma_return_correct_addr, for the thread that made the mappings:
\* the address at which the first entry that has the frame shows it.
AddrOf(pfn) ==
    LET hits == {e \in Entries :
                    /\ share_mmap_list[e].pfn <= pfn
                    /\ pfn < share_mmap_list[e].pfn + share_mmap_list[e].size}
        first == share_mmap_list[Min(hits)]
    IN  IF hits = {} THEN 0 ELSE (pfn - first.pfn) + first.vm_start

-----------------------------------------------------------------------------
(* The file operations.                                                    *)

\* The indices start anew, the table and vq_pfn stay as they are.
Open ==
    /\ ~open /\ opens < MaxOpens
    /\ open' = TRUE /\ opens' = opens + 1
    /\ mmap_index' = 0 /\ cur_ram_idx' = 0 /\ mmaps' = 0
    /\ share_communication_struct' = FALSE
    /\ UNCHANGED <<share_mmap_list, vq_pfn, vmas, ptes, overrun>>

\* SHARE_BUF, or SHARE_VQS with whatever frame vq_pfns holds.
Share(f) ==
    /\ open
    /\ vq_pfn' = f
    /\ UNCHANGED <<open, share_mmap_list, mmap_index, cur_ram_idx,
                   share_communication_struct, vmas, ptes, opens, mmaps, overrun>>

ShareComStruct ==
    /\ open
    /\ share_communication_struct' = TRUE
    /\ UNCHANGED <<open, share_mmap_list, mmap_index, cur_ram_idx, vq_pfn, vmas, ptes,
                   opens, mmaps, overrun>>

CanMmap(start, size) == open /\ mmaps < MaxMmaps /\ IsFree(start, size)

NewVma(start, size, kind, pfn) ==
    vmas' = vmas \cup {[start |-> start, size |-> size, kind |-> kind, pfn |-> pfn]}

\* remap_pfn_range may fail; the flag falls all the same.
MmapPage(start, size) ==
    /\ CanMmap(start, size)
    /\ share_communication_struct
    /\ share_communication_struct' = FALSE
    /\ NewVma(start, size, "page", 0) \/ UNCHANGED vmas
    /\ UNCHANGED <<open, share_mmap_list, mmap_index, cur_ram_idx, vq_pfn, ptes, opens,
                   mmaps, overrun>>

\* Mutant: every mapping starts at the same frame.
MmapRamFirst(start, size) ==
    /\ CanMmap(start, size)
    /\ ~share_communication_struct /\ size > Big
    /\ NewVma(start, size, "ram", cur_ram_idx * Stride)
    /\ add_share_mmap(cur_ram_idx * Stride, start, size, cur_ram_idx)
    /\ UNCHANGED <<open, ptes, opens>>

\* pf_mmap_vm_page: the pages come with the faults.
MmapRam(start, size) ==
    /\ CanMmap(start, size)
    /\ ~share_communication_struct /\ size > Big
    /\ NewVma(start, size, "ram", cur_ram_idx * Stride)
    /\ add_share_mmap(cur_ram_idx * Stride, start, size, cur_ram_idx + 1)
    /\ UNCHANGED <<open, ptes, opens>>

\* mmap_mix: nothing is registered when remap_pfn_range fails.
MmapFrame(start, size) ==
    /\ CanMmap(start, size)
    /\ ~share_communication_struct /\ size <= Big
    /\ NewVma(start, size, "frame", vq_pfn)
    /\ add_share_mmap(vq_pfn, start, size, cur_ram_idx)
    /\ UNCHANGED <<open, ptes, opens>>

Munmap(v) ==
    /\ vmas' = vmas \ {v}
    /\ ptes' = {p \in ptes : p.addr \notin Pages(v)}
    /\ share_mmap_rem({v})
    /\ UNCHANGED <<open, cur_ram_idx, share_communication_struct, vq_pfn, opens, mmaps, overrun>>

\* pf_mmap_fault: a page of a RAM mapping is touched for the first time.
Fault(v, addr) ==
    /\ v.kind = "ram" /\ addr \in Pages(v)
    /\ \A p \in ptes : p.addr # addr
    /\ ptes' = ptes \cup {[addr |-> addr, pfn |-> FrameAt(addr)]}
    /\ UNCHANGED <<open, globals, vmas, opens, mmaps, overrun>>

\* The process ends: its mappings are closed, then the file is released.
Release ==
    /\ open
    /\ open' = FALSE
    /\ vmas' = {} /\ ptes' = {}
    /\ share_mmap_rem(vmas)
    /\ UNCHANGED <<cur_ram_idx, share_communication_struct, vq_pfn, opens, mmaps, overrun>>

MmapNext ==
    \/ Open \/ Release \/ ShareComStruct
    \/ \E f \in Frames : Share(f)
    \/ \E start \in Addresses, size \in Sizes :
          MmapPage(start, size) \/ MmapRam(start, size) \/ MmapFrame(start, size)
    \/ \E v \in vmas : Munmap(v) \/ \E addr \in Pages(v) : Fault(v, addr)

MmapSpec == MmapInit /\ [][MmapNext]_mmap_vars

-----------------------------------------------------------------------------
(* Properties.                                                             *)

Kept == {v \in vmas : v.kind # "page"}

\* Until a session makes more mappings than the table has entries (mmap_index only
\* grows, so those that are gone count too), every mapping of RAM or of a frame has
\* one entry of its own with its frame, and no entry is without a mapping, through
\* munmaps, failures and further sessions.  Of the driver after that nothing is said.
Registered ==
    LET used == {e \in Entries : share_mmap_list[e] # Empty}
    IN  ~overrun =>
            /\ Cardinality(used) = Cardinality(Kept)
            /\ \A v \in Kept : \E e \in used :
                  share_mmap_list[e] = [pfn |-> v.pfn, vm_start |-> v.start, size |-> v.size]

FaultsRight ==
    \A p \in ptes : \E v \in vmas :
        v.kind = "ram" /\ p.addr \in Pages(v) /\ p.pfn = v.pfn + (p.addr - v.start)

LookupsAgree ==
    \A v \in Kept : \A n \in 0..(v.size - 1) :
        LET addr == AddrOf(v.pfn + n)
        IN  /\ FrameAt(addr) = v.pfn + n
            /\ v.kind = "ram" =>
                  \/ addr = v.start + n
                  \/ \E w \in vmas : w.kind = "frame" /\ addr \in Pages(w)

\* While no entry was written behind the table, in this session or an earlier one,
\* the frame inserted for a page of RAM is the one at the same place of the
\* mapping's chunk of RAM, also next to other mappings.  And the two lookups are
\* inverse: asked for a frame the adapter mapped, the table gives an address that
\* shows it, and for RAM, of which no frame is mapped twice, the page's own, or one
\* of a buffer in it that was mapped by itself.
LookupsRight == ~overrun => FaultsRight /\ LookupsAgree
=============================================================================
