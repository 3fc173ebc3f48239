--------------------------------- MODULE Vmm ---------------------------------
(***************************************************************************)
(* The page tables of kernel/src/mem/vmm.c: four levels of tables in       *)
(* physical frames, large pages at the second and third level that are     *)
(* split when a smaller page is mapped inside them, the kernel's map, and  *)
(* a task's map that shares the kernel's upper half.  A table has Fan      *)
(* entries (512 in the machine), so a small page is 1, a "2MB" page Fan    *)
(* and a "1GB" page Fan^2; addresses count pages.                          *)
(*                                                                         *)
(* Calls on the kernel's map hold vmm_lock and a task's map is its own, so *)
(* each call is one action.  Flags other than LARGE and USER are carried   *)
(* along by the code and left out.                                         *)
(***************************************************************************)
EXTENDS Naturals, FiniteSetsExt, SequencesExt

CONSTANTS Fan,       \* entries of a table, even
          Frames,    \* frames pmm_alloc can give to tables
          KRoot,     \* the kernel's directory, first of the boot loader's tables
          KVas,      \* pages the kernel maps (its heap), in the direct map's directory slot
          TVas,      \* pages a task maps, in the lower half
          Targets,   \* physical pages they are mapped to
          KSizes     \* block sizes the kernel maps

PML1 == 1
PML2 == 2
PML3 == 3
PML4 == 4

\* Pages under an entry of level l.
PageSize(l) ==
  CASE l = PML1 -> 1 [] l = PML2 -> Fan [] l = PML3 -> Fan * Fan [] l = PML4 -> Fan * Fan * Fan
MM_PAGE_4KB   == PageSize(PML1)
MM_PAGE_2MB   == PageSize(PML2)
MM_PAGE_1GB   == PageSize(PML3)
Pages         == 0..(Fan * PageSize(PML4) - 1)
Slots         == 0..(Fan - 1)
UserSlots     == 0..(Fan \div 2 - 1)    \* indices 0-255 of a directory

\* pml1_index to pml4_index.
Index(va, l) == (va \div PageSize(l)) % Fan

ASSUME VmmAssumption ==
  /\ Fan \in Nat /\ Fan > 1 /\ Fan % 2 = 0
  /\ Frames \subseteq Nat \ {0} /\ KRoot \in Nat \ {0} /\ Frames \cap KRoot..(KRoot + 2) = {}
  /\ Targets \subseteq Nat
  /\ KSizes \subseteq {MM_PAGE_4KB, MM_PAGE_2MB, MM_PAGE_1GB}
  /\ \A va \in KVas : va \in Pages /\ Index(va, PML4) = Fan \div 2
  /\ \A va \in TVas : va \in Pages /\ Index(va, PML4) \in UserSlots

VARIABLES pages1G,\* vmm__pages_1gb_support: the processor has 1GB pages
          mem,    \* the frames that are tables, with their entries
          troot,  \* the task's directory, 0 when it has no map
          mode    \* "ok", or "oom" after pmm_alloc panicked

vars == <<pages1G, mem, troot, mode>>

Entries == [present : BOOLEAN, addr : Nat, large : BOOLEAN, user : BOOLEAN]
Absent  == [present |-> FALSE, addr |-> 0, large |-> FALSE, user |-> FALSE]
Leaf(pa, large, user) == [present |-> TRUE, addr |-> pa, large |-> large, user |-> user]
Table(f, user) == [present |-> TRUE, addr |-> f, large |-> FALSE, user |-> user]
Empty   == [i \in Slots |-> Absent]

TypeOK ==
  /\ pages1G \in BOOLEAN
  /\ DOMAIN mem \subseteq Frames \cup KRoot..(KRoot + 2)
  /\ \A f \in DOMAIN mem : mem[f] \in [Slots -> Entries]
  /\ troot \in Frames \cup {0}
  /\ mode \in {"ok", "oom"}

-----------------------------------------------------------------------------
\* The operators below work on a record: the tables, whether pmm_alloc has
\* found a frame each time, and the table at hand.
Begin(root) == [mem |-> mem, ok |-> TRUE, at |-> root]

\* pmm_alloc(1): the lowest free frame, zeroed.
pmm_alloc(s) ==
  LET free == Frames \ DOMAIN s.mem
  IN  IF free = {} THEN [s EXCEPT !.ok = FALSE]
      ELSE [mem |-> [f \in DOMAIN s.mem \cup {Min(free)} |->
                       IF f = Min(free) THEN Empty ELSE s.mem[f]],
            ok |-> TRUE, at |-> Min(free)]

put(s, i, e) == IF s.ok THEN [s EXCEPT !.mem[s.at][i] = e] ELSE s

\* Mutant of pd_split: every new entry points to the start of the large page.
pd_split_flat(s, i, size, user) ==
  LET pte == s.mem[s.at][i]
      n   == pmm_alloc(s)
  IN  IF ~n.ok THEN n
      ELSE [n EXCEPT !.mem[n.at] = [j \in Slots |-> Leaf(pte.addr, size = MM_PAGE_2MB, FALSE)],
                     !.mem[s.at][i] = Table(n.at, user)]

\* pd_split: a large entry becomes a table of pages of the given smaller size
\* (which lose the USER flag: MM_PT_DEFAULT_FLAGS keeps WRITE and NX).
pd_split(s, i, size, user) ==
  LET pte == s.mem[s.at][i]
      n   == pmm_alloc(s)
  IN  IF ~n.ok THEN n
      ELSE [n EXCEPT !.mem[n.at] = [j \in Slots |->
                                      Leaf(pte.addr + j * size, size = MM_PAGE_2MB, FALSE)],
                     !.mem[s.at][i] = Table(n.at, user)]

\* pd_get_or_create: the table below entry i of a table of level l.
pd_get_or_create(s, i, l, user) ==
  IF ~s.ok THEN s ELSE
  LET pte == s.mem[s.at][i]
      new == pmm_alloc(s)
  IN  CASE ~pte.present ->
             IF new.ok THEN [new EXCEPT !.mem[s.at][i] = Table(new.at, user)] ELSE new
        [] pte.present /\ ~pte.large ->
             [s EXCEPT !.mem[s.at][i].user = @ \/ user, !.at = pte.addr]
        [] pte.present /\ pte.large -> pd_split(s, i, PageSize(l - 1), user)

\* vmm_map_impl for the two smaller sizes, from the third level's table on.
map_below(s, va, pa, user, size) ==
  LET pml2 == pd_get_or_create(s, Index(va, PML3), PML3, user)
      pml1 == pd_get_or_create(pml2, Index(va, PML2), PML2, user)
  IN  IF size # MM_PAGE_4KB THEN put(pml2, Index(va, PML2), Leaf(pa, TRUE, user))
      ELSE put(pml1, Index(va, PML1), Leaf(pa, FALSE, user))

\* vmm_map_impl.  A 1GB page is written as one entry, or, if the processor has
\* none, as the 2MB pages of one table; the code then goes on to map its first
\* 2MB again, which splits the entry it has just written.
vmm_map(root, va, pa, user, size) ==
  LET pml3  == pd_get_or_create(Begin(root), Index(va, PML4), PML4, user)
      pml2  == pd_get_or_create(pml3, Index(va, PML3), PML3, user)
      large == IF pages1G THEN put(pml3, Index(va, PML3), Leaf(pa, TRUE, user))
               ELSE IF ~pml2.ok THEN pml2
               ELSE [pml2 EXCEPT !.at = pml3.at, !.mem[pml2.at] =
                       [k \in Slots |-> Leaf(pa + k * MM_PAGE_2MB, TRUE, user)]]
  IN  map_below(IF size = MM_PAGE_1GB THEN large ELSE pml3, va, pa, user, size)

\* The walk of va from a directory in the tables m: the last table it uses,
\* that table's level and the entry found there (a walk ends at an absent or a
\* large entry).
At(m, t, l, va) == [table |-> t, level |-> l, entry |-> m[t][Index(va, l)]]
Down(m, S, va) ==
  { IF w.level = PML1 \/ ~w.entry.present \/ w.entry.large THEN w
    ELSE At(m, w.entry.addr, w.level - 1, va) : w \in S }
WalkIn(m, root, va) ==
  CHOOSE w \in Down(m, Down(m, Down(m, {At(m, root, PML4, va)}, va), va), va) : TRUE
Walk(root, va) == WalkIn(mem, root, va)

\* Mutant of vmm_unmap: the page's table goes with the page.
vmm_unmap_table(root, va) ==
  LET w == Walk(root, va)
  IN  [mem EXCEPT ![w.table] = Empty]

\* vmm_unmap_impl: the tables afterwards.
vmm_unmap(root, va) ==
  LET w == Walk(root, va)
  IN  [mem EXCEPT ![w.table][Index(va, w.level)] = Absent]

\* vmm_is_mapped_impl and vmm_translate_impl (of a mapped page).
vmm_is_mapped(root, va) == Walk(root, va).entry.present
vmm_translate(root, va) ==
  LET w == Walk(root, va)
  IN  w.entry.addr + (IF w.level = PML1 THEN 0 ELSE va % MM_PAGE_2MB)

\* What the processor translates a mapped page to.
Hardware(root, va) ==
  LET w == Walk(root, va) IN w.entry.addr + (va % PageSize(w.level))

-----------------------------------------------------------------------------
\* The boot loader's map: the start of the direct map as one 1GB page where
\* the processor has them, or as 2MB pages, under tables that are all marked USER (vmm.c:661-662).
LoaderMap(by1G) ==
  LET t3 == KRoot + 1
      t2 == KRoot + 2
  IN  [f \in KRoot..(IF by1G THEN t3 ELSE t2) |-> [i \in Slots |->
         CASE f = KRoot /\ i = Fan \div 2 -> Table(t3, TRUE)
           [] f = t3 /\ i = 0 -> IF by1G THEN Leaf(0, TRUE, FALSE) ELSE Table(t2, TRUE)
           [] f = t2 -> Leaf(i * MM_PAGE_2MB, TRUE, FALSE)
           [] OTHER -> Absent]]

\* vmm_load: the kernel goes on with that map.
Init ==
  /\ pages1G \in BOOLEAN
  /\ mem = LoaderMap(pages1G)
  /\ troot = 0
  /\ mode = "ok"

\* A call that needs tables: it succeeds, or pmm_alloc panics.
Settle(s) ==
  /\ IF s.ok THEN mem' = s.mem /\ UNCHANGED mode ELSE mode' = "oom" /\ UNCHANGED mem
  /\ UNCHANGED pages1G

\* vmm_map on the kernel's map.  Nobody maps a large page over smaller ones
\* (their table would be lost).
kernel_map(va, pa, size) ==
  /\ mode = "ok" /\ va % size = 0 /\ pa % size = 0
  /\ PageSize(Walk(KRoot, va).level) >= size
  /\ Settle(vmm_map(KRoot, va, pa, FALSE, size))
  /\ UNCHANGED troot

kernel_unmap(va) ==
  /\ mode = "ok"
  /\ mem' = vmm_unmap(KRoot, va)
  /\ UNCHANGED <<pages1G, troot, mode>>

\* Mutant of vmm_make_page_map: the kernel's entries are not copied.
vmm_make_page_map_bare ==
  LET n == pmm_alloc(Begin(KRoot))
  IN  /\ mode = "ok" /\ troot = 0
      /\ troot' = IF n.ok THEN n.at ELSE 0
      /\ Settle(n)

\* vmm_make_page_map: a directory with the kernel's upper-half entries.
vmm_make_page_map ==
  LET n == pmm_alloc(Begin(KRoot))
  IN  /\ mode = "ok" /\ troot = 0
      /\ troot' = IF n.ok THEN n.at ELSE 0
      /\ Settle(IF n.ok THEN [n EXCEPT !.mem[n.at] = [i \in Slots |->
                                 IF i \in UserSlots THEN Absent ELSE mem[KRoot][i]]]
                ELSE n)

task_map(va, pa) ==
  /\ mode = "ok" /\ troot # 0
  /\ Settle(vmm_map(troot, va, pa, TRUE, MM_PAGE_4KB))
  /\ UNCHANGED troot

task_unmap(va) ==
  /\ mode = "ok" /\ troot # 0
  /\ mem' = vmm_unmap(troot, va)
  /\ UNCHANGED <<pages1G, troot, mode>>

\* The entries in slots I of the tables in S that lead to tables, and those.
Links(S, I) ==
  { x \in S \X I : mem[x[1]][x[2]].present /\ ~mem[x[1]][x[2]].large }
Below(L) == { mem[x[1]][x[2]].addr : x \in L }
UserTablesBelow(S, I) == Below({ x \in Links(S, I) : mem[x[1]][x[2]].user })

\* Mutant of vmm_destroy_tables: the tables of the last level are kept.
vmm_destroy_tables_short(root) ==
  LET t3 == UserTablesBelow({root}, UserSlots)
  IN  t3 \cup UserTablesBelow(t3, Slots)

\* vmm_destroy_tables: the tables it frees.  Of a directory only the lower
\* half is walked, and the last level's entries are pages, not tables.
vmm_destroy_tables(root) ==
  LET t3 == UserTablesBelow({root}, UserSlots)
      t2 == UserTablesBelow(t3, Slots)
  IN  t3 \cup t2 \cup UserTablesBelow(t2, Slots)

vmm_destroy_page_map ==
  /\ mode = "ok" /\ troot # 0
  /\ mem' = [f \in DOMAIN mem \ (vmm_destroy_tables(troot) \cup {troot}) |-> mem[f]]
  /\ troot' = 0
  /\ UNCHANGED <<pages1G, mode>>

Next ==
  \/ \E va \in KVas, pa \in Targets, size \in KSizes : kernel_map(va, pa, size)
  \/ \E va \in KVas : kernel_unmap(va)
  \/ \E va \in TVas, pa \in Targets : task_map(va, pa)
  \/ \E va \in TVas : task_unmap(va)
  \/ vmm_make_page_map
  \/ vmm_destroy_page_map

Spec == Init /\ [][Next]_vars
-----------------------------------------------------------------------------
Upper == { va \in Pages : Index(va, PML4) \notin UserSlots }

\* Levels 3, 2 and 1 of the tree under the slots I of a directory.
Tree(root, I) ==
  LET l3 == Links({root}, I)
      l2 == Links(Below(l3), Slots)
      l1 == Links(Below(l2), Slots)
  IN  <<l3, l2, l1>>

Tables(tree) == UNION { Below(tree[k]) : k \in 1..3 }

\* The tables form trees that own their frames: every table is reached by one
\* entry at one level, the task's lower half and the kernel share none, and
\* every frame taken for a table is still reached, so that destroying a task's
\* map (vmm_destroy_tables) gives back exactly what mapping took.
TablesExact ==
  LET k == Tree(KRoot, Slots)
      t == IF troot = 0 THEN <<{}, {}, {}>> ELSE Tree(troot, UserSlots)
  IN  /\ TypeOK
      /\ DOMAIN mem = Tables(k) \cup Tables(t) \cup {KRoot} \cup ({troot} \ {0})
      /\ Cardinality(DOMAIN mem)
           = Cardinality(k[1]) + Cardinality(k[2]) + Cardinality(k[3])
             + Cardinality(t[1]) + Cardinality(t[2]) + Cardinality(t[3])
             + (IF troot = 0 THEN 1 ELSE 2)

\* The kernel is mapped the same in every address space, however it maps and
\* unmaps its heap after the task's map was made (the copied entries lead to
\* the kernel's own tables), and never for user mode: although the tables above
\* are marked USER, the last entry is not.  (The directory's upper half is
\* copied once; the kernel fills no new slot of it as long as its heap stays
\* within one.)  And vmm_translate agrees with the processor in both maps, after
\* any splits, on every mapped page that is not part of a 1GB page (there the
\* code adds the offset within 2MB, vmm.c:521; no caller translates one).
TranslationsExact ==
  /\ troot # 0 => \A va \in Upper :
       LET k == Walk(KRoot, va)
           t == Walk(troot, va)
       IN  t.level = k.level /\ t.entry = k.entry /\ ~t.entry.user
  /\ \A root \in {KRoot, troot} \ {0} : \A va \in Pages :
       LET w == Walk(root, va)
       IN  w.entry.present /\ w.level # PML3 => vmm_translate(root, va) = Hardware(root, va)

\* What the kernel sees in its map, and a task in the lower half of its own.
KernelSpace == [va \in { x \in Pages : vmm_is_mapped(KRoot, x) } |-> Hardware(KRoot, va)]
TaskSpace   ==
  IF troot = 0 THEN << >>
  ELSE [va \in { x \in Pages \ Upper : vmm_is_mapped(troot, x) } |-> Hardware(troot, va)]

\* vmm_map, vmm_unmap and pd_split do to the address spaces what AddrSpec says.
Abs == INSTANCE AddrSpec WITH
  Sizes <- {MM_PAGE_4KB, MM_PAGE_2MB, MM_PAGE_1GB},
  kmap <- KernelSpace, tmap <- TaskSpace, live <- troot # 0

\* Mapping a page, with all the tables it makes and the large pages it splits,
\* changes that page's translation and no other; unmapping removes it alone.
ImplementsAddrSpec == Abs!Spec
=============================================================================
