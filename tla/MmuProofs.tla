----------------------------- MODULE MmuProofs ------------------------------
(***************************************************************************)
(* Both translations give every process memory of its own, for any number  *)
(* of frames, table entries, processes, pages and values.  With page       *)
(* tables the argument is that a frame has one role: the root, a table of  *)
(* the first level, a leaf table or a page, each at one place of one       *)
(* process.                                                                *)
(***************************************************************************)
EXTENDS Mmu, WellFoundedInduction, TLAPS

USE Zenon

Bases    == 0..(NBASES - 1)
Entry    == Frames \union {NONE, Identity}
Mapping  == [use : BOOLEAN, pid : Nat, page : Pages \union {NONE}]
Owners   == [Frames -> Mapping]
Contents == [Frames -> Value]
Trees    == [Frames -> [Entries -> Entry]]
Roots    == [Bases -> Frames \union {NONE}]
Mem ==
    [translation : {"SOFT_TLB", "PAGE_TABLE"}, table : Owners, data : Contents,
     pt : Trees, base : Roots, got : Frames \union {NONE}]

LEMMA Sizes ==
    /\ NFRAMES \in Nat /\ NFRAMES > 0 /\ NBASES \in Nat /\ NBASES > 0
    /\ NENTRIES \in Nat /\ NENTRIES > 0 /\ MaxPid \in Nat /\ MaxPid > 0
    /\ MaxSoftPid \in Nat /\ MaxSoftPid <= MaxPid
    /\ NONE \notin Frames /\ NONE \notin Value /\ 0 \in Value /\ 0 \in Frames /\ 0 \in Bases
    /\ Identity \notin Frames /\ Identity # NONE /\ NONE \notin Nat
<1>1. /\ NFRAMES \in Nat /\ NFRAMES > 0 /\ NBASES \in Nat /\ NBASES > 0
      /\ NENTRIES \in Nat /\ NENTRIES > 0 /\ MaxPid \in Nat /\ MaxPid > 0
      /\ MaxSoftPid \in Nat /\ MaxSoftPid <= MaxPid /\ NONE \notin Value /\ 0 \in Value
  BY MmuAssumption, SMT
<1> QED BY <1>1, SMT DEF Frames, Bases, NONE, Identity

(* a set of naturals has a least element *)
LEMMA Least ==
    ASSUME NEW T \in SUBSET Nat, T # {}
    PROVE  Min(T) \in T
<1> DEFINE R == OpToRel(<, Nat)
<1>1. IsWellFoundedOn(R, Nat)
  BY NatLessThanWellFounded
<1>2. \A x, y \in Nat : y < x => <<y, x>> \in R
  BY DEF OpToRel
<1> HIDE DEF R
<1>3. PICK x \in T : \A y \in T : ~(<<y, x>> \in R)
  BY <1>1, WFMin
<1>4. \A y \in T : x =< y
  <2> SUFFICES ASSUME NEW y \in T PROVE x =< y
    OBVIOUS
  <2>1. x \in Nat /\ y \in Nat /\ ~(y < x)
    BY <1>2, <1>3
  <2> QED BY <2>1, SMT
<1>5. \E z \in T : \A y \in T : z =< y
  BY <1>4
<1> QED BY <1>5 DEF Min

LEMMA Single ==
    ASSUME NEW f \in Int
    PROVE  Min({f}) = f /\ Max({f}) = f
BY SMT DEF Min, Max

-----------------------------------------------------------------------------
(* Frames: what mmu_alloc and a new table change                           *)

Same(r, s) == s.translation = r.translation /\ s.data = r.data

LEMMA FailFields ==
    ASSUME NEW r \in Mem
    PROVE  /\ Fail(r) \in Mem /\ Same(r, Fail(r)) /\ Failed(Fail(r))
           /\ Fail(r).table = r.table /\ Fail(r).pt = r.pt /\ Fail(r).base = r.base
BY DEF Fail, Failed, Mem, Same

LEMMA AllocFields ==
    ASSUME NEW r \in Mem
    PROVE  /\ mmu_alloc(r) \in Mem /\ Same(r, mmu_alloc(r))
           /\ mmu_alloc(r).pt = r.pt /\ mmu_alloc(r).base = r.base
           /\ \/ Failed(mmu_alloc(r)) /\ mmu_alloc(r).table = r.table
              \/ \E f \in Frames :
                    /\ ~r.table[f].use /\ mmu_alloc(r).got = f /\ ~Failed(mmu_alloc(r))
                    /\ mmu_alloc(r).table[f].use
                    /\ mmu_alloc(r).table[f].pid = r.table[f].pid
                    /\ \A h \in Frames \ {f} : mmu_alloc(r).table[h] = r.table[h]
<1> DEFINE free == {f \in Frames : ~r.table[f].use}
<1>1. CASE free = {}
  BY <1>1, FailFields DEF mmu_alloc, FirstFree
<1>2. CASE free # {}
  <2> DEFINE f == Min(free)
             T == [r.table EXCEPT ![f].use = TRUE]
  <2>1. f \in Frames /\ ~r.table[f].use
    <3>1. free \in SUBSET Nat
      BY Sizes, SMT DEF Frames
    <3> QED BY <1>2, <3>1, Least
  <2>2. r.table \in Owners
    BY DEF Mem
  <2> HIDE DEF free, f
  <2>3. /\ T \in Owners /\ T[f].use /\ T[f].pid = r.table[f].pid
        /\ \A h \in Frames \ {f} : T[h] = r.table[h]
    BY <2>1, <2>2 DEF Owners, Mapping
  <2>4. mmu_alloc(r) = [r EXCEPT !.got = f, !.table = T]
    BY <1>2 DEF mmu_alloc, FirstFree, free, f
  <2> HIDE DEF T
  <2>5. /\ mmu_alloc(r) \in Mem /\ Same(r, mmu_alloc(r)) /\ mmu_alloc(r).pt = r.pt
        /\ mmu_alloc(r).base = r.base /\ mmu_alloc(r).got = f /\ mmu_alloc(r).table = T
    BY <2>1, <2>3, <2>4 DEF Mem, Same
  <2>6. ~Failed(mmu_alloc(r))
    BY <2>1, <2>5, Sizes DEF Failed
  <2> QED BY <2>1, <2>3, <2>5, <2>6
<1> QED BY <1>1, <1>2

LEMMA NewTableFields ==
    ASSUME NEW r \in Mem, NEW p \in Nat
    PROVE  /\ NewTable(r, p) \in Mem /\ Same(r, NewTable(r, p)) /\ NewTable(r, p).base = r.base
           /\ \/ /\ Failed(NewTable(r, p)) /\ NewTable(r, p).table = r.table
                 /\ NewTable(r, p).pt = r.pt
              \/ \E f \in Frames :
                    /\ ~r.table[f].use /\ NewTable(r, p).got = f /\ ~Failed(NewTable(r, p))
                    /\ NewTable(r, p).table[f].use /\ NewTable(r, p).table[f].pid = p
                    /\ \A h \in Frames \ {f} : NewTable(r, p).table[h] = r.table[h]
                    /\ NewTable(r, p).pt = [r.pt EXCEPT ![f] = ClearTable]
<1> DEFINE a == mmu_alloc(r)
<1>1. a \in Mem /\ Same(r, a) /\ a.pt = r.pt /\ a.base = r.base
  BY AllocFields
<1>2. CASE Failed(a)
  BY <1>1, <1>2, AllocFields DEF NewTable, Owned
<1>3. CASE ~Failed(a)
  <2>1. PICK f \in Frames : /\ ~r.table[f].use /\ a.got = f /\ a.table[f].use
                            /\ \A h \in Frames \ {f} : a.table[h] = r.table[h]
    BY <1>3, AllocFields
  <2> DEFINE T == [a.table EXCEPT ![f].pid = p]
             E == [r.pt EXCEPT ![f] = ClearTable]
             s == NewTable(r, p)
  <2>2. a.table \in Owners /\ r.pt \in Trees
    BY <1>1 DEF Mem
  <2>3. s = [a EXCEPT !.table = T, !.pt = E]
    BY <1>1, <1>3, <2>1 DEF NewTable, Owned
  <2> HIDE DEF a
  <2>4. T \in Owners /\ T[f].use /\ T[f].pid = p /\ \A h \in Frames \ {f} : T[h] = r.table[h]
    BY <2>1, <2>2, ZenonT(30) DEF Owners, Mapping
  <2>5. E \in Trees
    BY <2>1, <2>2 DEF Trees, ClearTable, Entry
  <2> HIDE DEF T, E, s
  <2>6. /\ s \in Mem /\ Same(r, s) /\ s.base = r.base /\ s.table = T /\ s.pt = E /\ s.got = f
    BY <1>1, <2>1, <2>3, <2>4, <2>5 DEF Mem, Same
  <2>7. ~Failed(s)
    BY <2>1, <2>6, Sizes DEF Failed
  <2> QED BY <2>1, <2>4, <2>6, <2>7, SMT DEF s, E
<1> QED BY <1>2, <1>3

-----------------------------------------------------------------------------
(* The role of a frame: the root of a process, a table of the first level  *)
(* or a leaf table at a place below it, or a page; "free" for a frame that *)
(* no table of a process that exists leads to                              *)

Kinds  == {"root", "l1", "leaf"}
Role   == [kind : Kinds \union {"free", "page"}, pid : Nat,
           v2 : Entries, v1 : Entries, v0 : Entries]
Roles  == [Frames -> Role]

UnderRoot(w, t, v, f) ==
    f \in Frames /\ w[f].kind = "l1" /\ w[f].pid = w[t].pid /\ w[f].v2 = v
UnderL1(w, t, v, f) ==
    f \in Frames /\ w[f].kind = "leaf" /\ w[f].pid = w[t].pid
    /\ w[f].v2 = w[t].v2 /\ w[f].v1 = v
UnderLeaf(w, t, v, f) ==
    f \in Frames /\ w[f].kind = "page" /\ w[f].pid = w[t].pid
    /\ w[f].v2 = w[t].v2 /\ w[f].v1 = w[t].v1 /\ w[f].v0 = v

(* mmu_free finds the tables of a process by their owner; a page has none *)
RolesOwned(r, w) ==
    \A f \in Frames :
        /\ w[f].kind # "free" => r.table[f].use
        /\ w[f].kind \in Kinds => r.table[f].pid = w[f].pid
        /\ w[f].kind = "page" => r.table[f].pid = 0
        /\ ~r.table[f].use => r.table[f].pid = 0

RootsPlaced(r, w, P) ==
    \A q \in P \intersect Bases :
        r.base[q] # NONE => w[r.base[q]].kind = "root" /\ w[r.base[q]].pid = q

EntriesPlaced(r, w) ==
    \A t \in Frames, v \in Entries : r.pt[t][v] # NONE =>
        /\ w[t].kind = "root" => UnderRoot(w, t, v, r.pt[t][v])
        /\ w[t].kind = "l1"   => UnderL1(w, t, v, r.pt[t][v])
        /\ w[t].kind = "leaf" => r.pt[t][v] = Identity \/ UnderLeaf(w, t, v, r.pt[t][v])

Shape(r, w, P) == RolesOwned(r, w) /\ RootsPlaced(r, w, P) /\ EntriesPlaced(r, w)

Grows(w, x) == \A f \in Frames : w[f].kind # "free" => x[f] = w[f]

Keeps(r, s, P) ==
    \A q \in P \intersect Bases, g \in PageNo : PageFrame(s, q, g) = PageFrame(r, q, g)

Into(r, w, s, P) ==
    /\ s \in Mem /\ Same(r, s) /\ Keeps(r, s, P)
    /\ \E x \in Roles : Shape(s, x, P) /\ Grows(w, x)

LEMMA PageNoParts ==
    ASSUME NEW g \in PageNo
    PROVE  g[1] \in Entries /\ g[2] \in Entries /\ g[3] \in Entries
BY DEF PageNo

LEMMA PageNoEqual ==
    ASSUME NEW g \in PageNo, NEW h \in PageNo, g[1] = h[1], g[2] = h[2], g[3] = h[3]
    PROVE  g = h
BY SMT DEF PageNo

LEMMA IntoTrans ==
    ASSUME NEW P, NEW r, NEW w, NEW s, NEW t, Into(r, w, s, P),
           \A x \in Roles : Shape(s, x, P) /\ Grows(w, x) => Into(s, x, t, P)
    PROVE  Into(r, w, t, P)
<1>1. PICK x \in Roles : Shape(s, x, P) /\ Grows(w, x)
  BY DEF Into
<1>2. Into(s, x, t, P)
  BY <1>1
<1>3. PICK y \in Roles : Shape(t, y, P) /\ Grows(x, y)
  BY <1>2 DEF Into
<1>4. Grows(w, y)
  BY <1>1, <1>3 DEF Grows
<1>5. Same(r, t)
  BY <1>2 DEF Into, Same
<1>6. Keeps(r, t, P)
  BY <1>2 DEF Into, Keeps
<1> QED BY <1>2, <1>3, <1>4, <1>5, <1>6 DEF Into

LEMMA IntoSelf ==
    ASSUME NEW P, NEW r \in Mem, NEW w \in Roles, Shape(r, w, P),
           NEW s \in Mem, Same(r, s), s.table = r.table, s.pt = r.pt, s.base = r.base
    PROVE  Into(r, w, s, P)
<1>1. Shape(s, w, P)
  BY SMT DEF Shape, RolesOwned, RootsPlaced, EntriesPlaced
<1>2. Grows(w, w)
  BY DEF Grows
<1>3. Keeps(r, s, P)
  BY DEF Keeps, PageFrame, L1, Leaf
<1> QED BY <1>1, <1>2, <1>3 DEF Into

(* what the tables of q lead to for page g has its place *)
PathPlaced(r, w, q, g) ==
    /\ r.base[q] \in Frames /\ w[r.base[q]].kind = "root" /\ w[r.base[q]].pid = q
    /\ L1(r, q, g) # NONE => UnderRoot(w, r.base[q], g[1], L1(r, q, g))
    /\ L1(r, q, g) # NONE /\ Leaf(r, q, g) # NONE =>
          /\ UnderL1(w, L1(r, q, g), g[2], Leaf(r, q, g))
          /\ \A f \in PageFrame(r, q, g) : UnderLeaf(w, Leaf(r, q, g), g[3], f)

LEMMA Path ==
    ASSUME NEW P, NEW r \in Mem, NEW w \in Roles, Shape(r, w, P),
           NEW q \in P \intersect Bases, NEW g \in PageNo, r.base[q] # NONE
    PROVE  PathPlaced(r, w, q, g)
<1>1. r.base[q] \in Frames /\ w[r.base[q]].kind = "root" /\ w[r.base[q]].pid = q
  BY SMT DEF Mem, Roots, Shape, RootsPlaced
<1>2. g[1] \in Entries /\ g[2] \in Entries /\ g[3] \in Entries
  BY PageNoParts
<1>3. ASSUME L1(r, q, g) # NONE
      PROVE  UnderRoot(w, r.base[q], g[1], L1(r, q, g))
  BY <1>1, <1>2, <1>3 DEF Shape, EntriesPlaced, L1
<1>4. ASSUME L1(r, q, g) # NONE, Leaf(r, q, g) # NONE
      PROVE  UnderL1(w, L1(r, q, g), g[2], Leaf(r, q, g))
  <2>1. L1(r, q, g) \in Frames /\ w[L1(r, q, g)].kind = "l1"
    BY <1>3, <1>4 DEF UnderRoot
  <2> QED BY <1>2, <1>4, <2>1 DEF Shape, EntriesPlaced, Leaf
<1>5. ASSUME L1(r, q, g) # NONE, Leaf(r, q, g) # NONE, NEW f \in PageFrame(r, q, g)
      PROVE  UnderLeaf(w, Leaf(r, q, g), g[3], f)
  <2>1. Leaf(r, q, g) \in Frames /\ w[Leaf(r, q, g)].kind = "leaf"
    BY <1>4, <1>5 DEF UnderL1
  <2>2. f = r.pt[Leaf(r, q, g)][g[3]] /\ f # NONE /\ f # Identity
    BY <1>5 DEF PageFrame
  <2> QED BY <1>2, <2>1, <2>2 DEF Shape, EntriesPlaced
<1> QED BY <1>1, <1>3, <1>4, <1>5 DEF PathPlaced


LEMMA UnderGrows ==
    ASSUME NEW w, NEW x, Grows(w, x), NEW t, x[t] = w[t], NEW v, NEW f
    PROVE  /\ UnderRoot(w, t, v, f) => UnderRoot(x, t, v, f)
           /\ UnderL1(w, t, v, f)   => UnderL1(x, t, v, f)
           /\ UnderLeaf(w, t, v, f) => UnderLeaf(x, t, v, f)
BY DEF Grows, UnderRoot, UnderL1, UnderLeaf

(* a frame that was free takes a role; nothing leads to it yet *)
TakesRole(r, s, f, R) ==
    /\ s.base = r.base
    /\ ~r.table[f].use /\ s.table[f].use
    /\ \A h \in Frames \ {f} : s.table[h] = r.table[h] /\ s.pt[h] = r.pt[h]
    /\ R.kind # "free"
    /\ R.kind \in Kinds => s.table[f].pid = R.pid /\ \A v \in Entries : s.pt[f][v] = NONE
    /\ R.kind = "page" => s.table[f].pid = 0

RoleTaken(r, w, s, P, f, R) ==
    \E x \in Roles : /\ Shape(s, x, P) /\ Grows(w, x) /\ Keeps(r, s, P)
                     /\ x[f] = R /\ \A h \in Frames \ {f} : x[h] = w[h]

LEMMA Fresh ==
    ASSUME NEW P, NEW r \in Mem, NEW w \in Roles, Shape(r, w, P), NEW s \in Mem,
           NEW f \in Frames, NEW R \in Role, TakesRole(r, s, f, R)
    PROVE  RoleTaken(r, w, s, P, f, R)
<1> DEFINE x == [w EXCEPT ![f] = R]
<1>1. x \in Roles /\ x[f] = R /\ \A h \in Frames \ {f} : x[h] = w[h]
  BY DEF Roles
<1>2. w[f].kind = "free"
  BY DEF Shape, RolesOwned, TakesRole
<1> HIDE DEF x
<1>3. Grows(w, x)
  BY <1>1, <1>2 DEF Grows
<1>4. RolesOwned(s, x)
  <2> SUFFICES ASSUME NEW h \in Frames
               PROVE  /\ x[h].kind # "free" => s.table[h].use
                      /\ x[h].kind \in Kinds => s.table[h].pid = x[h].pid
                      /\ x[h].kind = "page" => s.table[h].pid = 0
                      /\ ~s.table[h].use => s.table[h].pid = 0
    BY DEF RolesOwned
  <2>1. CASE h = f
    BY <1>1, <2>1 DEF TakesRole
  <2>2. CASE h # f
    BY <1>1, <2>2 DEF Shape, RolesOwned, TakesRole
  <2> QED BY <2>1, <2>2
<1>5. RootsPlaced(s, x, P)
  <2> SUFFICES ASSUME NEW q \in P \intersect Bases, s.base[q] # NONE
               PROVE  x[s.base[q]].kind = "root" /\ x[s.base[q]].pid = q
    BY DEF RootsPlaced
  <2>1. s.base[q] \in Frames
    BY DEF Mem, Roots
  <2> QED BY <1>1, <1>2, <2>1, SMT DEF Shape, RootsPlaced, TakesRole
<1>6. EntriesPlaced(s, x)
  <2> SUFFICES ASSUME NEW t \in Frames, NEW v \in Entries, s.pt[t][v] # NONE
               PROVE  /\ x[t].kind = "root" => UnderRoot(x, t, v, s.pt[t][v])
                      /\ x[t].kind = "l1"   => UnderL1(x, t, v, s.pt[t][v])
                      /\ x[t].kind = "leaf" =>
                            s.pt[t][v] = Identity \/ UnderLeaf(x, t, v, s.pt[t][v])
    BY DEF EntriesPlaced
  <2>1. CASE t = f
    BY <1>1, <2>1 DEF Kinds, TakesRole
  <2>2. CASE t # f
    <3>1. s.pt[t] = r.pt[t] /\ x[t] = w[t]
      BY <1>1, <2>2 DEF TakesRole
    <3>2. /\ w[t].kind = "root" => UnderRoot(w, t, v, r.pt[t][v])
          /\ w[t].kind = "l1"   => UnderL1(w, t, v, r.pt[t][v])
          /\ w[t].kind = "leaf" =>
                r.pt[t][v] = Identity \/ UnderLeaf(w, t, v, r.pt[t][v])
      BY <3>1 DEF Shape, EntriesPlaced
    <3> QED BY <1>3, <3>1, <3>2, UnderGrows
  <2> QED BY <2>1, <2>2
<1>7. Keeps(r, s, P)
  <2> SUFFICES ASSUME NEW q \in P \intersect Bases, NEW g \in PageNo
               PROVE  PageFrame(s, q, g) = PageFrame(r, q, g)
    BY DEF Keeps
  <2>0. s.base[q] = r.base[q]
    BY DEF TakesRole
  <2>1. CASE r.base[q] = NONE
    BY <2>0, <2>1 DEF PageFrame
  <2>2. CASE r.base[q] # NONE
    <3>0. PathPlaced(r, w, q, g)
      BY <2>2, Path
    <3>1. r.base[q] \in Frames /\ r.base[q] # f
      BY <1>2, <3>0 DEF PathPlaced
    <3>2. L1(s, q, g) = L1(r, q, g)
      BY <2>0, <3>1, SMT DEF L1, TakesRole
    <3>3. CASE L1(r, q, g) = NONE
      BY <2>0, <3>2, <3>3 DEF PageFrame
    <3>4. CASE L1(r, q, g) # NONE
      <4>1. L1(r, q, g) \in Frames /\ L1(r, q, g) # f
        BY <1>2, <3>0, <3>4 DEF UnderRoot, PathPlaced
      <4>2. Leaf(s, q, g) = Leaf(r, q, g)
        BY <3>2, <4>1 DEF Leaf, TakesRole
      <4>3. CASE Leaf(r, q, g) = NONE
        BY <2>0, <3>2, <4>2, <4>3 DEF PageFrame
      <4>4. CASE Leaf(r, q, g) # NONE
        <5>1. Leaf(r, q, g) \in Frames /\ Leaf(r, q, g) # f
          BY <1>2, <3>0, <3>4, <4>4 DEF UnderL1, PathPlaced
        <5>2. s.pt[Leaf(r, q, g)] = r.pt[Leaf(r, q, g)]
          BY <5>1 DEF TakesRole
        <5> QED BY <2>0, <3>2, <4>2, <5>2 DEF PageFrame
      <4> QED BY <4>3, <4>4
    <3> QED BY <3>3, <3>4
  <2> QED BY <2>1, <2>2
<1> QED BY <1>1, <1>3, <1>4, <1>5, <1>6, <1>7 DEF Shape, RoleTaken

(* a table of p, in the role it is allocated for *)
TableTaken(r, w, a, P, R) ==
    /\ a \in Mem /\ Same(r, a) /\ a.base = r.base /\ Keeps(r, a, P) /\ a.got \in Frames
    /\ \A v \in Entries : a.pt[a.got][v] = NONE
    /\ \A h \in Frames : w[h].kind # "free" => a.pt[h] = r.pt[h]
    /\ \E x \in Roles : Shape(a, x, P) /\ Grows(w, x) /\ x[a.got] = R

LEMMA NewTableShape ==
    ASSUME NEW P, NEW r \in Mem, NEW w \in Roles, Shape(r, w, P), NEW p \in Nat,
           NEW R \in Role, R.kind \in Kinds, R.pid = p, ~Failed(NewTable(r, p))
    PROVE  TableTaken(r, w, NewTable(r, p), P, R)
<1> DEFINE s == NewTable(r, p)
<1>1. s \in Mem /\ Same(r, s) /\ s.base = r.base
  BY NewTableFields
<1>2. PICK f \in Frames : /\ ~r.table[f].use /\ s.got = f
                          /\ s.table[f].use /\ s.table[f].pid = p
                          /\ \A h \in Frames \ {f} : s.table[h] = r.table[h]
                          /\ s.pt = [r.pt EXCEPT ![f] = ClearTable]
  BY NewTableFields, SMT
<1> HIDE DEF s
<1>3. /\ \A v \in Entries : s.pt[f][v] = NONE
      /\ \A h \in Frames \ {f} : s.pt[h] = r.pt[h]
  BY <1>2, SMT DEF Mem, Trees, ClearTable
<1>4. TakesRole(r, s, f, R)
  BY <1>1, <1>2, <1>3 DEF Kinds, TakesRole
<1>5. RoleTaken(r, w, s, P, f, R)
  BY <1>1, <1>4, Fresh
<1>6. \A h \in Frames : w[h].kind # "free" => s.pt[h] = r.pt[h]
  BY <1>2, <1>3 DEF Shape, RolesOwned
<1> QED BY <1>1, <1>2, <1>3, <1>5, <1>6, SMT DEF s, RoleTaken, TableTaken


OtherBases(r, s, p) == \A q \in Bases \ {p} : s.base[q] = r.base[q]

(* the root of p, allocated when it is not there *)
LEMMA RootStep ==
    ASSUME NEW P, NEW r \in Mem, NEW w \in Roles, Shape(r, w, P), NEW p \in P \intersect Bases
    PROVE  /\ Into(r, w, Root(r, p), P) /\ OtherBases(r, Root(r, p), p)
           /\ ~Failed(Root(r, p)) => Root(r, p).base[p] # NONE
<1> DEFINE a == NewTable(r, p)
           s == Root(r, p)
<1>0. p \in Nat
  BY Sizes, SMT DEF Bases
<1>1. CASE Failed(r) \/ r.base[p] # NONE
  <2>1. s = r
    BY <1>1 DEF Root
  <2>2. Same(r, r)
    BY DEF Same
  <2>3. Into(r, w, r, P)
    BY <2>2, IntoSelf
  <2> QED BY <1>1, <2>1, <2>3 DEF OtherBases
<1>2. CASE ~(Failed(r) \/ r.base[p] # NONE) /\ Failed(a)
  <2>1. s = a
    BY <1>2 DEF Root, SetBase
  <2>2. /\ a \in Mem /\ Same(r, a) /\ a.base = r.base /\ a.table = r.table /\ a.pt = r.pt
    BY <1>0, <1>2, NewTableFields
  <2>3. Into(r, w, a, P)
    BY <2>2, IntoSelf
  <2> QED BY <1>2, <2>1, <2>2, <2>3 DEF OtherBases
<1>3. CASE ~(Failed(r) \/ r.base[p] # NONE) /\ ~Failed(a)
  <2> DEFINE R == [kind |-> "root", pid |-> p, v2 |-> 0, v1 |-> 0, v0 |-> 0]
             f == a.got
             B == [a.base EXCEPT ![p] = f]
  <2>1. R \in Role /\ R.kind \in Kinds /\ R.pid = p
    BY <1>0, Sizes, SMT DEF Role, Kinds, Entries
  <2>2. s = [a EXCEPT !.base = B]
    BY <1>3 DEF Root, SetBase
  <2> HIDE DEF R
  <2>3. /\ a \in Mem /\ Same(r, a) /\ a.base = r.base /\ Keeps(r, a, P) /\ f \in Frames
        /\ \A v \in Entries : a.pt[f][v] = NONE
        /\ \E x \in Roles : Shape(a, x, P) /\ Grows(w, x) /\ x[f] = R
    <3>1. TableTaken(r, w, a, P, R)
      BY <1>0, <1>3, <2>1, NewTableShape
    <3> QED BY <3>1 DEF TableTaken
  <2>4. PICK x \in Roles : Shape(a, x, P) /\ Grows(w, x) /\ x[f] = R
    BY <2>3
  <2> HIDE DEF a
  <2>5. B \in Roots /\ B[p] = f /\ \A q \in Bases \ {p} : B[q] = a.base[q]
    BY <2>3 DEF Mem, Roots
  <2> HIDE DEF B, f, s
  <2>6. /\ s \in Mem /\ Same(r, s) /\ s.base = B /\ s.table = a.table /\ s.pt = a.pt
    BY <2>2, <2>3, <2>5 DEF Mem, Same
  <2>7. Shape(s, x, P)
    BY <2>1, <2>4, <2>5, <2>6, SMT DEF Shape, RolesOwned, RootsPlaced, EntriesPlaced, R
  <2>8. Keeps(a, s, P)
    <3> SUFFICES ASSUME NEW q \in P \intersect Bases, NEW g \in PageNo
                 PROVE  PageFrame(s, q, g) = PageFrame(a, q, g)
      BY DEF Keeps
    <3>1. CASE q = p
      <4>1. a.base[q] = NONE
        BY <1>3, <2>3, <3>1
      <4>2. L1(s, q, g) = NONE
        BY <2>3, <2>5, <2>6, <3>1, PageNoParts DEF L1
      <4> QED BY <4>1, <4>2 DEF PageFrame
    <3>2. CASE q # p
      BY <2>5, <2>6, <3>2 DEF PageFrame, L1, Leaf
    <3> QED BY <3>1, <3>2
  <2>9. Keeps(r, s, P)
    BY <2>3, <2>8 DEF Keeps
  <2>10. Into(r, w, s, P)
    BY <2>4, <2>6, <2>7, <2>9 DEF Into
  <2>11. OtherBases(r, s, p) /\ s.base[p] # NONE
    BY <2>3, <2>5, <2>6, Sizes DEF OtherBases
  <2> QED BY <2>10, <2>11 DEF s
<1> QED BY <1>1, <1>2, <1>3

(* entry v of table t leads to a table, allocated when it is not there *)
EntryKept(r, w, s) ==
    \A h \in Frames, u \in Entries :
        w[h].kind # "free" /\ r.pt[h][u] # NONE => s.pt[h][u] = r.pt[h][u]

LinkedRole(w, t, v) ==
    IF w[t].kind = "root"
    THEN [kind |-> "l1", pid |-> w[t].pid, v2 |-> v, v1 |-> 0, v0 |-> 0]
    ELSE [kind |-> "leaf", pid |-> w[t].pid, v2 |-> w[t].v2, v1 |-> v, v0 |-> 0]

Links(a, x, s, t, v, f) ==
    /\ x[t].kind \in {"root", "l1"} /\ a.pt[t][v] = NONE /\ x[f] = LinkedRole(x, t, v)
    /\ \A u \in Entries : a.pt[f][u] = NONE
    /\ s.base = a.base /\ s.pt[t][v] = f
    /\ \A h \in Frames, u \in Entries : h # t \/ u # v => s.pt[h][u] = a.pt[h][u]

LEMMA LinkKeeps ==
    ASSUME NEW P, NEW a \in Mem, NEW x \in Roles, Shape(a, x, P), NEW s \in Mem,
           NEW t \in Frames, NEW v \in Entries, NEW f \in Frames, Links(a, x, s, t, v, f)
    PROVE  Keeps(a, s, P)
<1> USE DEF Links
<1> SUFFICES ASSUME NEW q \in P \intersect Bases, NEW g \in PageNo
             PROVE  PageFrame(s, q, g) = PageFrame(a, q, g)
  BY DEF Keeps
<1>1. g[1] \in Entries /\ g[2] \in Entries /\ g[3] \in Entries
  BY PageNoParts
<1>2. x[f].kind \in {"l1", "leaf"} /\ (x[t].kind = "l1" => x[f].kind = "leaf")
  BY SMT DEF LinkedRole
<1>3. f # t /\ (\A u \in Entries : s.pt[f][u] = NONE) /\ f # NONE
  BY <1>2, Sizes
<1>4. CASE a.base[q] = NONE
  BY <1>4 DEF PageFrame
<1>5. CASE a.base[q] # NONE
  <2>1. PathPlaced(a, x, q, g)
    BY <1>5, Path
  <2>2. CASE a.base[q] = t /\ g[1] = v
    <3>1. L1(a, q, g) = NONE /\ L1(s, q, g) = f
      BY <2>2 DEF L1
    <3>2. Leaf(s, q, g) = NONE
      BY <1>1, <1>3, <3>1, SMT DEF Leaf
    <3> QED BY <1>3, <1>5, <3>1, <3>2 DEF PageFrame
  <2>3. CASE ~(a.base[q] = t /\ g[1] = v)
    <3>1. L1(s, q, g) = L1(a, q, g)
      BY <1>1, <2>1, <2>3, SMT DEF L1, PathPlaced
    <3>2. CASE L1(a, q, g) = NONE
      BY <3>1, <3>2 DEF PageFrame
    <3>3. CASE L1(a, q, g) # NONE
      <4>1. L1(a, q, g) \in Frames
        BY <2>1, <3>3 DEF PathPlaced, UnderRoot
      <4>2. CASE L1(a, q, g) = t /\ g[2] = v
        <5>1. Leaf(a, q, g) = NONE /\ Leaf(s, q, g) = f
          BY <3>1, <4>2 DEF Leaf
        <5>2. s.pt[f][g[3]] = NONE
          BY <1>1, <1>3
        <5> QED BY <1>3, <1>5, <3>1, <3>3, <5>1, <5>2, SMT DEF PageFrame
      <4>3. CASE ~(L1(a, q, g) = t /\ g[2] = v)
        <5>1. Leaf(s, q, g) = Leaf(a, q, g)
          BY <1>1, <3>1, <4>1, <4>3, SMT DEF Leaf
        <5>2. CASE Leaf(a, q, g) = NONE
          BY <3>1, <5>1, <5>2 DEF PageFrame
        <5>3. CASE Leaf(a, q, g) # NONE
          <6>1. Leaf(a, q, g) \in Frames /\ Leaf(a, q, g) # t
            BY <2>1, <3>3, <5>3 DEF PathPlaced, UnderL1
          <6>2. s.pt[Leaf(a, q, g)][g[3]] = a.pt[Leaf(a, q, g)][g[3]]
            BY <1>1, <6>1
          <6> QED BY <3>1, <5>1, <6>2 DEF PageFrame
        <5> QED BY <5>2, <5>3
      <4> QED BY <4>2, <4>3
    <3> QED BY <3>2, <3>3
  <2> QED BY <2>2, <2>3
<1> QED BY <1>4, <1>5


LEMMA BelowStep ==
    ASSUME NEW P, NEW r \in Mem, NEW w \in Roles, Shape(r, w, P), NEW p \in Nat,
           NEW t \in Frames, NEW v \in Entries, w[t].kind \in {"root", "l1"}, w[t].pid = p
    PROVE  /\ Into(r, w, Below(r, p, t, v), P) /\ Below(r, p, t, v).base = r.base
           /\ EntryKept(r, w, Below(r, p, t, v))
           /\ ~Failed(Below(r, p, t, v)) => Below(r, p, t, v).pt[t][v] # NONE
<1> DEFINE a == NewTable(r, p)
           s == Below(r, p, t, v)
<1>1. CASE Failed(r) \/ r.pt[t][v] # NONE
  <2>1. s = r
    BY <1>1 DEF Below
  <2>2. Same(r, r)
    BY DEF Same
  <2>3. Into(r, w, r, P)
    BY <2>2, IntoSelf
  <2> QED BY <1>1, <2>1, <2>3 DEF EntryKept
<1>2. CASE ~(Failed(r) \/ r.pt[t][v] # NONE) /\ Failed(a)
  <2>1. s = a
    BY <1>2 DEF Below, SetEntry
  <2>2. /\ a \in Mem /\ Same(r, a) /\ a.base = r.base /\ a.table = r.table /\ a.pt = r.pt
    BY <1>2, NewTableFields, ZenonT(30)
  <2>3. Into(r, w, a, P)
    BY <2>2, IntoSelf
  <2> QED BY <1>2, <2>1, <2>2, <2>3 DEF EntryKept
<1>3. CASE ~(Failed(r) \/ r.pt[t][v] # NONE) /\ ~Failed(a)
  <2> DEFINE R == LinkedRole(w, t, v)
             f == a.got
             E == [a.pt EXCEPT ![t][v] = f]
  <2>0. w[t] \in Role
    BY DEF Roles
  <2>1. R \in Role /\ R.kind \in Kinds /\ R.pid = p
    BY <2>0, Sizes, SMT DEF Role, Kinds, Entries, LinkedRole
  <2>2. s = [a EXCEPT !.pt = E]
    BY <1>3 DEF Below, SetEntry
  <2> HIDE DEF R
  <2>3. TableTaken(r, w, a, P, R)
    BY <1>3, <2>1, NewTableShape
  <2>4. PICK x \in Roles : Shape(a, x, P) /\ Grows(w, x) /\ x[f] = R
    BY <2>3 DEF TableTaken
  <2>5. /\ a \in Mem /\ Same(r, a) /\ a.base = r.base /\ Keeps(r, a, P) /\ f \in Frames
        /\ \A u \in Entries : a.pt[f][u] = NONE
        /\ \A h \in Frames : w[h].kind # "free" => a.pt[h] = r.pt[h]
    BY <2>3 DEF TableTaken
  <2> HIDE DEF a, f
  <2>6. x[t] = w[t] /\ a.pt[t] = r.pt[t] /\ a.pt[t][v] = NONE
    BY <1>3, <2>4, <2>5 DEF Grows
  <2>7. x[f] = LinkedRole(x, t, v)
    BY <2>4, <2>6 DEF R, LinkedRole
  <2>8. /\ E \in Trees /\ E[t][v] = f
        /\ \A h \in Frames, u \in Entries : h # t \/ u # v => E[h][u] = a.pt[h][u]
    BY <2>5 DEF Mem, Trees, Entry
  <2> HIDE DEF E, s
  <2>9. /\ s \in Mem /\ Same(r, s) /\ s.base = a.base /\ s.table = a.table /\ s.pt = E
    BY <2>2, <2>5, <2>8 DEF Mem, Same
  <2>10. EntriesPlaced(s, x)
    <3> SUFFICES ASSUME NEW h \in Frames, NEW u \in Entries, s.pt[h][u] # NONE
                 PROVE  /\ x[h].kind = "root" => UnderRoot(x, h, u, s.pt[h][u])
                        /\ x[h].kind = "l1"   => UnderL1(x, h, u, s.pt[h][u])
                        /\ x[h].kind = "leaf" =>
                              s.pt[h][u] = Identity \/ UnderLeaf(x, h, u, s.pt[h][u])
      BY DEF EntriesPlaced
    <3>1. CASE h = t /\ u = v
      BY <2>5, <2>6, <2>7, <2>8, <2>9, <3>1, SMT DEF LinkedRole, UnderRoot, UnderL1
    <3>2. CASE ~(h = t /\ u = v)
      <4>1. s.pt[h][u] = a.pt[h][u]
        BY <2>8, <2>9, <3>2
      <4> QED BY <2>4, <4>1 DEF Shape, EntriesPlaced
    <3> QED BY <3>1, <3>2
  <2>11. Shape(s, x, P)
    BY <2>4, <2>9, <2>10, SMT DEF Shape, RolesOwned, RootsPlaced
  <2>12. Keeps(a, s, P)
    <3>1. Links(a, x, s, t, v, f)
      BY <2>5, <2>6, <2>7, <2>8, <2>9 DEF Links
    <3> QED BY <2>4, <2>5, <2>9, <3>1, LinkKeeps
  <2>13. Keeps(r, s, P)
    BY <2>5, <2>12 DEF Keeps
  <2>14. Into(r, w, s, P)
    BY <2>4, <2>9, <2>11, <2>13 DEF Into
  <2>15. EntryKept(r, w, s)
    BY <2>5, <2>6, <2>8, <2>9, SMT DEF EntryKept
  <2>16. s.base = r.base /\ s.pt[t][v] # NONE
    BY <2>5, <2>8, <2>9, Sizes
  <2> QED BY <2>14, <2>15, <2>16 DEF s
<1> QED BY <1>1, <1>2, <1>3


(* walk_page_tables: the tables of p down to the leaf table of page g *)
Reaches(s, p, g) == s.base[p] # NONE /\ L1(s, p, g) # NONE /\ Leaf(s, p, g) # NONE

LEMMA Level1Step ==
    ASSUME NEW P, NEW r \in Mem, NEW w \in Roles, Shape(r, w, P), NEW p \in P \intersect Bases,
           NEW g \in PageNo, ~Failed(r) => r.base[p] # NONE
    PROVE  /\ Into(r, w, Level1(r, p, g), P) /\ Level1(r, p, g).base = r.base
           /\ ~Failed(Level1(r, p, g)) => ~Failed(r) /\ L1(Level1(r, p, g), p, g) # NONE
<1> DEFINE s == Level1(r, p, g)
<1>1. CASE Failed(r)
  <2>1. s = r /\ Same(r, r)
    BY <1>1 DEF Level1, Same
  <2>2. Into(r, w, r, P)
    BY <2>1, IntoSelf
  <2> QED BY <1>1, <2>1, <2>2
<1>2. CASE ~Failed(r)
  <2> DEFINE t == r.base[p]
             v == g[1]
  <2>1. s = Below(r, p, t, v)
    BY <1>2 DEF Level1
  <2>2. PathPlaced(r, w, p, g)
    BY <1>2, Path
  <2>3. t \in Frames /\ v \in Entries /\ w[t].kind \in {"root", "l1"} /\ w[t].pid = p
    BY <2>2, PageNoParts DEF PathPlaced
  <2>4. p \in Nat
    BY Sizes, SMT DEF Bases
  <2> HIDE DEF t, v
  <2>5. /\ Into(r, w, s, P) /\ s.base = r.base /\ (~Failed(s) => s.pt[t][v] # NONE)
    BY <2>1, <2>3, <2>4, BelowStep, SMT
  <2> QED BY <1>2, <2>5 DEF L1, t, v
<1> QED BY <1>1, <1>2

LEMMA Level0Step ==
    ASSUME NEW P, NEW r \in Mem, NEW w \in Roles, Shape(r, w, P), NEW p \in P \intersect Bases,
           NEW g \in PageNo, ~Failed(r) => r.base[p] # NONE /\ L1(r, p, g) # NONE
    PROVE  /\ Into(r, w, Level0(r, p, g), P) /\ Level0(r, p, g).base = r.base
           /\ ~Failed(Level0(r, p, g)) => Reaches(Level0(r, p, g), p, g)
<1> DEFINE s == Level0(r, p, g)
<1>1. CASE Failed(r)
  <2>1. s = r /\ Same(r, r)
    BY <1>1 DEF Level0, Same
  <2>2. Into(r, w, r, P)
    BY <2>1, IntoSelf
  <2> QED BY <1>1, <2>1, <2>2
<1>2. CASE ~Failed(r)
  <2> DEFINE t == L1(r, p, g)
             v == g[2]
  <2>1. s = Below(r, p, t, v)
    BY <1>2 DEF Level0
  <2>2. PathPlaced(r, w, p, g)
    BY <1>2, Path
  <2>3. /\ t \in Frames /\ w[t].kind \in {"root", "l1"} /\ w[t].pid = p
        /\ r.base[p] \in Frames /\ w[r.base[p]].kind # "free"
    BY <1>2, <2>2 DEF PathPlaced, UnderRoot
  <2>4. p \in Nat /\ v \in Entries /\ g[1] \in Entries
    BY Sizes, PageNoParts, SMT DEF Bases
  <2> HIDE DEF t, v
  <2>5. /\ Into(r, w, s, P) /\ s.base = r.base /\ EntryKept(r, w, s)
        /\ (~Failed(s) => s.pt[t][v] # NONE)
    BY <2>1, <2>3, <2>4, BelowStep, SMT
  <2> HIDE DEF s
  <2>6. L1(s, p, g) = t /\ L1(s, p, g) # NONE
    <3>1. r.pt[r.base[p]][g[1]] # NONE
      BY <1>2 DEF L1
    <3>2. s.pt[r.base[p]][g[1]] = r.pt[r.base[p]][g[1]]
      BY <2>3, <2>4, <2>5, <3>1 DEF EntryKept
    <3> QED BY <2>5, <3>1, <3>2 DEF L1, t
  <2>7. ~Failed(s) => Reaches(s, p, g)
    BY <1>2, <2>5, <2>6 DEF Reaches, Leaf, v
  <2> QED BY <2>5, <2>7 DEF s
<1> QED BY <1>1, <1>2

LEMMA WalkStep ==
    ASSUME NEW P, NEW r \in Mem, NEW w \in Roles, Shape(r, w, P), NEW p \in P \intersect Bases,
           NEW g \in PageNo
    PROVE  /\ Into(r, w, walk_page_tables(r, p, g), P)
           /\ OtherBases(r, walk_page_tables(r, p, g), p)
           /\ ~Failed(walk_page_tables(r, p, g)) => Reaches(walk_page_tables(r, p, g), p, g)
<1> DEFINE a == Root(r, p)
           b == Level1(a, p, g)
           c == Level0(b, p, g)
<1>1. /\ Into(r, w, a, P) /\ OtherBases(r, a, p) /\ (~Failed(a) => a.base[p] # NONE)
  BY RootStep
<1>2. a \in Mem
  BY <1>1 DEF Into
<1> HIDE DEF a
<1>3. \A x \in Roles : Shape(a, x, P) =>
         /\ Into(a, x, b, P) /\ b.base = a.base
         /\ ~Failed(b) => ~Failed(a) /\ L1(b, p, g) # NONE
  BY <1>1, <1>2, Level1Step, ZenonT(30)
<1> HIDE DEF b
<1>4. Into(r, w, b, P)
  BY <1>1, <1>3, IntoTrans
<1>5. \E x \in Roles : Shape(a, x, P)
  BY <1>1 DEF Into
<1>6. /\ b \in Mem /\ b.base = a.base
      /\ ~Failed(b) => b.base[p] # NONE /\ L1(b, p, g) # NONE
  BY <1>1, <1>3, <1>4, <1>5 DEF Into
<1>7. \A x \in Roles : Shape(b, x, P) =>
         Into(b, x, c, P) /\ c.base = b.base /\ (~Failed(c) => Reaches(c, p, g))
  BY <1>6, Level0Step
<1> HIDE DEF c
<1>8. Into(r, w, c, P)
  BY <1>4, <1>7, IntoTrans
<1>9. \E x \in Roles : Shape(b, x, P)
  BY <1>4 DEF Into
<1>10. c.base = a.base /\ (~Failed(c) => Reaches(c, p, g))
  BY <1>6, <1>7, <1>9
<1>11. OtherBases(r, c, p)
  BY <1>1, <1>10 DEF OtherBases
<1> QED BY <1>8, <1>10, <1>11 DEF walk_page_tables, a, b, c


(* setup_identity_region and the regions of a process, before its pages *)
NoPages(r, p) == \A g \in PageNo : PageFrame(r, p, g) = {}

Laid(r, w, s, p, P) == Into(r, w, s, P) /\ OtherBases(r, s, p)

LEMMA LaidTrans ==
    ASSUME NEW P, NEW r, NEW w, NEW s, NEW t, NEW p, Laid(r, w, s, p, P),
           \A x \in Roles : Shape(s, x, P) => Laid(s, x, t, p, P)
    PROVE  Laid(r, w, t, p, P)
<1>1. Into(r, w, t, P)
  BY IntoTrans DEF Laid
<1>2. PICK x \in Roles : Shape(s, x, P)
  BY DEF Laid, Into
<1>3. OtherBases(r, s, p) /\ OtherBases(s, t, p)
  BY <1>2 DEF Laid
<1> QED BY <1>1, <1>3 DEF Laid, OtherBases

LEMMA LaidNoPages ==
    ASSUME NEW P, NEW r, NEW w, NEW s, NEW p \in P \intersect Bases,
           Laid(r, w, s, p, P), NoPages(r, p)
    PROVE  s \in Mem /\ NoPages(s, p)
BY DEF Laid, Into, Keeps, NoPages

(* the entries of one leaf table change, and lead to no other page *)
LEMMA IdentityStep ==
    ASSUME NEW P, NEW r \in Mem, NEW w \in Roles, Shape(r, w, P), NEW p \in P \intersect Bases,
           NEW g \in PageNo, NEW n \in Nat, ~Failed(r) => Reaches(r, p, g), NoPages(r, p)
    PROVE  Laid(r, w, SetIdentity(r, p, g, n), p, P)
<1> DEFINE s == SetIdentity(r, p, g, n)
<1>1. CASE Failed(r) \/ g[3] + n > NENTRIES
  <2>1. s = r \/ s = Fail(r)
    BY <1>1 DEF SetIdentity
  <2>2. s \in Mem /\ Same(r, s) /\ s.table = r.table /\ s.pt = r.pt /\ s.base = r.base
    BY <2>1, FailFields DEF Same
  <2>3. Into(r, w, s, P)
    BY <2>2, IntoSelf
  <2> QED BY <2>2, <2>3 DEF Laid, OtherBases
<1>2. CASE ~(Failed(r) \/ g[3] + n > NENTRIES)
  <2> DEFINE f == Leaf(r, p, g)
             D == [v \in DOMAIN r.pt[f] |->
                      IF v \in g[3]..(g[3] + n - 1) THEN Identity ELSE r.pt[f][v]]
             E == [r.pt EXCEPT ![f] = D]
  <2>1. r.base[p] # NONE /\ L1(r, p, g) # NONE /\ f # NONE
    BY <1>2 DEF Reaches
  <2>2. PathPlaced(r, w, p, g)
    BY <2>1, Path
  <2>3. f \in Frames /\ w[f].kind = "leaf" /\ w[f].pid = p
    BY <2>1, <2>2 DEF PathPlaced, UnderRoot, UnderL1
  <2>4. s = [r EXCEPT !.pt = E]
    BY <1>2 DEF SetIdentity
  <2> HIDE DEF f
  <2>5. r.pt \in Trees /\ r.pt[f] \in [Entries -> Entry]
    BY <2>3 DEF Mem, Trees
  <2>6. /\ D \in [Entries -> Entry]
        /\ \A v \in Entries : D[v] = r.pt[f][v] \/ D[v] = Identity
    BY <2>5 DEF Entry
  <2> HIDE DEF D
  <2>7. E \in Trees /\ E[f] = D /\ \A h \in Frames \ {f} : E[h] = r.pt[h]
    BY <2>3, <2>5, <2>6 DEF Trees
  <2> HIDE DEF E, s
  <2>8. s \in Mem /\ Same(r, s) /\ s.pt = E /\ s.base = r.base /\ s.table = r.table
    BY <2>4, <2>7 DEF Mem, Same
  <2>9. EntriesPlaced(s, w)
    <3> SUFFICES ASSUME NEW t \in Frames, NEW v \in Entries, s.pt[t][v] # NONE
                 PROVE  /\ w[t].kind = "root" => UnderRoot(w, t, v, s.pt[t][v])
                        /\ w[t].kind = "l1"   => UnderL1(w, t, v, s.pt[t][v])
                        /\ w[t].kind = "leaf" =>
                              s.pt[t][v] = Identity \/ UnderLeaf(w, t, v, s.pt[t][v])
      BY DEF EntriesPlaced
    <3>1. CASE t = f /\ s.pt[t][v] = Identity
      BY <2>3, <3>1
    <3>2. CASE s.pt[t][v] = r.pt[t][v]
      BY <3>2 DEF Shape, EntriesPlaced
    <3> QED BY <2>6, <2>7, <2>8, <3>1, <3>2
  <2>10. Shape(s, w, P) /\ Grows(w, w)
    BY <2>8, <2>9, SMT DEF Shape, RolesOwned, RootsPlaced, Grows
  <2>11. Keeps(r, s, P)
    <3> SUFFICES ASSUME NEW q \in P \intersect Bases, NEW h \in PageNo
                 PROVE  PageFrame(s, q, h) = PageFrame(r, q, h)
      BY DEF Keeps
    <3>0. h[3] \in Entries
      BY PageNoParts
    <3>1. CASE r.base[q] = NONE
      BY <2>8, <3>1 DEF PageFrame
    <3>2. CASE r.base[q] # NONE
      <4>1. PathPlaced(r, w, q, h)
        BY <3>2, Path
      <4>2. L1(s, q, h) = L1(r, q, h)
        BY <2>3, <2>7, <2>8, <4>1 DEF PathPlaced, L1
      <4>3. CASE L1(r, q, h) = NONE
        BY <2>8, <4>2, <4>3 DEF PageFrame
      <4>4. CASE L1(r, q, h) # NONE
        <5>1. L1(r, q, h) \in Frames /\ L1(r, q, h) # f /\ w[L1(r, q, h)].pid = q
          BY <2>3, <4>1, <4>4 DEF PathPlaced, UnderRoot
        <5>2. Leaf(s, q, h) = Leaf(r, q, h)
          BY <2>7, <2>8, <4>2, <5>1 DEF Leaf
        <5>3. CASE Leaf(r, q, h) = NONE
          BY <2>8, <4>2, <5>2, <5>3 DEF PageFrame
        <5>4. CASE Leaf(r, q, h) # NONE
          <6>1. Leaf(r, q, h) \in Frames /\ w[Leaf(r, q, h)].pid = q
            BY <4>1, <4>4, <5>1, <5>4 DEF PathPlaced, UnderL1
          <6>2. CASE Leaf(r, q, h) = f
            <7>1. PageFrame(r, q, h) = {}
              BY <2>3, <6>1, <6>2 DEF NoPages
            <7>2. r.pt[f][h[3]] \in {NONE, Identity}
              BY <3>2, <4>4, <5>4, <6>2, <7>1 DEF PageFrame
            <7>3. s.pt[f][h[3]] \in {NONE, Identity}
              BY <2>6, <2>7, <2>8, <3>0, <7>2
            <7> QED BY <4>2, <5>2, <6>2, <7>1, <7>3 DEF PageFrame
          <6>3. CASE Leaf(r, q, h) # f
            <7>1. s.pt[Leaf(r, q, h)] = r.pt[Leaf(r, q, h)]
              BY <2>7, <2>8, <6>1, <6>3
            <7> QED BY <2>8, <4>2, <5>2, <7>1 DEF PageFrame
          <6> QED BY <6>2, <6>3
        <5> QED BY <5>3, <5>4
      <4> QED BY <4>3, <4>4
    <3> QED BY <3>1, <3>2
  <2>12. Into(r, w, s, P)
    BY <2>8, <2>10, <2>11 DEF Into
  <2> QED BY <2>8, <2>12 DEF Laid, OtherBases, s
<1> QED BY <1>1, <1>2


LEMMA RegionStep ==
    ASSUME NEW P, NEW r \in Mem, NEW w \in Roles, Shape(r, w, P), NEW p \in P \intersect Bases,
           NEW region \in Region, NoPages(r, p)
    PROVE  Laid(r, w, setup_identity_region(r, p, region), p, P)
<1> DEFINE g == region.first
           n == region.npages
           a == walk_page_tables(r, p, g)
           s == SetIdentity(a, p, g, n)
<1>1. g \in PageNo /\ n \in Nat
  BY DEF Region
<1> HIDE DEF g, n
<1>2. Laid(r, w, a, p, P) /\ (~Failed(a) => Reaches(a, p, g))
  BY <1>1, WalkStep DEF Laid
<1>3. a \in Mem /\ NoPages(a, p)
  BY <1>2, LaidNoPages
<1> HIDE DEF a
<1>4. \A x \in Roles : Shape(a, x, P) => Laid(a, x, s, p, P)
  BY <1>1, <1>2, <1>3, IdentityStep
<1> HIDE DEF s
<1>5. Laid(r, w, s, p, P)
  BY <1>2, <1>4, LaidTrans
<1> QED BY <1>5 DEF setup_identity_region, s, a, g, n

(* one more region after those that are there *)
LEMMA RegionAfter ==
    ASSUME NEW P, NEW r \in Mem, NEW w \in Roles, NEW p \in P \intersect Bases,
           NEW region \in Region, NoPages(r, p), NEW s, Laid(r, w, s, p, P)
    PROVE  Laid(r, w, setup_identity_region(s, p, region), p, P)
<1> DEFINE t == setup_identity_region(s, p, region)
<1>1. s \in Mem /\ NoPages(s, p)
  BY LaidNoPages
<1>2. \A x \in Roles : Shape(s, x, P) => Laid(s, x, t, p, P)
  BY <1>1, RegionStep
<1> HIDE DEF t
<1>3. Laid(r, w, t, p, P)
  BY <1>2, LaidTrans
<1> QED BY <1>3 DEF t

LEMMA IdentityMappingStep ==
    ASSUME NEW P, NEW r \in Mem, NEW w \in Roles, Shape(r, w, P), NEW p \in P \intersect Bases,
           NoPages(r, p)
    PROVE  Laid(r, w, pagetable_identity_mapping(r, p), p, P)
<1>0. /\ UART0 \in Region /\ SMHC0 \in Region /\ Kernel \in Region
      /\ FrameCache \in Region /\ Memory \in Region
  BY MmuAssumption
<1> DEFINE u == setup_identity_region(r, p, UART0)
           d == setup_identity_region(u, p, SMHC0)
           k == setup_identity_region(d, p, Kernel)
<1>1. Laid(r, w, u, p, P)
  BY <1>0, RegionStep
<1> HIDE DEF u
<1>2. Laid(r, w, d, p, P)
  BY <1>0, <1>1, RegionAfter
<1> HIDE DEF d
<1>3. Laid(r, w, setup_identity_region(d, p, Memory), p, P)
  BY <1>0, <1>2, RegionAfter
<1>4. Laid(r, w, k, p, P)
  BY <1>0, <1>2, RegionAfter
<1> HIDE DEF k
<1>5. Laid(r, w, setup_identity_region(k, p, FrameCache), p, P)
  BY <1>0, <1>4, RegionAfter
<1>6. DeviceRegions(r, p) = d /\ KernelRegions(r, p) = k
  BY DEF DeviceRegions, KernelRegions, u, d, k
<1> QED BY <1>3, <1>4, <1>5, <1>6 DEF pagetable_identity_mapping

(* page_table_map: page g of p leads to frame f, and nothing else changes *)
PageRole(p, g) == [kind |-> "page", pid |-> p, v2 |-> g[1], v1 |-> g[2], v0 |-> g[3]]

Mapped(r, s, P, p, g, f) ==
    /\ PageFrame(s, p, g) = {f}
    /\ \A q \in P \intersect Bases, h \in PageNo :
          q # p \/ h # g => PageFrame(s, q, h) = PageFrame(r, q, h)

LEMMA SetLeafStep ==
    ASSUME NEW P, NEW r \in Mem, NEW w \in Roles, Shape(r, w, P), NEW p \in P \intersect Bases,
           NEW g \in PageNo, ~Failed(r), Reaches(r, p, g),
           NEW f \in Frames, w[f] = PageRole(p, g)
    PROVE  /\ SetLeaf(r, p, g, f) \in Mem /\ Same(r, SetLeaf(r, p, g, f))
           /\ SetLeaf(r, p, g, f).base = r.base /\ SetLeaf(r, p, g, f).got = r.got
           /\ Shape(SetLeaf(r, p, g, f), w, P)
           /\ Mapped(r, SetLeaf(r, p, g, f), P, p, g, f)
<1> DEFINE s == SetLeaf(r, p, g, f)
           t == Leaf(r, p, g)
           v == g[3]
           E == [r.pt EXCEPT ![t][v] = f]
<1>0. g[1] \in Entries /\ g[2] \in Entries /\ v \in Entries
  BY PageNoParts
<1>1. r.base[p] # NONE /\ L1(r, p, g) # NONE /\ t # NONE
  BY DEF Reaches
<1>2. PathPlaced(r, w, p, g)
  BY <1>1, Path
<1>3. /\ t \in Frames /\ w[t].kind = "leaf" /\ w[t].pid = p
      /\ w[t].v2 = g[1] /\ w[t].v1 = g[2]
      /\ r.base[p] \in Frames /\ r.base[p] # t /\ L1(r, p, g) \in Frames /\ L1(r, p, g) # t
  BY <1>1, <1>2 DEF PathPlaced, UnderRoot, UnderL1
<1>4. s = [r EXCEPT !.pt = E]
  BY DEF SetLeaf
<1> HIDE DEF t, v
<1>5. /\ E \in Trees /\ E[t][v] = f
      /\ \A h \in Frames, u \in Entries : h # t \/ u # v => E[h][u] = r.pt[h][u]
      /\ \A h \in Frames \ {t} : E[h] = r.pt[h]
  BY <1>0, <1>3 DEF Mem, Trees, Entry
<1> HIDE DEF E, s
<1>6. /\ s \in Mem /\ Same(r, s) /\ s.pt = E /\ s.base = r.base /\ s.table = r.table
      /\ s.got = r.got
  BY <1>4, <1>5 DEF Mem, Same
<1>7. EntriesPlaced(s, w)
  <2> SUFFICES ASSUME NEW h \in Frames, NEW u \in Entries, s.pt[h][u] # NONE
               PROVE  /\ w[h].kind = "root" => UnderRoot(w, h, u, s.pt[h][u])
                      /\ w[h].kind = "l1"   => UnderL1(w, h, u, s.pt[h][u])
                      /\ w[h].kind = "leaf" =>
                            s.pt[h][u] = Identity \/ UnderLeaf(w, h, u, s.pt[h][u])
    BY DEF EntriesPlaced
  <2>1. CASE h = t /\ u = v
    <3>1. UnderLeaf(w, t, v, f)
      BY <1>3, SMT DEF UnderLeaf, PageRole, v
    <3> QED BY <1>3, <1>5, <1>6, <2>1, <3>1
  <2>2. CASE h # t \/ u # v
    <3>1. s.pt[h][u] = r.pt[h][u]
      BY <1>5, <1>6, <2>2
    <3> QED BY <3>1 DEF Shape, EntriesPlaced
  <2> QED BY <2>1, <2>2
<1>8. Shape(s, w, P)
  BY <1>6, <1>7, SMT DEF Shape, RolesOwned, RootsPlaced
<1>9. PageFrame(s, p, g) = {f}
  <2>1. L1(s, p, g) = L1(r, p, g)
    BY <1>3, <1>5, <1>6, SMT DEF L1
  <2>2. Leaf(s, p, g) = t
    <3>1. Leaf(s, p, g) = Leaf(r, p, g)
      BY <1>3, <1>5, <1>6, <2>1, SMT DEF Leaf
    <3> QED BY <3>1 DEF t
  <2>3. s.pt[t][g[3]] = f
    BY <1>5, <1>6 DEF v
  <2> QED BY <1>1, <1>6, <2>1, <2>2, <2>3, Sizes DEF PageFrame
<1>10. ASSUME NEW q \in P \intersect Bases, NEW h \in PageNo, q # p \/ h # g
       PROVE  PageFrame(s, q, h) = PageFrame(r, q, h)
  <2>0. h[1] \in Entries /\ h[2] \in Entries /\ h[3] \in Entries
    BY PageNoParts
  <2>1. CASE r.base[q] = NONE
    BY <1>6, <2>1 DEF PageFrame
  <2>2. CASE r.base[q] # NONE
    <3>1. PathPlaced(r, w, q, h)
      BY <2>2, Path
    <3>2. L1(s, q, h) = L1(r, q, h)
      <4>1. r.base[q] \in Frames \ {t}
        BY <1>3, <3>1 DEF PathPlaced
      <4> QED BY <1>5, <1>6, <4>1 DEF L1
    <3>3. CASE L1(r, q, h) = NONE
      BY <1>6, <3>2, <3>3 DEF PageFrame
    <3>4. CASE L1(r, q, h) # NONE
      <4>1. /\ L1(r, q, h) \in Frames /\ L1(r, q, h) # t /\ w[L1(r, q, h)].pid = q
            /\ w[L1(r, q, h)].v2 = h[1]
        BY <1>3, <3>1, <3>4 DEF PathPlaced, UnderRoot
      <4>2. Leaf(s, q, h) = Leaf(r, q, h)
        BY <1>5, <1>6, <3>2, <4>1 DEF Leaf
      <4>3. CASE Leaf(r, q, h) = NONE
        BY <1>6, <3>2, <4>2, <4>3 DEF PageFrame
      <4>4. CASE Leaf(r, q, h) # NONE
        <5>1. /\ Leaf(r, q, h) \in Frames /\ w[Leaf(r, q, h)].pid = q
              /\ w[Leaf(r, q, h)].v2 = h[1] /\ w[Leaf(r, q, h)].v1 = h[2]
          BY <3>1, <3>4, <4>1, <4>4 DEF PathPlaced, UnderL1
        <5>2. Leaf(r, q, h) # t \/ h[3] # v
          BY <1>3, <1>10, <5>1, PageNoEqual DEF v
        <5>3. s.pt[Leaf(r, q, h)][h[3]] = r.pt[Leaf(r, q, h)][h[3]]
          BY <1>5, <1>6, <2>0, <5>1, <5>2
        <5> QED BY <1>6, <3>2, <4>2, <5>3 DEF PageFrame
      <4> QED BY <4>3, <4>4
    <3> QED BY <3>3, <3>4
  <2> QED BY <2>1, <2>2
<1> QED BY <1>6, <1>8, <1>9, <1>10 DEF Mapped, s


PageMapped(r, w, s, P, p, g, f) ==
    /\ s \in Mem /\ Same(r, s) /\ OtherBases(r, s, p)
    /\ \E x \in Roles : Shape(s, x, P) /\ Grows(w, x)
    /\ \/ Failed(s) /\ Keeps(r, s, P)
       \/ ~Failed(s) /\ p \in Bases /\ Mapped(r, s, P, p, g, f)

LEMMA PageTableMapStep ==
    ASSUME NEW P, NEW r \in Mem, NEW w \in Roles, Shape(r, w, P), NEW p \in P, p \in Nat,
           NEW g \in PageNo, NEW f \in Frames, w[f] = PageRole(p, g)
    PROVE  PageMapped(r, w, page_table_map(r, p, g, f), P, p, g, f)
<1> DEFINE s == page_table_map(r, p, g, f)
<1>1. CASE p >= NBASES
  <2>1. s = Fail(r)
    BY <1>1 DEF page_table_map
  <2>2. /\ s \in Mem /\ Same(r, s) /\ s.table = r.table /\ s.pt = r.pt /\ s.base = r.base
        /\ Failed(s)
    BY <2>1, FailFields
  <2>3. Into(r, w, s, P)
    BY <2>2, IntoSelf
  <2> QED BY <2>2, <2>3 DEF Into, PageMapped, OtherBases
<1>2. CASE ~(p >= NBASES)
  <2> DEFINE a == WithTables(r, p)
             b == walk_page_tables(a, p, g)
             c == SetLeaf(b, p, g, f)
  <2>1. p \in P \intersect Bases
    BY <1>2, Sizes, SMT DEF Bases
  <2>2. Laid(r, w, a, p, P)
    <3>1. CASE r.base[p] = NONE
      <4>1. NoPages(r, p)
        BY <3>1 DEF NoPages, PageFrame
      <4>2. Laid(r, w, pagetable_identity_mapping(r, p), p, P)
        BY <2>1, <4>1, IdentityMappingStep
      <4> QED BY <3>1, <4>2 DEF WithTables
    <3>2. CASE r.base[p] # NONE
      <4>1. a = r /\ Same(r, r)
        BY <3>2 DEF WithTables, Same
      <4>2. Into(r, w, r, P)
        BY <4>1, IntoSelf
      <4> QED BY <4>1, <4>2 DEF Laid, OtherBases
    <3> QED BY <3>1, <3>2
  <2>3. a \in Mem
    BY <2>2 DEF Laid, Into
  <2> HIDE DEF a
  <2>4. \A x \in Roles : Shape(a, x, P) =>
           Laid(a, x, b, p, P) /\ (~Failed(b) => Reaches(b, p, g))
    BY <2>1, <2>3, WalkStep DEF Laid
  <2>5. PICK y \in Roles : Shape(a, y, P)
    BY <2>2 DEF Laid, Into
  <2>6. ~Failed(b) => Reaches(b, p, g)
    BY <2>4, <2>5
  <2> HIDE DEF b
  <2>7. Laid(r, w, b, p, P)
    BY <2>2, <2>4, LaidTrans
  <2>8. PICK x \in Roles : Shape(b, x, P) /\ Grows(w, x)
    BY <2>7 DEF Laid, Into
  <2>9. b \in Mem /\ Same(r, b) /\ OtherBases(r, b, p) /\ Keeps(r, b, P)
    BY <2>7 DEF Laid, Into
  <2>10. s = c
    BY <1>2 DEF page_table_map, a, b
  <2>11. CASE Failed(b)
    <3>1. s = b
      BY <2>10, <2>11 DEF SetLeaf
    <3> QED BY <2>8, <2>9, <2>11, <3>1 DEF PageMapped
  <2>12. CASE ~Failed(b)
    <3>1. x[f] = PageRole(p, g)
      BY <2>8, SMT DEF Grows, PageRole
    <3>2. /\ c \in Mem /\ Same(b, c) /\ c.base = b.base /\ c.got = b.got
          /\ Shape(c, x, P) /\ Mapped(b, c, P, p, g, f)
      BY <2>1, <2>6, <2>8, <2>9, <2>12, <3>1, SetLeafStep, SMT
    <3> HIDE DEF c, s
    <3>3. Mapped(r, c, P, p, g, f)
      BY <2>9, <3>2 DEF Mapped, Keeps
    <3>4. Same(r, c) /\ OtherBases(r, c, p) /\ ~Failed(c)
      BY <2>9, <2>12, <3>2 DEF Same, OtherBases, Failed
    <3> QED BY <2>1, <2>8, <2>10, <3>2, <3>3, <3>4 DEF PageMapped, s
  <2> QED BY <2>11, <2>12
<1> QED BY <1>1, <1>2

(* mmu_alloc, for a page *)
LEMMA PageAllocStep ==
    ASSUME NEW P, NEW r \in Mem, NEW w \in Roles, Shape(r, w, P), NEW p \in Nat,
           NEW g \in PageNo, ~Failed(mmu_alloc(r))
    PROVE  /\ mmu_alloc(r).got \in Frames /\ w[mmu_alloc(r).got].kind = "free"
           /\ RoleTaken(r, w, mmu_alloc(r), P, mmu_alloc(r).got, PageRole(p, g))
<1> DEFINE a == mmu_alloc(r)
           R == PageRole(p, g)
<1>1. a \in Mem /\ a.pt = r.pt /\ a.base = r.base
  BY AllocFields
<1>2. PICK f \in Frames : /\ ~r.table[f].use /\ a.got = f
                          /\ a.table[f].use /\ a.table[f].pid = r.table[f].pid
                          /\ \A h \in Frames \ {f} : a.table[h] = r.table[h]
  BY AllocFields
<1> HIDE DEF a
<1>3. R \in Role
  BY PageNoParts DEF Role, PageRole
<1>4. r.table[f].pid = 0 /\ w[f].kind = "free"
  BY <1>2 DEF Shape, RolesOwned
<1>5. R.kind = "page" /\ R.kind \notin Kinds
  BY DEF PageRole, Kinds
<1> HIDE DEF R
<1>6. TakesRole(r, a, f, R)
  BY <1>1, <1>2, <1>4, <1>5 DEF TakesRole
<1>7. RoleTaken(r, w, a, P, f, R)
  BY <1>1, <1>3, <1>6, Fresh
<1> QED BY <1>2, <1>4, <1>7 DEF a, R

(* mmu_free: the tables of p lose their roles; its pages keep theirs *)
LEMMA FreeFields ==
    ASSUME NEW r \in Mem, NEW p
    PROVE  /\ mmu_free(r, p) \in Mem /\ Same(r, mmu_free(r, p))
           /\ mmu_free(r, p).pt = r.pt /\ mmu_free(r, p).base = r.base
           /\ mmu_free(r, p).got = r.got
           /\ \A f \in Frames : mmu_free(r, p).table[f] =
                 IF Owns(r, p, f) THEN FreeFrame ELSE r.table[f]
<1> DEFINE T == [f \in Frames |-> IF Owns(r, p, f) THEN FreeFrame ELSE r.table[f]]
           s == mmu_free(r, p)
<1>1. T \in Owners
  BY DEF Mem, Owners, Mapping, FreeFrame
<1>2. s = [r EXCEPT !.table = T]
  BY DEF mmu_free
<1> HIDE DEF T, s
<1>3. /\ s \in Mem /\ Same(r, s) /\ s.pt = r.pt /\ s.base = r.base /\ s.got = r.got
      /\ s.table = T
  BY <1>1, <1>2 DEF Mem, Same
<1> QED BY <1>3 DEF T, s

LEMMA FreeStep ==
    ASSUME NEW P, NEW r \in Mem, NEW w \in Roles, Shape(r, w, P), NEW p \in Nat \ {0}
    PROVE  /\ \E x \in Roles : Shape(mmu_free(r, p), x, P \ {p})
           /\ Keeps(r, mmu_free(r, p), P)
<1> DEFINE s == mmu_free(r, p)
           Gone(f) == w[f].kind \in Kinds /\ w[f].pid = p
           None == [kind |-> "free", pid |-> 0, v2 |-> 0, v1 |-> 0, v0 |-> 0]
           x == [f \in Frames |-> IF Gone(f) THEN None ELSE w[f]]
<1>1. /\ s \in Mem /\ s.pt = r.pt /\ s.base = r.base
      /\ \A f \in Frames : s.table[f] = IF Owns(r, p, f) THEN FreeFrame ELSE r.table[f]
  BY FreeFields
<1>2. None \in Role /\ None.kind = "free"
  BY Sizes, SMT DEF Role, Entries
<1> HIDE DEF s, None
<1>3. x \in Roles /\ \A f \in Frames : x[f] = IF Gone(f) THEN None ELSE w[f]
  BY <1>2 DEF Roles
<1> HIDE DEF x
<1>4. RolesOwned(s, x)
  <2> SUFFICES ASSUME NEW f \in Frames
               PROVE  /\ x[f].kind # "free" => s.table[f].use
                      /\ x[f].kind \in Kinds => s.table[f].pid = x[f].pid
                      /\ x[f].kind = "page" => s.table[f].pid = 0
                      /\ ~s.table[f].use => s.table[f].pid = 0
    BY DEF RolesOwned
  <2>1. /\ w[f].kind # "free" => r.table[f].use
        /\ w[f].kind \in Kinds => r.table[f].pid = w[f].pid
        /\ w[f].kind = "page" => r.table[f].pid = 0
        /\ ~r.table[f].use => r.table[f].pid = 0
    BY DEF Shape, RolesOwned
  <2>2. w[f].kind \in Kinds \union {"free", "page"}
    BY DEF Roles, Role
  <2>3. CASE Owns(r, p, f)
    <3>1. x[f].kind = "free"
      BY <1>2, <1>3, <2>1, <2>2, <2>3 DEF Owns
    <3>2. s.table[f] = FreeFrame
      BY <1>1, <2>3
    <3> QED BY <3>1, <3>2, SMT DEF FreeFrame, Kinds
  <2>4. CASE ~Owns(r, p, f)
    <3>1. s.table[f] = r.table[f]
      BY <1>1, <2>4
    <3>2. ~Gone(f)
      BY <2>1, <2>4 DEF Owns, Kinds
    <3> QED BY <1>3, <2>1, <3>1, <3>2
  <2> QED BY <2>3, <2>4
<1>5. RootsPlaced(s, x, P \ {p})
  <2> SUFFICES ASSUME NEW q \in (P \ {p}) \intersect Bases, s.base[q] # NONE
               PROVE  x[s.base[q]].kind = "root" /\ x[s.base[q]].pid = q
    BY DEF RootsPlaced
  <2>1. s.base[q] \in Frames /\ w[s.base[q]].kind = "root" /\ w[s.base[q]].pid = q
    BY <1>1, SMT DEF Mem, Roots, Shape, RootsPlaced
  <2> QED BY <1>3, <2>1
<1>6. EntriesPlaced(s, x)
  <2> SUFFICES ASSUME NEW t \in Frames, NEW v \in Entries, s.pt[t][v] # NONE
               PROVE  /\ x[t].kind = "root" => UnderRoot(x, t, v, s.pt[t][v])
                      /\ x[t].kind = "l1"   => UnderL1(x, t, v, s.pt[t][v])
                      /\ x[t].kind = "leaf" =>
                            s.pt[t][v] = Identity \/ UnderLeaf(x, t, v, s.pt[t][v])
    BY DEF EntriesPlaced
  <2>1. CASE Gone(t)
    BY <1>2, <1>3, <2>1
  <2>2. CASE ~Gone(t)
    <3>1. /\ w[t].kind = "root" => UnderRoot(w, t, v, s.pt[t][v])
          /\ w[t].kind = "l1"   => UnderL1(w, t, v, s.pt[t][v])
          /\ w[t].kind = "leaf" =>
                s.pt[t][v] = Identity \/ UnderLeaf(w, t, v, s.pt[t][v])
      BY <1>1 DEF Shape, EntriesPlaced
    <3>2. x[t] = w[t]
      BY <1>3, <2>2
    <3>3. ASSUME w[t].kind \in Kinds, NEW f \in Frames, w[f].pid = w[t].pid
          PROVE  x[f] = w[f]
      BY <1>3, <2>2, <3>3
    <3> QED BY <3>1, <3>2, <3>3 DEF UnderRoot, UnderL1, UnderLeaf, Kinds
  <2> QED BY <2>1, <2>2
<1>7. Keeps(r, s, P)
  BY <1>1 DEF Keeps, PageFrame, L1, Leaf
<1> QED BY <1>3, <1>4, <1>5, <1>6, <1>7 DEF Shape, s

-----------------------------------------------------------------------------
(* The frames of the pages of every process, from memory r with the        *)
(* processes E                                                             *)

HeldFor(r, E, p, g) ==
    IF r.translation = "SOFT_TLB"
    THEN {f \in Frames : Owns(r, p, f) /\ r.table[f].page = g}
    ELSE IF p \notin E \/ p >= NBASES THEN {}
    ELSE PageFrame(r, p, g)

(* soft_tlb_map gives every frame an owner and a page of its own *)
SoftOwned(r, E) ==
    /\ \A f \in Frames : r.table[f].use => r.table[f].pid \in E /\ r.table[f].page \in Pages
    /\ \A f, h \in Frames :
          /\ r.table[f].use /\ r.table[h].use
          /\ r.table[f].pid = r.table[h].pid /\ r.table[f].page = r.table[h].page
          => f = h

(* with page tables every frame has its role, and the processes still to   *)
(* come have no root                                                       *)
TreesPlaced(r, E, n) ==
    /\ \E w \in Roles : Shape(r, w, E \union {0})
    /\ \A q \in Bases : q > n => r.base[q] = NONE

FramesKept(r, E, n) ==
    IF r.translation = "SOFT_TLB" THEN SoftOwned(r, E) ELSE TreesPlaced(r, E, n)

LEMMA PagesArePageNo == Pages \in SUBSET PageNo
BY MmuAssumption, SMT DEF Pages, Range

PagePlaced(r, E, w, a, b, f) ==
    /\ a \in E /\ f \in Frames /\ f = r.pt[Leaf(r, a, b)][b[3]]
    /\ w[f].kind = "page" /\ w[f].pid = a
    /\ w[f].v2 = b[1] /\ w[f].v1 = b[2] /\ w[f].v0 = b[3]

LEMMA PageHasRole ==
    ASSUME NEW r \in Mem, NEW E \in SUBSET Nat, r.translation # "SOFT_TLB",
           NEW w \in Roles, Shape(r, w, E \union {0}),
           NEW a \in Nat, NEW b \in Pages, NEW f \in HeldFor(r, E, a, b)
    PROVE  PagePlaced(r, E, w, a, b, f)
<1>1. a \in E /\ ~(a >= NBASES) /\ f \in PageFrame(r, a, b)
  BY DEF HeldFor
<1>2. a \in (E \union {0}) \intersect Bases /\ b \in PageNo
  BY <1>1, Sizes, PagesArePageNo, SMT DEF Bases
<1>3. /\ r.base[a] # NONE /\ L1(r, a, b) # NONE /\ Leaf(r, a, b) # NONE
      /\ f = r.pt[Leaf(r, a, b)][b[3]]
  BY <1>1 DEF PageFrame
<1>4. PathPlaced(r, w, a, b)
  BY <1>2, <1>3, Path
<1>5. /\ UnderLeaf(w, Leaf(r, a, b), b[3], f) /\ UnderL1(w, L1(r, a, b), b[2], Leaf(r, a, b))
      /\ UnderRoot(w, r.base[a], b[1], L1(r, a, b)) /\ w[r.base[a]].pid = a
  BY <1>1, <1>3, <1>4 DEF PathPlaced
<1>6. /\ f \in Frames /\ w[f].kind = "page" /\ w[f].pid = a
      /\ w[f].v2 = b[1] /\ w[f].v1 = b[2] /\ w[f].v0 = b[3]
  BY <1>5 DEF UnderLeaf, UnderL1, UnderRoot
<1> QED BY <1>1, <1>3, <1>6 DEF PagePlaced

(* a page has at most one frame, and a frame is at most one page of one    *)
(* process                                                                 *)
LEMMA OneFrame ==
    ASSUME NEW r \in Mem, NEW E \in SUBSET Nat, NEW n \in Nat, FramesKept(r, E, n),
           NEW p \in Nat, NEW q \in Nat, NEW g \in Pages, NEW h \in Pages
    PROVE  /\ HeldFor(r, E, p, g) \subseteq Frames
           /\ HeldFor(r, E, p, g) # {} => p \in E
           /\ \A f \in HeldFor(r, E, p, g), k \in HeldFor(r, E, p, g) : f = k
           /\ \A f \in HeldFor(r, E, p, g) \intersect HeldFor(r, E, q, h) : p = q /\ g = h
<1>1. CASE r.translation = "SOFT_TLB"
  <2>1. SoftOwned(r, E)
    BY <1>1 DEF FramesKept
  <2>2. \A a \in Nat, b \in Pages :
           HeldFor(r, E, a, b) = {f \in Frames : Owns(r, a, f) /\ r.table[f].page = b}
    BY <1>1 DEF HeldFor
  <2> QED BY <2>1, <2>2, SMT DEF SoftOwned, Owns
<1>2. CASE r.translation # "SOFT_TLB"
  <2>1. PICK w \in Roles : Shape(r, w, E \union {0})
    BY <1>2 DEF FramesKept, TreesPlaced
  <2>2. ASSUME NEW a \in Nat, NEW b \in Pages, NEW f \in HeldFor(r, E, a, b)
        PROVE  PagePlaced(r, E, w, a, b, f)
    BY <1>2, <2>1, <2>2, PageHasRole
  <2>3. HeldFor(r, E, p, g) \subseteq Frames /\ (HeldFor(r, E, p, g) # {} => p \in E)
    BY <2>2 DEF PagePlaced
  <2>4. \A f \in HeldFor(r, E, p, g), k \in HeldFor(r, E, p, g) : f = k
    BY <2>2 DEF PagePlaced
  <2>5. ASSUME NEW f \in HeldFor(r, E, p, g) \intersect HeldFor(r, E, q, h)
        PROVE  p = q /\ g = h
    <3>1. /\ w[f].pid = p /\ w[f].v2 = g[1] /\ w[f].v1 = g[2] /\ w[f].v0 = g[3]
      BY <2>2, <2>5, SMT DEF PagePlaced
    <3>2. /\ w[f].pid = q /\ w[f].v2 = h[1] /\ w[f].v1 = h[2] /\ w[f].v0 = h[3]
      BY <2>2, <2>5, SMT DEF PagePlaced
    <3> QED BY <3>1, <3>2, PagesArePageNo, PageNoEqual
  <2> QED BY <2>3, <2>4, <2>5
<1> QED BY <1>1, <1>2

-----------------------------------------------------------------------------
(* The inductive invariant                                                 *)

Distinct(s) == \A i, j \in 1..Len(s) : s[i] = s[j] => i = j

(* the loader: what is there is loaded in the order of AppPages, and a     *)
(* process becomes live with all of its pages                              *)
MmuTypes ==
    /\ m \in Mem /\ window \in [Pages -> Value]
    /\ loading \in [pid : Pids, left : Seq(Pages)] /\ Distinct(loading.left)
    /\ live \in SUBSET (1..loading.pid) /\ curr_vm_pid \in live \union {NONE}
    /\ ~Idle => loading.pid \notin live

PagesLoaded ==
    /\ \A p \in live, g \in Pages : HeldFor(m, Existing, p, g) # {}
    /\ ~Idle => \A g \in Pages :
          HeldFor(m, Existing, loading.pid, g) = {} <=> g \in Range(loading.left)

MmuInv == MmuTypes /\ FramesKept(m, Existing, loading.pid) /\ PagesLoaded

LEMMA FramesOfHeld ==
    /\ \A p, g : FramesOf(p, g) = HeldFor(m, Existing, p, g)
    /\ \A p, g : FramesOf(p, g)' = HeldFor(m', Existing', p, g)
BY DEF FramesOf, HeldFor, Owns, PageFrame, L1, Leaf

LEMMA ExistingTypes ==
    ASSUME MmuTypes
    PROVE  /\ Existing \in SUBSET Pids /\ Pids \in SUBSET Nat /\ 0 \notin Pids
           /\ loading.pid \in Nat /\ Existing \in SUBSET (1..loading.pid)
           /\ live \in SUBSET Existing
<1>1. loading.pid \in Pids /\ live \in SUBSET (1..loading.pid)
  BY DEF MmuTypes
<1>2. Pids \in SUBSET Nat /\ 0 \notin Pids /\ \A n \in Pids : 1..n \in SUBSET Pids /\ n \in 1..n
  BY Sizes, SMT DEF Pids
<1> QED BY <1>1, <1>2 DEF Existing

LEMMA SequenceOfPages ==
    ASSUME NEW s \in Seq(Pages), s # <<>>, Distinct(s)
    PROVE  /\ Head(s) \in Pages /\ Head(s) \in Range(s)
           /\ Tail(s) \in Seq(Pages) /\ Distinct(Tail(s))
           /\ Range(Tail(s)) = Range(s) \ {Head(s)}
           /\ Len(s) = 1 <=> Tail(s) = <<>>
<1>1. /\ Len(s) \in Nat /\ Len(s) > 0 /\ Head(s) = s[1] /\ s[1] \in Pages
      /\ \A i \in 1..Len(s) : s[i] \in Pages
  BY SMT
<1>2. /\ Tail(s) \in Seq(Pages) /\ Len(Tail(s)) = Len(s) - 1
      /\ \A i \in 1..(Len(s) - 1) : Tail(s)[i] = s[i + 1]
  BY SMT
<1>3. Distinct(Tail(s))
  BY <1>1, <1>2, SMT DEF Distinct
<1>4. Range(s) = {s[i] : i \in 1..Len(s)}
  BY SMT DEF Range
<1>5. Range(Tail(s)) = {Tail(s)[i] : i \in 1..(Len(s) - 1)}
  <2>1. DOMAIN Tail(s) = 1..Len(Tail(s))
    BY <1>2, SMT
  <2>2. DOMAIN Tail(s) = 1..(Len(s) - 1)
    BY <1>2, <2>1
  <2> QED BY <2>2 DEF Range
<1>6. Range(Tail(s)) \subseteq Range(s) \ {Head(s)}
  BY <1>1, <1>2, <1>4, <1>5, SMT DEF Distinct
<1>7. Range(s) \ {Head(s)} \subseteq Range(Tail(s))
  <2> SUFFICES ASSUME NEW i \in 1..Len(s), i # 1
               PROVE  s[i] \in Range(Tail(s))
    BY <1>1, <1>4
  <2>1. i - 1 \in 1..(Len(s) - 1) /\ Tail(s)[i - 1] = s[i]
    BY <1>1, <1>2, SMT
  <2> QED BY <1>5, <2>1
<1>8. Len(s) = 1 <=> Tail(s) = <<>>
  <2>1. \A t \in Seq(Pages) : t = <<>> <=> Len(t) = 0
    BY SMT
  <2>2. Tail(s) = <<>> <=> Len(Tail(s)) = 0
    BY <1>2, <2>1
  <2> QED BY <1>1, <1>2, <2>2, SMT
<1> QED BY <1>1, <1>2, <1>3, <1>4, <1>6, <1>7, <1>8, SMT


-----------------------------------------------------------------------------
(* What the steps of the callers do to the frames of the pages             *)

SameFrames(r, s) ==
    s.translation = r.translation /\ s.table = r.table /\ s.pt = r.pt /\ s.base = r.base

LEMMA FramesSame ==
    ASSUME NEW r, NEW s, SameFrames(r, s), NEW E, NEW n
    PROVE  /\ \A p, g : HeldFor(s, E, p, g) = HeldFor(r, E, p, g)
           /\ FramesKept(s, E, n) <=> FramesKept(r, E, n)
<1>1. \A p, g : HeldFor(s, E, p, g) = HeldFor(r, E, p, g)
  BY SMT DEF SameFrames, HeldFor, Owns, PageFrame, L1, Leaf
<1>2. SoftOwned(s, E) <=> SoftOwned(r, E)
  BY ZenonT(30) DEF SameFrames, SoftOwned
<1>3. \A P : \A w \in Roles : Shape(s, w, P) <=> Shape(r, w, P)
  BY SMT DEF SameFrames, Shape, RolesOwned, RootsPlaced, EntriesPlaced
<1>4. TreesPlaced(s, E, n) <=> TreesPlaced(r, E, n)
  BY <1>3 DEF SameFrames, TreesPlaced
<1> QED BY <1>1, <1>2, <1>4 DEF FramesKept, SameFrames

LEMMA HeldByTrees ==
    ASSUME NEW r \in Mem, NEW s \in Mem, r.translation # "SOFT_TLB",
           s.translation = r.translation, NEW E \in SUBSET Nat, NEW q \in Nat, NEW h \in Pages,
           q \in (E \union {0}) \intersect Bases /\ h \in PageNo
               => PageFrame(s, q, h) = PageFrame(r, q, h)
    PROVE  HeldFor(s, E, q, h) = HeldFor(r, E, q, h)
<1>1. CASE q \in E /\ ~(q >= NBASES)
  <2>1. q \in (E \union {0}) \intersect Bases /\ h \in PageNo
    BY <1>1, Sizes, PagesArePageNo, SMT DEF Bases
  <2> QED BY <1>1, <2>1 DEF HeldFor
<1>2. CASE ~(q \in E /\ ~(q >= NBASES))
  BY <1>2 DEF HeldFor
<1> QED BY <1>1, <1>2

PageLoaded(r, s, E, n, p, g, f) ==
    /\ s \in Mem /\ Same(r, s) /\ FramesKept(s, E, n)
    /\ \A q \in Nat, h \in Pages :
          q # p \/ h # g => HeldFor(s, E, q, h) = HeldFor(r, E, q, h)
    /\ \/ Failed(s) /\ HeldFor(s, E, p, g) = HeldFor(r, E, p, g)
       \/ /\ ~Failed(s) /\ f \in Frames /\ HeldFor(s, E, p, g) = {f}
          /\ \A q \in Nat, h \in Pages : f \notin HeldFor(r, E, q, h)

Loaded(r, p, g) == IF Failed(mmu_alloc(r)) THEN mmu_alloc(r)
                   ELSE mmu_map(mmu_alloc(r), p, g, mmu_alloc(r).got)

LEMMA LoadSoft ==
    ASSUME NEW r \in Mem, NEW E \in SUBSET Nat, NEW n \in Nat, FramesKept(r, E, n),
           r.translation = "SOFT_TLB", NEW p \in E, NEW g \in Pages,
           HeldFor(r, E, p, g) = {}, ~Failed(mmu_alloc(r))
    PROVE  PageLoaded(r, Loaded(r, p, g), E, n, p, g, mmu_alloc(r).got)
<1> DEFINE a == mmu_alloc(r)
           s == Loaded(r, p, g)
<1>1. /\ a \in Mem /\ Same(r, a) /\ a.pt = r.pt /\ a.base = r.base
  BY AllocFields
<1>2. PICK f \in Frames : /\ ~r.table[f].use /\ a.got = f
                          /\ a.table[f].use
                          /\ \A h \in Frames \ {f} : a.table[h] = r.table[h]
  BY AllocFields
<1> DEFINE U == [a.table EXCEPT ![f].pid = p]
           T == [U EXCEPT ![f].page = g]
<1>3. s = soft_tlb_map(a, p, g, f)
  BY <1>1, <1>2 DEF Loaded, mmu_map, Same
<1> HIDE DEF a
<1>4. a.table \in Owners /\ a.table[f] \in Mapping
  BY <1>1 DEF Mem, Owners
<1>5. /\ U \in Owners /\ U[f].use /\ U[f].pid = p
      /\ \A h \in Frames \ {f} : U[h] = r.table[h]
  BY <1>2, <1>4 DEF Owners, Mapping
<1>6. s = [a EXCEPT !.table = T]
  BY <1>3, <1>4 DEF soft_tlb_map
<1> HIDE DEF U
<1>7. /\ T \in Owners /\ T[f].use /\ T[f].pid = p /\ T[f].page = g
      /\ \A h \in Frames \ {f} : T[h] = r.table[h]
  BY <1>5 DEF Owners, Mapping
<1> HIDE DEF T, s
<1>8. /\ s \in Mem /\ Same(r, s) /\ s.table = T /\ s.got = f
  BY <1>1, <1>2, <1>6, <1>7 DEF Mem, Same
<1>9. s.translation = "SOFT_TLB" /\ ~Failed(s)
  BY <1>8, Sizes DEF Same, Failed
<1>10. SoftOwned(r, E)
  BY DEF FramesKept
<1>11. \A h \in Frames : ~(r.table[h].use /\ r.table[h].pid = p /\ r.table[h].page = g)
  BY DEF HeldFor, Owns
<1>12. SoftOwned(s, E)
  BY <1>7, <1>8, <1>10, <1>11, SMT DEF SoftOwned
<1>13. \A q \in Nat, h \in Pages : q # p \/ h # g => HeldFor(s, E, q, h) = HeldFor(r, E, q, h)
  BY <1>2, <1>7, <1>8, <1>9, SMT DEF HeldFor, Owns
<1>14. HeldFor(s, E, p, g) = {f}
  BY <1>7, <1>8, <1>9, <1>11, SMT DEF HeldFor, Owns
<1>15. \A q \in Nat, h \in Pages : f \notin HeldFor(r, E, q, h)
  BY <1>2 DEF HeldFor, Owns
<1>16. FramesKept(s, E, n)
  BY <1>9, <1>12 DEF FramesKept
<1> QED BY <1>2, <1>8, <1>9, <1>13, <1>14, <1>15, <1>16, ZenonT(30) DEF PageLoaded, a, s

LEMMA LoadTrees ==
    ASSUME NEW r \in Mem, NEW E \in SUBSET Nat, NEW n \in Nat, FramesKept(r, E, n),
           r.translation # "SOFT_TLB", n \in E, NEW g \in Pages, ~Failed(mmu_alloc(r))
    PROVE  PageLoaded(r, Loaded(r, n, g), E, n, n, g, mmu_alloc(r).got)
<1> DEFINE a == mmu_alloc(r)
           s == Loaded(r, n, g)
           f == a.got
           P == E \union {0}
<1>0. g \in PageNo
  BY PagesArePageNo
<1>1. PICK w \in Roles : Shape(r, w, P)
  BY DEF FramesKept, TreesPlaced
<1>2. /\ a \in Mem /\ Same(r, a) /\ a.base = r.base
  BY AllocFields
<1>3. f \in Frames /\ w[f].kind = "free" /\ RoleTaken(r, w, a, P, f, PageRole(n, g))
  BY <1>0, <1>1, PageAllocStep
<1>4. PICK x \in Roles : /\ Shape(a, x, P) /\ Grows(w, x) /\ Keeps(r, a, P)
                         /\ x[f] = PageRole(n, g)
  BY <1>3 DEF RoleTaken
<1>5. s = page_table_map(a, n, g, f)
  BY <1>2 DEF Loaded, mmu_map, Same
<1> HIDE DEF a, f
<1>6. PageMapped(a, x, s, P, n, g, f)
  BY <1>0, <1>2, <1>3, <1>4, <1>5, PageTableMapStep
<1> HIDE DEF s
<1>7. s \in Mem /\ Same(r, s) /\ s.translation = r.translation /\ s.translation # "SOFT_TLB"
  BY <1>2, <1>6 DEF PageMapped, Same
<1>8. FramesKept(s, E, n)
  <2>1. \A q \in Bases : q > n => r.base[q] = NONE
    BY DEF FramesKept, TreesPlaced
  <2>2. \A q \in Bases : q > n => s.base[q] = NONE
    <3> SUFFICES ASSUME NEW q \in Bases, q > n PROVE s.base[q] = NONE
      OBVIOUS
    <3>1. q # n /\ a.base[q] = NONE
      BY <1>2, <2>1, SMT
    <3> QED BY <1>6, <3>1 DEF PageMapped, OtherBases
  <2> QED BY <1>6, <1>7, <2>2 DEF FramesKept, TreesPlaced, PageMapped
<1>9. \A q \in Nat, h \in Pages : f \notin HeldFor(r, E, q, h)
  <2> SUFFICES ASSUME NEW q \in Nat, NEW h \in Pages, f \in HeldFor(r, E, q, h) PROVE FALSE
    OBVIOUS
  <2>1. q \in E /\ ~(q >= NBASES) /\ f \in PageFrame(r, q, h)
    BY DEF HeldFor
  <2>2. q \in P \intersect Bases /\ h \in PageNo
    BY <2>1, Sizes, PagesArePageNo, SMT DEF Bases
  <2>3. r.base[q] # NONE /\ L1(r, q, h) # NONE /\ Leaf(r, q, h) # NONE
    BY <2>1 DEF PageFrame
  <2>4. PathPlaced(r, w, q, h)
    BY <1>1, <2>2, <2>3, Path
  <2> QED BY <1>3, <2>1, <2>3, <2>4 DEF PathPlaced, UnderLeaf
<1>10. CASE Failed(s)
  <2>1. Keeps(a, s, P)
    BY <1>6, <1>10 DEF PageMapped
  <2>2. Keeps(r, s, P)
    BY <1>4, <2>1 DEF Keeps
  <2>3. \A q \in Nat, h \in Pages : HeldFor(s, E, q, h) = HeldFor(r, E, q, h)
    BY <1>7, <2>2, HeldByTrees, ZenonT(30) DEF Keeps
  <2> QED BY <1>7, <1>8, <1>10, <2>3 DEF PageLoaded, s, f, a
<1>11. CASE ~Failed(s)
  <2>1. n \in Bases /\ Mapped(a, s, P, n, g, f)
    BY <1>6, <1>11 DEF PageMapped
  <2>2. Mapped(r, s, P, n, g, f)
    BY <1>4, <2>1 DEF Keeps, Mapped
  <2>3. \A q \in Nat, h \in Pages :
           q # n \/ h # g => HeldFor(s, E, q, h) = HeldFor(r, E, q, h)
    BY <1>7, <2>2, HeldByTrees, ZenonT(30) DEF Mapped
  <2>4. ~(n >= NBASES)
    BY <2>1, Sizes, SMT DEF Bases
  <2>5. HeldFor(s, E, n, g) = {f}
    BY <1>7, <2>2, <2>4 DEF HeldFor, Mapped
  <2> QED BY <1>3, <1>7, <1>8, <1>9, <1>11, <2>3, <2>5 DEF PageLoaded, s, f, a
<1> QED BY <1>10, <1>11


(* mmu_alloc and mmu_map for the next page of the process being loaded *)
LEMMA LoadFrames ==
    ASSUME NEW r \in Mem, NEW E \in SUBSET Nat, NEW n \in Nat, FramesKept(r, E, n),
           n \in E, NEW g \in Pages, HeldFor(r, E, n, g) = {}
    PROVE  PageLoaded(r, Loaded(r, n, g), E, n, n, g, mmu_alloc(r).got)
<1>1. CASE Failed(mmu_alloc(r))
  <2> DEFINE s == mmu_alloc(r)
  <2>1. s \in Mem /\ Same(r, s) /\ SameFrames(r, s)
    BY <1>1, AllocFields DEF Same, SameFrames
  <2>2. Loaded(r, n, g) = s
    BY <1>1 DEF Loaded
  <2> HIDE DEF s
  <2>3. FramesKept(s, E, n) /\ \A q, h : HeldFor(s, E, q, h) = HeldFor(r, E, q, h)
    BY <2>1, FramesSame, SMT
  <2>4. Failed(s)
    BY <1>1 DEF s
  <2> QED BY <2>1, <2>2, <2>3, <2>4 DEF PageLoaded
<1>2. CASE ~Failed(mmu_alloc(r)) /\ r.translation = "SOFT_TLB"
  BY <1>2, LoadSoft
<1>3. CASE ~Failed(mmu_alloc(r)) /\ r.translation # "SOFT_TLB"
  BY <1>3, LoadTrees
<1> QED BY <1>1, <1>2, <1>3

LEMMA FreeFrames ==
    ASSUME NEW r \in Mem, NEW E \in SUBSET Nat, NEW n \in Nat, FramesKept(r, E, n),
           NEW p \in Nat \ {0}
    PROVE  /\ FramesKept(mmu_free(r, p), E \ {p}, n)
           /\ \A q \in Nat \ {p}, h \in Pages :
                 HeldFor(mmu_free(r, p), E \ {p}, q, h) = HeldFor(r, E, q, h)
           /\ \A h \in Pages : HeldFor(mmu_free(r, p), E \ {p}, p, h) = {}
<1> DEFINE s == mmu_free(r, p)
           D == E \ {p}
<1>1. /\ s \in Mem /\ Same(r, s) /\ s.pt = r.pt /\ s.base = r.base
      /\ \A f \in Frames : s.table[f] = IF Owns(r, p, f) THEN FreeFrame ELSE r.table[f]
  BY FreeFields
<1>2. CASE r.translation = "SOFT_TLB"
  <2> HIDE DEF s
  <2>1. s.translation = "SOFT_TLB" /\ SoftOwned(r, E)
    BY <1>1, <1>2 DEF Same, FramesKept
  <2>2. \A f \in Frames : Owns(r, p, f) => ~s.table[f].use
    BY <1>1, SMT DEF FreeFrame
  <2>3. \A f \in Frames : ~Owns(r, p, f) => s.table[f] = r.table[f]
    BY <1>1
  <2>4. \A f \in Frames : s.table[f].use => s.table[f] = r.table[f] /\ r.table[f].pid # p
    BY <2>2, <2>3 DEF Owns
  <2>5. SoftOwned(s, D)
    <3>1. \A f \in Frames : s.table[f].use => s.table[f].pid \in D /\ s.table[f].page \in Pages
      BY <2>1, <2>4 DEF SoftOwned
    <3>2. ASSUME NEW f \in Frames, NEW h \in Frames, s.table[f].use, s.table[h].use,
                 s.table[f].pid = s.table[h].pid, s.table[f].page = s.table[h].page
          PROVE  f = h
      <4>1. s.table[f] = r.table[f] /\ s.table[h] = r.table[h]
        BY <2>4, <3>2
      <4> QED BY <2>1, <3>2, <4>1 DEF SoftOwned
    <3> QED BY <3>1, <3>2 DEF SoftOwned
  <2>6. \A q \in Nat \ {p}, h \in Pages : HeldFor(s, D, q, h) = HeldFor(r, E, q, h)
    <3> SUFFICES ASSUME NEW q \in Nat \ {p}, NEW h \in Pages
                 PROVE  {f \in Frames : Owns(s, q, f) /\ s.table[f].page = h} =
                        {f \in Frames : Owns(r, q, f) /\ r.table[f].page = h}
      BY <1>2, <2>1 DEF HeldFor
    <3> QED BY <2>3, <2>4 DEF Owns
  <2>7. \A h \in Pages : HeldFor(s, D, p, h) = {}
    BY <2>1, <2>4 DEF HeldFor, Owns
  <2> QED BY <2>1, <2>5, <2>6, <2>7 DEF FramesKept, s
<1>3. CASE r.translation # "SOFT_TLB"
  <2> DEFINE P == E \union {0}
  <2>1. PICK w \in Roles : Shape(r, w, P)
    BY <1>3 DEF FramesKept, TreesPlaced
  <2>2. (\E x \in Roles : Shape(s, x, P \ {p})) /\ Keeps(r, s, P)
    BY <2>1, FreeStep
  <2>3. P \ {p} = D \union {0}
    OBVIOUS
  <2> HIDE DEF s
  <2>4. s.translation = r.translation
    BY <1>1 DEF Same
  <2>5. FramesKept(s, D, n)
    <3>1. \A q \in Bases : q > n => s.base[q] = NONE
      BY <1>1, <1>3 DEF FramesKept, TreesPlaced
    <3> HIDE DEF P, D
    <3> QED BY <1>3, <2>2, <2>3, <2>4, <3>1 DEF FramesKept, TreesPlaced
  <2>6. \A q \in Nat, h \in Pages : HeldFor(s, E, q, h) = HeldFor(r, E, q, h)
    BY <1>1, <1>3, <2>2, <2>4, HeldByTrees, SMT DEF Keeps
  <2>7. \A q \in Nat \ {p}, h \in Pages : HeldFor(s, D, q, h) = HeldFor(s, E, q, h)
    BY DEF HeldFor
  <2>8. \A h \in Pages : HeldFor(s, D, p, h) = {}
    BY <1>3, <2>4 DEF HeldFor
  <2> QED BY <2>5, <2>6, <2>7, <2>8 DEF s
<1> QED BY <1>2, <1>3

(* a process still to come owns nothing *)
LEMMA SpawnFrames ==
    ASSUME NEW r \in Mem, NEW n \in Nat, NEW E \in SUBSET (1..n), FramesKept(r, E, n)
    PROVE  /\ FramesKept(r, E \union {n + 1}, n + 1)
           /\ \A q \in Nat, h \in Pages :
                 HeldFor(r, E \union {n + 1}, q, h) = HeldFor(r, E, q, h)
           /\ \A h \in Pages : HeldFor(r, E \union {n + 1}, n + 1, h) = {}
<1> DEFINE p == n + 1
           D == E \union {p}
<1>0. p \in Nat /\ p > n /\ p \notin E
  BY SMT
<1>1. CASE r.translation = "SOFT_TLB"
  <2>1. SoftOwned(r, E) /\ SoftOwned(r, D)
    BY <1>1 DEF FramesKept, SoftOwned
  <2>2. \A q \in Nat, h \in Pages : HeldFor(r, D, q, h) = HeldFor(r, E, q, h)
    BY <1>1 DEF HeldFor
  <2> HIDE DEF p
  <2>3. \A h \in Pages : HeldFor(r, D, p, h) = {}
    BY <1>0, <1>1, <2>1 DEF HeldFor, SoftOwned, Owns
  <2> QED BY <1>1, <2>1, <2>2, <2>3 DEF FramesKept, p
<1>2. CASE r.translation # "SOFT_TLB"
  <2>1. PICK w \in Roles : Shape(r, w, E \union {0})
    BY <1>2 DEF FramesKept, TreesPlaced
  <2>2. \A q \in Bases : q > n => r.base[q] = NONE
    BY <1>2 DEF FramesKept, TreesPlaced
  <2>3. \A q \in Bases : q > p => r.base[q] = NONE
    BY <1>0, <2>2, Sizes, SMT DEF Bases
  <2>4. p \in Bases => r.base[p] = NONE
    BY <1>0, <2>2
  <2> HIDE DEF p
  <2>5. Shape(r, w, D \union {0})
    BY <2>1, <2>4 DEF Shape, RootsPlaced
  <2>6. \A h \in Pages : HeldFor(r, D, p, h) = {}
    <3>1. ~(p >= NBASES) => p \in Bases
      BY <1>0, Sizes, SMT DEF Bases
    <3> QED BY <1>2, <2>4, <3>1 DEF HeldFor, PageFrame
  <2>7. \A h \in Pages : HeldFor(r, E, p, h) = {}
    BY <1>0, <1>2 DEF HeldFor
  <2>8. \A q \in Nat \ {p}, h \in Pages : HeldFor(r, D, q, h) = HeldFor(r, E, q, h)
    BY DEF HeldFor
  <2>9. FramesKept(r, D, p)
    BY <1>2, <2>3, <2>5 DEF FramesKept, TreesPlaced
  <2> QED BY <2>6, <2>7, <2>8, <2>9 DEF p
<1> QED BY <1>1, <1>2

(* after mmu_init no page is loaded *)
LEMMA InitFrames ==
    ASSUME NEW t \in {"SOFT_TLB", "PAGE_TABLE"}
    PROVE  /\ mmu_init(t) \in Mem /\ FramesKept(mmu_init(t), {1}, 1)
           /\ \A p \in Nat, g \in Pages : HeldFor(mmu_init(t), {1}, p, g) = {}
<1> DEFINE e == Empty(t)
<1>1. e \in Mem
  <2>1. [f \in Frames |-> FreeFrame] \in Owners
    BY DEF Owners, Mapping, FreeFrame
  <2>2. [f \in Frames |-> 0] \in Contents
    BY Sizes DEF Contents
  <2>3. [f \in Frames |-> ClearTable] \in Trees
    BY DEF Trees, ClearTable, Entry
  <2>4. [p \in 0..(NBASES - 1) |-> NONE] \in Roots
    BY DEF Roots, Bases
  <2> QED BY <2>1, <2>2, <2>3, <2>4, Sizes DEF Mem, Empty
<1>2. /\ e.translation = t /\ (\A f \in Frames : ~e.table[f].use /\ e.table[f].pid = 0)
      /\ \A q \in Bases : e.base[q] = NONE
      /\ \A f \in Frames, v \in Entries : e.pt[f][v] = NONE
  BY DEF Empty, FreeFrame, ClearTable, Bases
<1> HIDE DEF e
<1>3. CASE t = "SOFT_TLB"
  <2>1. mmu_init(t) = e
    BY <1>3 DEF mmu_init, e
  <2>2. SoftOwned(e, {1})
    BY <1>2 DEF SoftOwned
  <2>3. \A p \in Nat, g \in Pages : HeldFor(e, {1}, p, g) = {}
    BY <1>2, <1>3 DEF HeldFor, Owns
  <2> QED BY <1>1, <1>2, <1>3, <2>1, <2>2, <2>3 DEF FramesKept
<1>4. CASE t = "PAGE_TABLE"
  <2> DEFINE s == pagetable_identity_mapping(e, 0)
             none == [kind |-> "free", pid |-> 0, v2 |-> 0, v1 |-> 0, v0 |-> 0]
             w == [f \in Frames |-> none]
             P == {1} \union {0}
  <2>1. none \in Role /\ none.kind = "free"
    BY Sizes, SMT DEF Role, Entries
  <2> HIDE DEF none
  <2>2. w \in Roles /\ \A f \in Frames : w[f].kind = "free"
    BY <2>1 DEF Roles
  <2> HIDE DEF w
  <2>3. Shape(e, w, P)
    BY <1>2, <2>2 DEF Shape, RolesOwned, RootsPlaced, EntriesPlaced, Kinds
  <2>4. 0 \in P \intersect Bases
    BY Sizes
  <2>5. \A q \in Bases, g \in PageNo : PageFrame(e, q, g) = {}
    BY <1>2 DEF PageFrame
  <2>6. NoPages(e, 0)
    BY <2>4, <2>5 DEF NoPages
  <2>7. Laid(e, w, s, 0, P)
    BY <1>1, <2>2, <2>3, <2>4, <2>6, IdentityMappingStep
  <2> HIDE DEF s
  <2>8. s \in Mem /\ Same(e, s) /\ Keeps(e, s, P) /\ \E x \in Roles : Shape(s, x, P)
    BY <2>7 DEF Laid, Into
  <2>9. s.translation = e.translation /\ e.translation # "SOFT_TLB"
    BY <1>2, <1>4, <2>8 DEF Same
  <2>10. \A q \in Bases : q > 1 => s.base[q] = NONE
    BY <1>2, <2>7, SMT DEF Laid, OtherBases
  <2>11. \A p \in Nat, g \in Pages : HeldFor(s, {1}, p, g) = {}
    <3> SUFFICES ASSUME NEW p \in Nat, NEW g \in Pages, p \in {1} /\ ~(p >= NBASES)
                 PROVE  PageFrame(s, p, g) = {}
      BY <2>9 DEF HeldFor
    <3>1. p \in P \intersect Bases /\ g \in PageNo
      BY Sizes, PagesArePageNo, SMT DEF Bases
    <3> QED BY <2>5, <2>8, <3>1 DEF Keeps
  <2>12. FramesKept(s, {1}, 1)
    BY <2>8, <2>9, <2>10 DEF FramesKept, TreesPlaced
  <2>13. mmu_init(t) = s
    BY <1>4 DEF mmu_init, s, e
  <2> QED BY <2>8, <2>11, <2>12, <2>13
<1> QED BY <1>3, <1>4


-----------------------------------------------------------------------------
(* The steps of the callers                                                *)

(* what page g of p holds *)
Held1(r, E, win, cur, p, g) ==
    LET fs == HeldFor(r, E, p, g)
    IN  IF fs = {} THEN NONE
        ELSE IF r.translation = "SOFT_TLB" /\ p = cur THEN win[g]
        ELSE r.data[Min(fs)]

LEMMA SpaceHeld ==
    /\ absSpace = [p \in Pids |-> [g \in Pages |->
                     Held1(m, Existing, window, curr_vm_pid, p, g)]]
    /\ absSpace' = [p \in Pids |-> [g \in Pages |->
                     Held1(m', Existing', window', curr_vm_pid', p, g)]]
<1>1. \A p \in Pids, g \in Pages :
         Held1(m, Existing, window, curr_vm_pid, p, g) =
            LET fs == FramesOf(p, g)
            IN  IF fs = {} THEN NONE
                ELSE IF m.translation = "SOFT_TLB" /\ p = curr_vm_pid THEN window[g]
                ELSE m.data[Min(fs)]
  BY FramesOfHeld DEF Held1
<1>2. \A p \in Pids, g \in Pages :
         Held1(m', Existing', window', curr_vm_pid', p, g) =
            (LET fs == FramesOf(p, g)
             IN  IF fs = {} THEN NONE
                 ELSE IF m.translation = "SOFT_TLB" /\ p = curr_vm_pid THEN window[g]
                 ELSE m.data[Min(fs)])'
  BY FramesOfHeld DEF Held1
<1> QED BY <1>1, <1>2 DEF absSpace

LEMMA SingleFrame ==
    ASSUME NEW f \in Frames
    PROVE  Min({f}) = f /\ Max({f}) = f
<1>1. f \in Int
  BY Sizes, SMT DEF Frames
<1> QED BY <1>1, Single

LEMMA HeldValue ==
    ASSUME NEW r, NEW E, NEW win, NEW cur, NEW p, NEW g, NEW f \in Frames,
           HeldFor(r, E, p, g) = {f}
    PROVE  Held1(r, E, win, cur, p, g) =
              IF r.translation = "SOFT_TLB" /\ p = cur THEN win[g] ELSE r.data[f]
<1>1. Min({f}) = f
  BY SingleFrame
<1> QED BY <1>1 DEF Held1

(* under the invariant a page has no frame or one *)
LEMMA FrameOf ==
    ASSUME MmuTypes, FramesKept(m, Existing, loading.pid), NEW p \in Nat, NEW g \in Pages
    PROVE  \/ HeldFor(m, Existing, p, g) = {}
           \/ \E f \in Frames : HeldFor(m, Existing, p, g) = {f}
<1>1. m \in Mem /\ Existing \in SUBSET Nat /\ loading.pid \in Nat
  BY ExistingTypes DEF MmuTypes
<1>2. /\ HeldFor(m, Existing, p, g) \subseteq Frames
      /\ \A f \in HeldFor(m, Existing, p, g), k \in HeldFor(m, Existing, p, g) : f = k
  BY <1>1, OneFrame
<1> QED BY <1>2

(* load_app, one page *)
LEMMA LoadFacts ==
    ASSUME MmuInv, LoadPage
    PROVE  /\ loading.pid \in Existing /\ Head(loading.left) \in Pages
           /\ HeldFor(m, Existing, loading.pid, Head(loading.left)) = {}
           /\ PageLoaded(m, Loaded(m, loading.pid, Head(loading.left)), Existing, loading.pid,
                         loading.pid, Head(loading.left), mmu_alloc(m).got)
           /\ LoadInto(mmu_alloc(m).got, Loaded(m, loading.pid, Head(loading.left)))
           /\ UNCHANGED <<window, curr_vm_pid>>
<1> DEFINE n == loading.pid
           g == Head(loading.left)
<1>1. ~Idle /\ loading.left # <<>> /\ loading.left \in Seq(Pages) /\ Distinct(loading.left)
  BY DEF LoadPage, Idle, MmuInv, MmuTypes
<1>2. g \in Pages /\ g \in Range(loading.left)
  BY <1>1, SequenceOfPages
<1>3. n \in Existing
  BY <1>1 DEF Existing
<1>4. HeldFor(m, Existing, n, g) = {}
  BY <1>1, <1>2 DEF MmuInv, PagesLoaded
<1>5. m \in Mem /\ Existing \in SUBSET Nat /\ n \in Nat /\ FramesKept(m, Existing, n)
  BY ExistingTypes DEF MmuInv, MmuTypes
<1>6. PageLoaded(m, Loaded(m, n, g), Existing, n, n, g, mmu_alloc(m).got)
  <2> HIDE DEF n, g
  <2> QED BY <1>2, <1>3, <1>4, <1>5, LoadFrames
<1>7. MapNext(mmu_alloc(m)) = Loaded(m, n, g)
  BY DEF MapNext, Loaded
<1>8. LoadInto(mmu_alloc(m).got, Loaded(m, n, g)) /\ UNCHANGED <<window, curr_vm_pid>>
  BY <1>7 DEF LoadPage
<1> QED BY <1>2, <1>3, <1>4, <1>6, <1>8

(* FATAL: no page changes *)
LEMMA LoadFails ==
    ASSUME MmuInv, LoadPage, Failed(Loaded(m, loading.pid, Head(loading.left)))
    PROVE  MmuInv' /\ m'.translation = m.translation /\ absSpace' = absSpace
<1> DEFINE n == loading.pid
           g == Head(loading.left)
           b == Loaded(m, n, g)
<1>1. /\ g \in Pages /\ HeldFor(m, Existing, n, g) = {}
      /\ PageLoaded(m, b, Existing, n, n, g, mmu_alloc(m).got)
      /\ LoadInto(mmu_alloc(m).got, b) /\ UNCHANGED <<window, curr_vm_pid>>
  BY LoadFacts
<1>2. /\ m' = b /\ UNCHANGED <<loading, live>>
  BY <1>1 DEF LoadInto
<1>3. /\ b \in Mem /\ Same(m, b) /\ FramesKept(b, Existing, n)
      /\ \A q \in Nat, h \in Pages : HeldFor(b, Existing, q, h) = HeldFor(m, Existing, q, h)
  BY <1>1 DEF PageLoaded
<1>4. Existing' = Existing /\ (Idle' <=> Idle)
  BY <1>2 DEF Existing, Idle
<1> HIDE DEF b
<1>5. MmuTypes'
  BY <1>1, <1>2, <1>3, <1>4 DEF MmuInv, MmuTypes
<1>6. n \in Nat /\ live \in SUBSET Nat /\ Pids \in SUBSET Nat
  BY ExistingTypes DEF MmuInv
<1>7. PagesLoaded'
  BY <1>2, <1>3, <1>4, <1>6, ZenonT(30) DEF MmuInv, PagesLoaded
<1>8. FramesKept(m, Existing, loading.pid)'
  BY <1>2, <1>3, <1>4
<1>9. \A p \in Pids, h \in Pages :
         Held1(m', Existing', window', curr_vm_pid', p, h) =
         Held1(m, Existing, window, curr_vm_pid, p, h)
  BY <1>1, <1>2, <1>3, <1>4, <1>6 DEF Held1, Same
<1>10. absSpace' = absSpace
  BY <1>9, SpaceHeld
<1>11. m'.translation = m.translation
  BY <1>2, <1>3 DEF Same
<1> QED BY <1>5, <1>7, <1>8, <1>10, <1>11 DEF MmuInv


(* the page is there, with what load_app put into its frame *)
LEMMA LoadMemory ==
    ASSUME MmuInv, LoadPage, ~Failed(Loaded(m, loading.pid, Head(loading.left)))
    PROVE  \E f \in Frames, v \in Value :
              /\ m' \in Mem /\ m'.translation = m.translation
              /\ m'.data = [m.data EXCEPT ![f] = v] /\ FramesKept(m', Existing, loading.pid)
              /\ \A q \in Nat, h \in Pages :
                    /\ f \notin HeldFor(m, Existing, q, h)
                    /\ HeldFor(m', Existing, q, h) =
                          IF q = loading.pid /\ h = Head(loading.left) THEN {f}
                          ELSE HeldFor(m, Existing, q, h)
<1> DEFINE n == loading.pid
           g == Head(loading.left)
           b == Loaded(m, n, g)
           f == mmu_alloc(m).got
<1>1. PageLoaded(m, b, Existing, n, n, g, f) /\ LoadInto(f, b)
  BY LoadFacts
<1>2. /\ b \in Mem /\ Same(m, b) /\ FramesKept(b, Existing, n) /\ f \in Frames
      /\ HeldFor(b, Existing, n, g) = {f}
      /\ \A q \in Nat, h \in Pages :
            q # n \/ h # g => HeldFor(b, Existing, q, h) = HeldFor(m, Existing, q, h)
      /\ \A q \in Nat, h \in Pages : f \notin HeldFor(m, Existing, q, h)
  BY <1>1 DEF PageLoaded
<1>3. b.data \in Contents /\ b.data = m.data /\ b.data[f] \in Value
  BY <1>2 DEF Mem, Contents, Same
<1>4. PICK v \in Value : m' = [b EXCEPT !.data[f] = v]
  BY <1>1, <1>3 DEF LoadInto
<1> HIDE DEF b, f
<1> DEFINE D == [m.data EXCEPT ![f] = v]
<1>5. D \in Contents /\ m' = [b EXCEPT !.data = D]
  BY <1>2, <1>3, <1>4 DEF Contents
<1> HIDE DEF D
<1>6. m' \in Mem /\ m'.data = D /\ SameFrames(b, m')
  BY <1>2, <1>5 DEF Mem, SameFrames
<1>7. /\ FramesKept(m', Existing, n)
      /\ \A q, h : HeldFor(m', Existing, q, h) = HeldFor(b, Existing, q, h)
  BY <1>2, <1>6, FramesSame, SMT
<1>8. m'.translation = m.translation
  BY <1>2, <1>6 DEF SameFrames, Same
<1>9. \A q \in Nat, h \in Pages :
         /\ f \notin HeldFor(m, Existing, q, h)
         /\ HeldFor(m', Existing, q, h) =
               IF q = n /\ h = g THEN {f} ELSE HeldFor(m, Existing, q, h)
  BY <1>2, <1>7, SMT
<1> QED BY <1>2, <1>6, <1>7, <1>8, <1>9 DEF D

LEMMA LoadSucceeds ==
    ASSUME MmuInv, LoadPage, ~Failed(Loaded(m, loading.pid, Head(loading.left)))
    PROVE  /\ MmuInv' /\ m'.translation = m.translation
           /\ \E p \in Pids, g \in Pages : AS!Map(p, g)
<1> DEFINE n == loading.pid
           g == Head(loading.left)
<1>1. PICK f \in Frames, v \in Value :
         /\ m' \in Mem /\ m'.translation = m.translation
         /\ m'.data = [m.data EXCEPT ![f] = v] /\ FramesKept(m', Existing, n)
         /\ \A q \in Nat, h \in Pages :
               /\ f \notin HeldFor(m, Existing, q, h)
               /\ HeldFor(m', Existing, q, h) =
                     IF q = n /\ h = g THEN {f} ELSE HeldFor(m, Existing, q, h)
  BY LoadMemory
<1>2. /\ n \in Existing /\ g \in Pages /\ HeldFor(m, Existing, n, g) = {}
      /\ UNCHANGED <<window, curr_vm_pid>>
      /\ LoadInto(mmu_alloc(m).got, Loaded(m, n, g))
  BY LoadFacts
<1>3. /\ loading' = [loading EXCEPT !.left = Tail(@)]
      /\ live' = IF Len(loading.left) = 1 THEN live \union {n} ELSE live
  BY <1>2 DEF LoadInto
<1>4. /\ ~Idle /\ loading.left # <<>> /\ loading.left \in Seq(Pages) /\ Distinct(loading.left)
      /\ n \notin live /\ loading \in [pid : Pids, left : Seq(Pages)]
  BY DEF LoadPage, Idle, MmuInv, MmuTypes
<1>5. /\ Tail(loading.left) \in Seq(Pages) /\ Distinct(Tail(loading.left))
      /\ Range(Tail(loading.left)) = Range(loading.left) \ {g}
      /\ Len(loading.left) = 1 <=> Tail(loading.left) = <<>>
  BY <1>4, SequenceOfPages
<1>6. /\ loading' \in [pid : Pids, left : Seq(Pages)] /\ loading'.pid = n
      /\ loading'.left = Tail(loading.left)
  BY <1>3, <1>4, <1>5
<1>7. Existing' = Existing /\ (Idle' <=> Len(loading.left) = 1)
  BY <1>3, <1>4, <1>5, <1>6 DEF Existing, Idle
<1>8. /\ Existing \in SUBSET Nat /\ Pids \in SUBSET Nat /\ n \in Nat /\ n \in Pids
      /\ live \in SUBSET Nat /\ live \in SUBSET (1..n) /\ n \in 1..n
  BY <1>4, ExistingTypes, SMT DEF MmuInv, MmuTypes
<1>9. MmuTypes'
  <2>1. live' \in SUBSET (1..loading'.pid) /\ curr_vm_pid' \in live' \union {NONE}
    BY <1>2, <1>3, <1>6, <1>8 DEF MmuInv, MmuTypes
  <2>2. ~Idle' => loading'.pid \notin live'
    BY <1>3, <1>4, <1>6, <1>7
  <2>3. window' \in [Pages -> Value]
    BY <1>2 DEF MmuInv, MmuTypes
  <2> QED BY <1>1, <1>5, <1>6, <2>1, <2>2, <2>3 DEF MmuTypes
<1>10. PagesLoaded'
  <2>1. ASSUME NEW p \in live', NEW h \in Pages
        PROVE  HeldFor(m', Existing', p, h) # {}
    <3>1. CASE p \in live
      BY <1>1, <1>4, <1>7, <1>8, <3>1, SMT DEF MmuInv, PagesLoaded
    <3>2. CASE p = n /\ Len(loading.left) = 1
      <4>1. Range(Tail(loading.left)) = {}
        BY <1>5, <3>2, SMT DEF Range
      <4>2. h # g => HeldFor(m, Existing, n, h) # {}
        BY <1>4, <1>5, <4>1 DEF MmuInv, PagesLoaded
      <4> QED BY <1>1, <1>7, <1>8, <3>2, <4>2
    <3> QED BY <1>3, <2>1, <3>1, <3>2
  <2>2. ASSUME NEW h \in Pages
        PROVE  HeldFor(m', Existing', n, h) = {} <=> h \in Range(Tail(loading.left))
    <3>1. HeldFor(m, Existing, n, h) = {} <=> h \in Range(loading.left)
      BY <1>4 DEF MmuInv, PagesLoaded
    <3> QED BY <1>1, <1>5, <1>7, <1>8, <3>1
  <2> QED BY <1>6, <2>1, <2>2 DEF PagesLoaded
<1>11. MmuInv'
  BY <1>1, <1>6, <1>7, <1>9, <1>10 DEF MmuInv
<1>12. curr_vm_pid # n
  BY <1>4, <1>8, Sizes DEF MmuInv, MmuTypes
<1>13. ASSUME NEW p \in Pids, NEW h \in Pages
       PROVE  Held1(m', Existing', window', curr_vm_pid', p, h) =
                 IF p = n /\ h = g THEN v ELSE Held1(m, Existing, window, curr_vm_pid, p, h)
  <2>0. p \in Nat /\ m.data \in Contents
    BY <1>8 DEF MmuInv, MmuTypes, Mem
  <2>1. CASE p = n /\ h = g
    <3>1. HeldFor(m', Existing', p, h) = {f}
      BY <1>1, <1>7, <2>0, <2>1, ZenonT(30)
    <3>2. Held1(m', Existing', window', curr_vm_pid', p, h) = m'.data[f]
      BY <1>2, <1>12, <2>1, <3>1, HeldValue, SMT
    <3> QED BY <1>1, <2>0, <2>1, <3>2 DEF Contents
  <2>2. CASE ~(p = n /\ h = g)
    <3>1. HeldFor(m', Existing', p, h) = HeldFor(m, Existing, p, h)
      BY <1>1, <1>7, <2>0, <2>2
    <3>2. CASE HeldFor(m, Existing, p, h) = {}
      BY <2>2, <3>1, <3>2 DEF Held1
    <3>3. CASE HeldFor(m, Existing, p, h) # {}
      <4>1. PICK k \in Frames : HeldFor(m, Existing, p, h) = {k}
        BY <2>0, <3>3, FrameOf DEF MmuInv
      <4>2. k # f
        BY <1>1, <2>0, <4>1
      <4>3. m'.data[k] = m.data[k]
        BY <1>1, <2>0, <4>2 DEF Contents
      <4>0. Min({k}) = k
        BY SingleFrame
      <4>4. Held1(m, Existing, window, curr_vm_pid, p, h) =
               IF m.translation = "SOFT_TLB" /\ p = curr_vm_pid THEN window[h] ELSE m.data[k]
        BY <4>0, <4>1 DEF Held1
      <4>5. HeldFor(m', Existing', p, h) = {k}
        BY <3>1, <4>1
      <4>6. Held1(m', Existing', window', curr_vm_pid', p, h) =
               IF m'.translation = "SOFT_TLB" /\ p = curr_vm_pid' THEN window'[h] ELSE m'.data[k]
        BY <4>0, <4>5 DEF Held1
      <4> QED BY <1>1, <1>2, <2>2, <4>3, <4>4, <4>6
    <3> QED BY <3>2, <3>3
  <2> QED BY <2>1, <2>2
<1>14. Held1(m, Existing, window, curr_vm_pid, n, g) = NONE
  BY <1>2 DEF Held1
<1>15. AS!Map(n, g)
  <2>1. absSpace[n][g] = NONE
    BY <1>2, <1>8, <1>14, SpaceHeld
  <2>2. absSpace' = [absSpace EXCEPT ![n][g] = v]
    BY <1>2, <1>8, <1>13, SpaceHeld
  <2> QED BY <1>2, <2>1, <2>2 DEF AS!Map
<1> QED BY <1>1, <1>2, <1>8, <1>11, <1>15


LEMMA SpawnStep ==
    ASSUME MmuInv, Spawn
    PROVE  MmuInv' /\ absSpace' = absSpace
<1> DEFINE n == loading.pid
           D == Existing \union {n + 1}
<1>1. /\ Idle /\ loading' = [pid |-> n + 1, left |-> AppPages]
      /\ n < MaxPid /\ UNCHANGED <<m, window, curr_vm_pid, live>>
  BY ExistingTypes, Sizes, SMT DEF Spawn, MmuInv
<1>2. /\ n \in Nat /\ Existing \in SUBSET (1..n) /\ m \in Mem /\ FramesKept(m, Existing, n)
      /\ live \in SUBSET Existing /\ Pids \in SUBSET Nat /\ n \in Pids
  BY ExistingTypes DEF MmuInv, MmuTypes
<1>3. Existing = live
  BY <1>1 DEF Existing
<1>4. AppPages \in Seq(Pages) /\ AppPages # <<>> /\ Distinct(AppPages) /\ Range(AppPages) = Pages
  BY MmuAssumption, SMT DEF Distinct, Pages, Range
<1>5. ~Idle' /\ Existing' = D /\ loading'.pid = n + 1 /\ loading'.left = AppPages
  BY <1>1, <1>3, <1>4 DEF Idle, Existing
<1>6. n + 1 \in Pids /\ live \in SUBSET (1..(n + 1)) /\ n + 1 \notin live
  BY <1>1, <1>2, <1>3, Sizes, SMT DEF Pids
<1>7. MmuTypes'
  BY <1>1, <1>4, <1>5, <1>6 DEF MmuInv, MmuTypes
<1>8. /\ FramesKept(m, D, n + 1)
      /\ \A q \in Nat, h \in Pages : HeldFor(m, D, q, h) = HeldFor(m, Existing, q, h)
      /\ \A h \in Pages : HeldFor(m, D, n + 1, h) = {}
  <2> HIDE DEF n
  <2> QED BY <1>2, SpawnFrames
<1> HIDE DEF D
<1>9. PagesLoaded'
  BY <1>1, <1>2, <1>4, <1>5, <1>8, SMT DEF MmuInv, PagesLoaded
<1>10. MmuInv'
  BY <1>1, <1>5, <1>7, <1>8, <1>9 DEF MmuInv
<1>11. \A p \in Pids, h \in Pages :
          Held1(m', Existing', window', curr_vm_pid', p, h) =
          Held1(m, Existing, window, curr_vm_pid, p, h)
  BY <1>1, <1>2, <1>5, <1>8 DEF Held1
<1> QED BY <1>10, <1>11, SpaceHeld

(* soft_tlb_switch: what is swapped out and in *)
LEMMA SwapData ==
    ASSUME NEW r \in Mem, window \in [Pages -> Value],
           \A f \in Frames : Owns(r, curr_vm_pid, f) => r.table[f].page \in Pages
    PROVE  /\ SwappedOut(r) \in Mem /\ SameFrames(r, SwappedOut(r))
           /\ \A f \in Frames : SwappedOut(r).data[f] =
                 IF Owns(r, curr_vm_pid, f) THEN window[r.table[f].page] ELSE r.data[f]
<1> DEFINE D == [f \in Frames |-> IF Owns(r, curr_vm_pid, f)
                                  THEN window[r.table[f].page] ELSE r.data[f]]
           s == SwappedOut(r)
<1>1. r.data \in Contents
  BY DEF Mem
<1>2. D \in Contents
  BY <1>1 DEF Contents
<1>3. s = [r EXCEPT !.data = D]
  BY DEF SwappedOut
<1>4. \A f \in Frames : D[f] = IF Owns(r, curr_vm_pid, f)
                               THEN window[r.table[f].page] ELSE r.data[f]
  OBVIOUS
<1> HIDE DEF D, s
<1>5. s \in Mem /\ SameFrames(r, s) /\ s.data = D
  BY <1>2, <1>3 DEF Mem, SameFrames
<1> QED BY <1>4, <1>5 DEF s

LEMMA SwapWindow ==
    ASSUME NEW s \in Mem, NEW q \in Nat, window \in [Pages -> Value],
           s.translation = "SOFT_TLB",
           \A g \in Pages : \/ HeldFor(s, {}, q, g) = {}
                            \/ \E f \in Frames : HeldFor(s, {}, q, g) = {f}
    PROVE  /\ SwappedIn(s, q) \in [Pages -> Value]
           /\ \A g \in Pages, f \in Frames :
                 HeldFor(s, {}, q, g) = {f} => SwappedIn(s, q)[g] = s.data[f]
<1> DEFINE W(g) == IF HeldFor(s, {}, q, g) = {} THEN window[g]
                   ELSE s.data[Max(HeldFor(s, {}, q, g))]
<1>1. SwappedIn(s, q) = [g \in Pages |-> W(g)]
  BY DEF SwappedIn, HeldFor
<1>2. s.data \in Contents
  BY DEF Mem
<1>3. ASSUME NEW g \in Pages, NEW f \in Frames, HeldFor(s, {}, q, g) = {f}
      PROVE  W(g) = s.data[f] /\ W(g) \in Value
  <2>1. Max({f}) = f
    BY SingleFrame
  <2>2. s.data[f] \in Value
    BY <1>2 DEF Contents
  <2> QED BY <1>3, <2>1, <2>2
<1>4. \A g \in Pages : HeldFor(s, {}, q, g) = {} => W(g) \in Value
  OBVIOUS
<1>5. \A g \in Pages : W(g) \in Value
  BY <1>3, <1>4
<1> HIDE DEF W
<1> QED BY <1>1, <1>3, <1>5


(* mmu_switch to q, after which every process has the pages it had *)
LEMMA SwitchMemory ==
    ASSUME NEW r \in Mem, NEW E \in SUBSET Nat, NEW n \in Nat, FramesKept(r, E, n),
           window \in [Pages -> Value], NEW q \in Nat, mmu_switch(r, q)
    PROVE  /\ m' \in Mem /\ window' \in [Pages -> Value] /\ curr_vm_pid' = q
           /\ SameFrames(r, m') /\ m'.got = r.got
           /\ \A p \in Nat, g \in Pages :
                 Held1(m', E, window', q, p, g) = Held1(r, E, window, curr_vm_pid, p, g)
<1> DEFINE s == SwappedOut(r)
           W == SwappedIn(s, q)
<1>0. curr_vm_pid' = q
  BY DEF mmu_switch
<1>1. CASE ~(r.translation = "SOFT_TLB" /\ q # curr_vm_pid)
  <2>1. m' = r /\ window' = window
    BY <1>1 DEF mmu_switch
  <2>2. \A p \in Nat, g \in Pages :
           Held1(m', E, window', q, p, g) = Held1(r, E, window, curr_vm_pid, p, g)
    BY <1>1, <2>1 DEF Held1
  <2> QED BY <1>0, <2>1, <2>2 DEF SameFrames
<1>2. CASE r.translation = "SOFT_TLB" /\ q # curr_vm_pid
  <2>1. m' = s /\ window' = W
    BY <1>2 DEF mmu_switch
  <2>2. SoftOwned(r, E)
    BY <1>2 DEF FramesKept
  <2>3. \A f \in Frames : Owns(r, curr_vm_pid, f) => r.table[f].page \in Pages
    BY <2>2 DEF SoftOwned, Owns
  <2>4. /\ s \in Mem /\ SameFrames(r, s)
        /\ \A f \in Frames : s.data[f] =
              IF Owns(r, curr_vm_pid, f) THEN window[r.table[f].page] ELSE r.data[f]
    BY <2>3, SwapData
  <2>5. s.got = r.got
    BY SMT DEF SwappedOut
  <2> HIDE DEF s
  <2>6. s.translation = "SOFT_TLB" /\ \A p, g : HeldFor(s, E, p, g) = HeldFor(r, E, p, g)
    BY <1>2, <2>4, FramesSame, SMT DEF SameFrames
  <2>7. \A p, g : HeldFor(s, {}, p, g) = HeldFor(r, E, p, g)
    BY <2>6 DEF HeldFor
  <2>8. \A p \in Nat, g \in Pages : \/ HeldFor(r, E, p, g) = {}
                                    \/ \E f \in Frames : HeldFor(r, E, p, g) = {f}
    <3> SUFFICES ASSUME NEW p \in Nat, NEW g \in Pages
                 PROVE  \/ HeldFor(r, E, p, g) = {}
                        \/ \E f \in Frames : HeldFor(r, E, p, g) = {f}
      OBVIOUS
    <3>1. /\ HeldFor(r, E, p, g) \subseteq Frames
          /\ \A f \in HeldFor(r, E, p, g), k \in HeldFor(r, E, p, g) : f = k
      BY OneFrame
    <3> QED BY <3>1
  <2>9. \A g \in Pages : \/ HeldFor(s, {}, q, g) = {}
                         \/ \E f \in Frames : HeldFor(s, {}, q, g) = {f}
    BY <2>7, <2>8, SMT
  <2>10. /\ W \in [Pages -> Value]
         /\ \A g \in Pages, f \in Frames : HeldFor(s, {}, q, g) = {f} => W[g] = s.data[f]
    BY <2>4, <2>6, <2>9, SwapWindow
  <2> HIDE DEF W
  <2>11. ASSUME NEW p \in Nat, NEW g \in Pages
         PROVE  Held1(s, E, W, q, p, g) = Held1(r, E, window, curr_vm_pid, p, g)
    <3>1. CASE HeldFor(r, E, p, g) = {}
      BY <2>6, <3>1 DEF Held1
    <3>2. CASE HeldFor(r, E, p, g) # {}
      <4>1. PICK f \in Frames : HeldFor(r, E, p, g) = {f}
        BY <2>8, <3>2
      <4>2. Min({f}) = f
        BY SingleFrame
      <4>3. r.table[f].use /\ r.table[f].pid = p /\ r.table[f].page = g
        <5>1. f \in {h \in Frames : Owns(r, p, h) /\ r.table[h].page = g}
          BY <1>2, <4>1 DEF HeldFor
        <5> QED BY <5>1 DEF Owns
      <4>4. s.data[f] = IF p = curr_vm_pid THEN window[g] ELSE r.data[f]
        BY <2>4, <4>3 DEF Owns
      <4>5. Held1(r, E, window, curr_vm_pid, p, g) =
               IF p = curr_vm_pid THEN window[g] ELSE r.data[f]
        BY <1>2, <4>1, <4>2 DEF Held1
      <4>6. HeldFor(s, E, p, g) = {f} /\ HeldFor(s, {}, p, g) = {f}
        BY <2>6, <2>7, <4>1
      <4>7. Held1(s, E, W, q, p, g) = IF p = q THEN W[g] ELSE s.data[f]
        BY <2>6, <4>2, <4>6 DEF Held1
      <4>8. p = q => W[g] = s.data[f]
        BY <2>10, <4>6
      <4> QED BY <4>4, <4>5, <4>7, <4>8, SMT
    <3> QED BY <3>1, <3>2
  <2> QED BY <1>0, <2>1, <2>4, <2>5, <2>10, <2>11
<1> QED BY <1>1, <1>2

LEMMA SwitchStep ==
    ASSUME MmuInv, NEW q \in Pids, Switch(q)
    PROVE  MmuInv' /\ m'.translation = m.translation /\ AS!SwitchTo(q)
<1>1. /\ Existing \in SUBSET Nat /\ loading.pid \in Nat /\ Pids \in SUBSET Nat
      /\ live \in SUBSET Nat
  BY ExistingTypes DEF MmuInv
<1>2. /\ m \in Mem /\ window \in [Pages -> Value] /\ FramesKept(m, Existing, loading.pid)
  BY DEF MmuInv, MmuTypes
<1>3. q \in live /\ mmu_switch(m, q) /\ UNCHANGED <<loading, live>>
  BY DEF Switch
<1>4. /\ m' \in Mem /\ window' \in [Pages -> Value] /\ curr_vm_pid' = q /\ SameFrames(m, m')
      /\ \A p \in Nat, g \in Pages :
            Held1(m', Existing, window', q, p, g) =
            Held1(m, Existing, window, curr_vm_pid, p, g)
  BY <1>1, <1>2, <1>3, SwitchMemory
<1>5. Existing' = Existing /\ (Idle' <=> Idle)
  BY <1>3 DEF Existing, Idle
<1>6. /\ \A p, g : HeldFor(m', Existing, p, g) = HeldFor(m, Existing, p, g)
      /\ FramesKept(m', Existing, loading.pid)
  BY <1>2, <1>4, FramesSame, SMT
<1>7. MmuTypes'
  BY <1>3, <1>4, <1>5 DEF MmuInv, MmuTypes
<1>8. PagesLoaded'
  BY <1>3, <1>5, <1>6, ZenonT(30) DEF MmuInv, PagesLoaded
<1>9. MmuInv'
  BY <1>3, <1>5, <1>6, <1>7, <1>8 DEF MmuInv
<1>10. absSpace' = absSpace
  BY <1>1, <1>4, <1>5, SpaceHeld
<1> QED BY <1>4, <1>9, <1>10 DEF AS!SwitchTo, SameFrames


(* mmu_free of p, then mmu_switch to q *)
LEMMA EndStep ==
    ASSUME MmuInv, NEW p \in Pids, NEW q \in Pids, Free(p, q)
    PROVE  MmuInv' /\ m'.translation = m.translation /\ AS!Remove(p, q)
<1> DEFINE n == loading.pid
           r == mmu_free(m, p)
           D == Existing \ {p}
<1>1. /\ Existing \in SUBSET Nat /\ n \in Nat /\ Pids \in SUBSET Nat /\ 0 \notin Pids
      /\ live \in SUBSET Existing
  BY ExistingTypes DEF MmuInv
<1>2. /\ m \in Mem /\ window \in [Pages -> Value] /\ FramesKept(m, Existing, n)
  BY DEF MmuInv, MmuTypes
<1>3. /\ p \in live /\ q \in live \ {p} /\ mmu_switch(r, q)
      /\ live' = live \ {p} /\ UNCHANGED loading
  BY DEF Free
<1>4. p \in Nat \ {0} /\ q \in Nat /\ D \in SUBSET Nat
  BY <1>1
<1>5. /\ FramesKept(r, D, n)
      /\ \A a \in Nat \ {p}, h \in Pages : HeldFor(r, D, a, h) = HeldFor(m, Existing, a, h)
      /\ \A h \in Pages : HeldFor(r, D, p, h) = {}
  BY <1>1, <1>2, <1>4, FreeFrames
<1>6. r \in Mem /\ r.data = m.data /\ r.translation = m.translation
  BY <1>2, FreeFields DEF Same
<1> HIDE DEF r, D
<1>7. /\ m' \in Mem /\ window' \in [Pages -> Value] /\ curr_vm_pid' = q /\ SameFrames(r, m')
      /\ \A a \in Nat, g \in Pages :
            Held1(m', D, window', q, a, g) = Held1(r, D, window, curr_vm_pid, a, g)
  BY <1>1, <1>2, <1>3, <1>4, <1>5, <1>6, SwitchMemory
<1>8. (Idle' <=> Idle) /\ (~Idle => n # p)
  BY <1>3 DEF Idle, MmuInv, MmuTypes
<1>9. Existing' = D
  BY <1>3, <1>8 DEF Existing, D
<1>10. /\ \A a, g : HeldFor(m', D, a, g) = HeldFor(r, D, a, g)
       /\ FramesKept(m', D, n)
  BY <1>5, <1>7, FramesSame, SMT
<1>11. MmuTypes'
  BY <1>3, <1>7, <1>8 DEF MmuInv, MmuTypes
<1>12. PagesLoaded'
  <2>1. ASSUME NEW a \in live', NEW g \in Pages
        PROVE  HeldFor(m', Existing', a, g) # {}
    <3>1. a \in live /\ a \in Nat \ {p}
      BY <1>1, <1>3
    <3> QED BY <1>5, <1>9, <1>10, <3>1, SMT DEF MmuInv, PagesLoaded
  <2>2. ASSUME ~Idle', NEW g \in Pages
        PROVE  HeldFor(m', Existing', n, g) = {} <=> g \in Range(loading.left)
    <3>1. n \in Nat \ {p} /\ ~Idle
      BY <1>1, <1>8, <2>2
    <3> QED BY <1>5, <1>9, <1>10, <3>1, SMT DEF MmuInv, PagesLoaded
  <2> QED BY <1>3, <2>1, <2>2 DEF PagesLoaded
<1>13. MmuInv'
  BY <1>3, <1>9, <1>10, <1>11, <1>12 DEF MmuInv
<1>14. ASSUME NEW a \in Pids, NEW g \in Pages
       PROVE  Held1(m', Existing', window', curr_vm_pid', a, g) =
                 IF a = p THEN NONE ELSE Held1(m, Existing, window, curr_vm_pid, a, g)
  <2>1. /\ a \in Nat
        /\ Held1(m', Existing', window', curr_vm_pid', a, g) =
           Held1(r, D, window, curr_vm_pid, a, g)
    BY <1>1, <1>7, <1>9
  <2>2. CASE a = p
    BY <1>5, <2>1, <2>2 DEF Held1
  <2>3. CASE a # p
    <3>1. HeldFor(r, D, a, g) = HeldFor(m, Existing, a, g)
      BY <1>5, <2>1, <2>3
    <3> QED BY <1>6, <2>1, <2>3, <3>1 DEF Held1
  <2> QED BY <2>2, <2>3
<1>15. absSpace' = [absSpace EXCEPT ![p] = [g \in Pages |-> NONE]]
  BY <1>14, SpaceHeld
<1> QED BY <1>6, <1>7, <1>13, <1>15 DEF AS!Remove, SameFrames

(* a store changes the page it is made to, in the window or in its frame *)
LEMMA StoreMemory ==
    ASSUME MmuInv, NEW g \in Pages, NEW v \in Value, Store(g, v)
    PROVE  /\ m' \in Mem /\ SameFrames(m, m') /\ window' \in [Pages -> Value]
           /\ \A p \in Pids, h \in Pages :
                 Held1(m', Existing, window', curr_vm_pid, p, h) =
                    IF p = curr_vm_pid /\ h = g THEN v
                    ELSE Held1(m, Existing, window, curr_vm_pid, p, h)
<1> DEFINE c == curr_vm_pid
<1>1. /\ Existing \in SUBSET Nat /\ Pids \in SUBSET Nat /\ live \in SUBSET Existing
      /\ loading.pid \in Nat
  BY ExistingTypes DEF MmuInv
<1>2. c \in live /\ c \in Nat /\ c \in Existing
  BY <1>1 DEF Store
<1>3. m \in Mem /\ window \in [Pages -> Value] /\ FramesKept(m, Existing, loading.pid)
  BY DEF MmuInv, MmuTypes
<1>4. HeldFor(m, Existing, c, g) # {}
  BY <1>2 DEF MmuInv, PagesLoaded
<1>5. PICK f \in Frames : HeldFor(m, Existing, c, g) = {f}
  BY <1>2, <1>4, FrameOf DEF MmuInv
<1>6. CASE m.translation = "SOFT_TLB"
  <2>1. window' = [window EXCEPT ![g] = v] /\ m' = m
    BY <1>6 DEF Store
  <2>2. window' \in [Pages -> Value]
    BY <1>3, <2>1
  <2>3. ASSUME NEW p \in Pids, NEW h \in Pages
        PROVE  Held1(m', Existing, window', c, p, h) =
                  IF p = c /\ h = g THEN v ELSE Held1(m, Existing, window, c, p, h)
    <3>1. CASE p = c /\ h = g
      BY <1>3, <1>4, <1>6, <2>1, <3>1 DEF Held1
    <3>2. CASE ~(p = c /\ h = g)
      BY <1>3, <2>1, <3>2 DEF Held1
    <3> QED BY <3>1, <3>2
  <2> QED BY <1>3, <2>1, <2>2, <2>3 DEF SameFrames
<1>7. CASE m.translation # "SOFT_TLB"
  <2> DEFINE D == [m.data EXCEPT ![f] = v]
  <2>1. f = m.pt[Leaf(m, c, g)][g[3]]
    BY <1>5, <1>7 DEF HeldFor, PageFrame
  <2>2. m' = [m EXCEPT !.data[f] = v] /\ window' = window
    BY <1>7, <2>1 DEF Store
  <2>3. m.data \in Contents
    BY <1>3 DEF Mem
  <2>4. /\ D \in Contents /\ D[f] = v /\ (\A h \in Frames \ {f} : D[h] = m.data[h])
        /\ m' = [m EXCEPT !.data = D]
    BY <2>2, <2>3 DEF Contents
  <2> HIDE DEF D
  <2>5. m' \in Mem /\ SameFrames(m, m') /\ m'.data = D
    BY <1>3, <2>4 DEF Mem, SameFrames
  <2>6. \A p, h : HeldFor(m', Existing, p, h) = HeldFor(m, Existing, p, h)
    BY <2>5, FramesSame, SMT
  <2>7. ASSUME NEW p \in Pids, NEW h \in Pages
        PROVE  Held1(m', Existing, window', c, p, h) =
                  IF p = c /\ h = g THEN v ELSE Held1(m, Existing, window, c, p, h)
    <3>0. p \in Nat /\ m'.translation # "SOFT_TLB"
      BY <1>1, <1>7, <2>5 DEF SameFrames
    <3>1. CASE p = c /\ h = g
      <4>1. Min({f}) = f
        BY SingleFrame
      <4> QED BY <1>5, <2>4, <2>5, <2>6, <3>0, <3>1, <4>1, SMT DEF Held1
    <3>2. CASE ~(p = c /\ h = g) /\ HeldFor(m, Existing, p, h) = {}
      BY <2>6, <3>2 DEF Held1
    <3>3. CASE ~(p = c /\ h = g) /\ HeldFor(m, Existing, p, h) # {}
      <4>1. PICK k \in Frames : HeldFor(m, Existing, p, h) = {k}
        BY <3>0, <3>3, FrameOf DEF MmuInv
      <4>2. \A x \in HeldFor(m, Existing, p, h) \intersect HeldFor(m, Existing, c, g) :
               p = c /\ h = g
        BY <1>1, <1>2, <1>3, <3>0, OneFrame
      <4>3. k # f
        BY <1>5, <3>3, <4>1, <4>2
      <4>4. D[k] = m.data[k] /\ Min({k}) = k
        BY <2>4, <4>3, SingleFrame
      <4>5. Held1(m', Existing, window', c, p, h) = D[k]
        BY <2>5, <2>6, <3>0, <4>1, <4>4 DEF Held1
      <4>6. Held1(m, Existing, window, c, p, h) = m.data[k]
        BY <1>7, <4>1, <4>4 DEF Held1
      <4> QED BY <3>3, <4>4, <4>5, <4>6
    <3> QED BY <3>1, <3>2, <3>3
  <2> QED BY <1>3, <2>2, <2>5, <2>7
<1> QED BY <1>6, <1>7

LEMMA StoreStep ==
    ASSUME MmuInv, NEW g \in Pages, NEW v \in Value, Store(g, v)
    PROVE  MmuInv' /\ m'.translation = m.translation /\ AS!StoreTo(g, v)
<1> DEFINE c == curr_vm_pid
<1>1. /\ m' \in Mem /\ SameFrames(m, m') /\ window' \in [Pages -> Value]
      /\ \A p \in Pids, h \in Pages :
            Held1(m', Existing, window', c, p, h) =
               IF p = c /\ h = g THEN v ELSE Held1(m, Existing, window, c, p, h)
  BY StoreMemory
<1>2. UNCHANGED <<curr_vm_pid, loading, live>> /\ c \in live
  BY DEF Store
<1>3. Existing' = Existing /\ (Idle' <=> Idle)
  BY <1>2 DEF Existing, Idle
<1>4. /\ \A p, h : HeldFor(m', Existing, p, h) = HeldFor(m, Existing, p, h)
      /\ FramesKept(m', Existing, loading.pid)
  BY <1>1, FramesSame, SMT DEF MmuInv
<1>5. MmuTypes'
  BY <1>1, <1>2, <1>3 DEF MmuInv, MmuTypes
<1>6. PagesLoaded'
  BY <1>2, <1>3, <1>4, ZenonT(30) DEF MmuInv, PagesLoaded
<1>7. MmuInv'
  BY <1>2, <1>3, <1>4, <1>5, <1>6 DEF MmuInv
<1>8. /\ Existing \in SUBSET Pids /\ Pids \in SUBSET Nat /\ live \in SUBSET Existing
  BY ExistingTypes DEF MmuInv
<1>9. c \in Pids /\ c \in Nat
  BY <1>2, <1>8
<1>10. Held1(m, Existing, window, c, c, g) \in Value
  <2>1. HeldFor(m, Existing, c, g) # {}
    BY <1>2 DEF MmuInv, PagesLoaded
  <2>2. PICK f \in Frames : HeldFor(m, Existing, c, g) = {f}
    BY <1>9, <2>1, FrameOf DEF MmuInv
  <2>3. Min({f}) = f
    BY SingleFrame
  <2>4. m.data \in Contents /\ window \in [Pages -> Value]
    BY DEF MmuInv, MmuTypes, Mem
  <2>5. m.data[f] \in Value /\ window[g] \in Value
    BY <2>4 DEF Contents
  <2> QED BY <2>2, <2>3, <2>5 DEF Held1
<1>11. absSpace[c][g] # NONE
  BY <1>9, <1>10, Sizes, SpaceHeld
<1>12. absSpace' = [absSpace EXCEPT ![c][g] = v]
  BY <1>1, <1>2, <1>3, <1>9, SpaceHeld, ZenonT(30)
<1> QED BY <1>1, <1>2, <1>7, <1>9, <1>11, <1>12 DEF AS!StoreTo, SameFrames

(* a store into a frame changes the page kept there, unless that is in the *)
(* window                                                                  *)
LEMMA StoreFrameStep ==
    ASSUME MmuInv, NEW f \in Frames, NEW v \in Value, StoreFrame(f, v)
    PROVE  /\ MmuInv' /\ m'.translation = m.translation /\ UNCHANGED curr_vm_pid
           /\ \/ absSpace' = absSpace
              \/ \E p \in Pids, g \in Pages : AS!StoreAcross(p, g, v)
<1> DEFINE c == curr_vm_pid
           p == m.table[f].pid
           g == m.table[f].page
           D == [m.data EXCEPT ![f] = v]
<1>1. /\ m.translation = "SOFT_TLB" /\ m.table[f].use /\ m' = [m EXCEPT !.data[f] = v]
      /\ UNCHANGED <<window, curr_vm_pid, loading, live>> /\ c \in live
  BY DEF StoreFrame
<1>2. m \in Mem /\ m.data \in Contents /\ FramesKept(m, Existing, loading.pid) /\ MmuTypes
  BY DEF MmuInv, MmuTypes, Mem
<1>3. /\ Existing \in SUBSET Nat /\ Existing \in SUBSET Pids /\ live \in SUBSET Existing
      /\ Pids \in SUBSET Nat /\ loading.pid \in Nat
  BY ExistingTypes DEF MmuInv
<1>4. p \in Existing /\ g \in Pages
  BY <1>1, <1>2 DEF FramesKept, SoftOwned
<1>5. p \in Pids /\ p \in Nat /\ c \in Pids
  BY <1>1, <1>3, <1>4
<1>6. HeldFor(m, Existing, p, g) = {f}
  <2>1. f \in HeldFor(m, Existing, p, g)
    BY <1>1 DEF HeldFor, Owns
  <2> QED BY <1>2, <1>4, <1>5, <2>1, FrameOf
<1> HIDE DEF p, g
<1>7. /\ D \in Contents /\ D[f] = v /\ (\A h \in Frames \ {f} : D[h] = m.data[h])
      /\ m' = [m EXCEPT !.data = D]
  BY <1>1, <1>2 DEF Contents
<1> HIDE DEF D
<1>8. m' \in Mem /\ SameFrames(m, m') /\ m'.data = D /\ m'.translation = "SOFT_TLB"
  BY <1>1, <1>2, <1>7 DEF Mem, SameFrames
<1>9. Existing' = Existing /\ (Idle' <=> Idle)
  BY <1>1 DEF Existing, Idle
<1>10. /\ \A q, h : HeldFor(m', Existing, q, h) = HeldFor(m, Existing, q, h)
       /\ FramesKept(m', Existing, loading.pid)
  BY <1>2, <1>8, FramesSame, SMT
<1>11. MmuTypes'
  BY <1>1, <1>8, <1>9 DEF MmuInv, MmuTypes
<1>12. PagesLoaded'
  <2>1. loading' = loading /\ live' = live
    BY <1>1
  <2> QED BY <1>9, <1>10, <2>1, ZenonT(30) DEF MmuInv, PagesLoaded
<1>13. MmuInv'
  BY <1>1, <1>9, <1>10, <1>11, <1>12 DEF MmuInv
<1>14. ASSUME NEW q \in Pids, NEW h \in Pages
       PROVE  Held1(m', Existing', window', c', q, h) =
                 IF q = p /\ h = g /\ p # c THEN v ELSE Held1(m, Existing, window, c, q, h)
  <2>1. HeldFor(m', Existing', q, h) = HeldFor(m, Existing, q, h) /\ q \in Nat
    BY <1>3, <1>9, <1>10
  <2>2. CASE HeldFor(m, Existing, q, h) = {}
    BY <1>6, <2>1, <2>2 DEF Held1
  <2>3. CASE HeldFor(m, Existing, q, h) # {}
    <3>1. PICK k \in Frames : HeldFor(m, Existing, q, h) = {k}
      BY <1>2, <2>1, <2>3, FrameOf
    <3>2. k = f <=> q = p /\ h = g
      <4>1. \A x \in HeldFor(m, Existing, q, h) \intersect HeldFor(m, Existing, p, g) :
               q = p /\ h = g
        BY <1>2, <1>3, <1>4, <1>5, <2>1, OneFrame
      <4> QED BY <1>6, <3>1, <4>1
    <3>3. Min({k}) = k
      BY SingleFrame
    <3>4. Held1(m', Existing', window', c', q, h) = IF q = c THEN window[h] ELSE D[k]
      <4>1. HeldFor(m', Existing', q, h) = {k} /\ window' = window /\ c' = c
        BY <1>1, <2>1, <3>1
      <4> QED BY <1>8, <3>3, <4>1 DEF Held1
    <3>5. Held1(m, Existing, window, c, q, h) = IF q = c THEN window[h] ELSE m.data[k]
      BY <1>1, <3>1, <3>3 DEF Held1
    <3> QED BY <1>7, <3>2, <3>4, <3>5
  <2> QED BY <2>2, <2>3
<1>15. CASE p = c
  <2>1. absSpace' = absSpace
    BY <1>14, <1>15, SpaceHeld
  <2> QED BY <1>1, <1>8, <1>13, <2>1
<1>16. CASE p # c
  <2>1. Held1(m, Existing, window, c, p, g) \in Value
    <3>1. Min({f}) = f /\ m.data[f] \in Value
      BY <1>2, SingleFrame DEF Contents
    <3> QED BY <1>6, <1>16, <3>1 DEF Held1
  <2>2. absSpace[p][g] # NONE
    BY <1>4, <1>5, <2>1, Sizes, SpaceHeld
  <2>3. absSpace' = [absSpace EXCEPT ![p][g] = v]
    BY <1>4, <1>5, <1>14, <1>16, SpaceHeld, ZenonT(30)
  <2>4. AS!StoreAcross(p, g, v)
    BY <1>1, <1>5, <2>2, <2>3 DEF AS!StoreAcross
  <2> QED BY <1>1, <1>4, <1>5, <1>8, <1>13, <2>4
<1> QED BY <1>15, <1>16


-----------------------------------------------------------------------------
(* The theorems                                                            *)

LEMMA MmuInit ==
    ASSUME Init
    PROVE  MmuInv /\ AS!ASInit
<1>1. PICK t \in {"SOFT_TLB", "PAGE_TABLE"} : m = mmu_init(t)
  BY DEF Init
<1>2. /\ m \in Mem /\ FramesKept(m, {1}, 1)
      /\ \A p \in Nat, g \in Pages : HeldFor(m, {1}, p, g) = {}
  BY <1>1, InitFrames
<1>3. AppPages \in Seq(Pages) /\ AppPages # <<>> /\ Distinct(AppPages) /\ Range(AppPages) = Pages
  BY MmuAssumption, SMT DEF Distinct, Pages, Range
<1>4. loading.pid = 1 /\ loading.left = AppPages /\ live = {} /\ curr_vm_pid = NONE
  BY DEF Init, GPID_PROCESS
<1>5. ~Idle /\ Existing = {1}
  BY <1>3, <1>4 DEF Idle, Existing
<1>6. window \in [Pages -> Value]
  BY Sizes DEF Init
<1>7. 1 \in Pids /\ Pids \in SUBSET Nat
  BY Sizes, SMT DEF Pids
<1>8. MmuTypes
  <2>1. loading \in [pid : Pids, left : Seq(Pages)]
    BY <1>3, <1>7 DEF Init, GPID_PROCESS
  <2> QED BY <1>2, <1>3, <1>4, <1>6, <2>1 DEF MmuTypes
<1>9. PagesLoaded
  BY <1>2, <1>3, <1>4, <1>5 DEF PagesLoaded
<1>10. absSpace = [p \in Pids |-> [g \in Pages |-> NONE]]
  BY <1>2, <1>5, <1>7, SpaceHeld DEF Held1
<1>11. (m.translation = "PAGE_TABLE") \in BOOLEAN
  OBVIOUS
<1> QED BY <1>2, <1>4, <1>5, <1>8, <1>9, <1>10, <1>11 DEF MmuInv, AS!ASInit

LEMMA MmuStep ==
    ASSUME MmuInv, [Next]_mmuVars
    PROVE  MmuInv' /\ [AS!ASNext]_<<absSpace, curr_vm_pid, m.translation = "PAGE_TABLE">>
<1>1. CASE LoadPage
  <2>1. CASE Failed(Loaded(m, loading.pid, Head(loading.left)))
    <3>1. UNCHANGED curr_vm_pid
      BY <1>1 DEF LoadPage
    <3> QED BY <1>1, <2>1, <3>1, LoadFails
  <2>2. CASE ~Failed(Loaded(m, loading.pid, Head(loading.left)))
    BY <1>1, <2>2, LoadSucceeds DEF AS!ASNext, AS!Change
  <2> QED BY <2>1, <2>2
<1>2. CASE Spawn
  <2>1. UNCHANGED <<m, curr_vm_pid>>
    BY <1>2 DEF Spawn
  <2> QED BY <1>2, <2>1, SpawnStep
<1>3. ASSUME NEW p \in Pids, Switch(p)
      PROVE  MmuInv' /\ AS!ASNext
  BY <1>3, SwitchStep DEF AS!ASNext, AS!Change
<1>4. ASSUME NEW p \in Pids, NEW q \in Pids, Free(p, q)
      PROVE  MmuInv' /\ AS!ASNext
  BY <1>4, EndStep DEF AS!ASNext, AS!Change
<1>5. ASSUME NEW g \in Pages, NEW v \in Value, Store(g, v)
      PROVE  MmuInv' /\ AS!ASNext
  BY <1>5, StoreStep DEF AS!ASNext, AS!Change
<1>6. ASSUME NEW f \in Frames, NEW v \in Value, StoreFrame(f, v)
      PROVE  MmuInv' /\ [AS!ASNext]_<<absSpace, curr_vm_pid, m.translation = "PAGE_TABLE">>
  BY <1>6, StoreFrameStep DEF AS!ASNext, AS!Change
<1>7. CASE UNCHANGED mmuVars
  <2>1. /\ m' = m /\ window' = window /\ curr_vm_pid' = curr_vm_pid
        /\ loading' = loading /\ live' = live
    BY <1>7 DEF mmuVars
  <2>2. Existing' = Existing /\ (Idle' <=> Idle)
    BY <2>1 DEF Existing, Idle
  <2>3. MmuInv'
    BY <2>1, <2>2 DEF MmuInv, MmuTypes, PagesLoaded
  <2>4. absSpace' = absSpace
    BY <2>1, <2>2, SpaceHeld
  <2> QED BY <2>1, <2>3, <2>4
<1>8. CASE Halted
  BY <1>7, <1>8 DEF Halted
<1> QED BY <1>1, <1>2, <1>3, <1>4, <1>5, <1>6, <1>7, <1>8 DEF Next

(* For any number of frames, entries, processes and pages, and in both     *)
(* translations: every frame has one role, and a process that runs has all *)
(* of its pages (mmu_alloc, walk_page_tables, soft_tlb_map, mmu_free).     *)
THEOREM MemoryInvariant == Spec => []MmuInv
<1>1. Init => MmuInv
  BY MmuInit
<1>2. MmuInv /\ [Next]_mmuVars => MmuInv'
  BY MmuStep
<1> QED BY <1>1, <1>2, PTL DEF Spec

(* Both translations implement AddressSpaces (soft_tlb_switch,             *)
(* page_table_map, mmu_free): with page tables a page of a process changes *)
(* only by its own stores; with the software TLB also by a store of        *)
(* another app into the frame it is kept in, and by nothing else.          *)
THEOREM MemoryIsPrivate == Spec => PrivateMemory
<1>1. Init => AS!ASInit
  BY MmuInit
<1>2. MmuInv /\ [Next]_mmuVars =>
         [AS!ASNext]_<<absSpace, curr_vm_pid, m.translation = "PAGE_TABLE">>
  BY MmuStep
<1>3. AS!asVars = <<absSpace, curr_vm_pid, m.translation = "PAGE_TABLE">>
  BY DEF AS!asVars
<1> QED BY <1>1, <1>2, <1>3, MemoryInvariant, PTL DEF Spec, PrivateMemory, AS!ASSpec, AS!asVars

LEMMA TableRole ==
    ASSUME m \in Mem, m.translation # "SOFT_TLB", NEW P, NEW w \in Roles, Shape(m, w, P),
           NEW p \in P, p \in Nat, NEW t \in Tables(p)
    PROVE  t \in Frames /\ w[t].kind \in Kinds /\ w[t].pid = p
<1> DEFINE b == m.base[p]
           l1 == Range(m.pt[b]) \ {NONE}
<1>1. ~(p >= NBASES) /\ b # NONE
  BY DEF Tables
<1>2. t \in {b} \union l1 \union UNION {Range(m.pt[u]) \ {NONE} : u \in l1}
  BY <1>1 DEF Tables
<1>3. p \in P \intersect Bases
  BY <1>1, Sizes, SMT DEF Bases
<1>4. b \in Frames /\ w[b].kind = "root" /\ w[b].pid = p
  BY <1>1, <1>3, ZenonT(30) DEF Mem, Roots, Shape, RootsPlaced
<1>5. \A u \in Frames : DOMAIN m.pt[u] = Entries
  BY DEF Mem, Trees
<1>6. ASSUME NEW u \in l1
      PROVE  u \in Frames /\ w[u].kind = "l1" /\ w[u].pid = p
  <2>1. PICK v \in Entries : u = m.pt[b][v] /\ u # NONE
    BY <1>4, <1>5, <1>6 DEF Range
  <2>2. UnderRoot(w, b, v, u)
    BY <1>4, <2>1 DEF Shape, EntriesPlaced
  <2> QED BY <1>4, <2>2 DEF UnderRoot
<1>7. ASSUME NEW u \in l1, t \in Range(m.pt[u]) \ {NONE}
      PROVE  t \in Frames /\ w[t].kind = "leaf" /\ w[t].pid = p
  <2>0. u \in Frames /\ w[u].kind = "l1" /\ w[u].pid = p
    BY <1>6, <1>7
  <2>1. PICK v \in Entries : t = m.pt[u][v] /\ t # NONE
    BY <1>5, <1>7, <2>0 DEF Range
  <2>2. UnderL1(w, u, v, t)
    BY <2>0, <2>1 DEF Shape, EntriesPlaced
  <2> QED BY <2>0, <2>2 DEF UnderL1
<1> HIDE DEF b, l1
<1> QED BY <1>2, <1>4, <1>6, <1>7, SMT DEF Kinds

LEMMA DisjointByInv ==
    ASSUME MmuInv
    PROVE  FramesDisjoint
<1>1. /\ Existing \in SUBSET Nat /\ loading.pid \in Nat
      /\ m \in Mem /\ FramesKept(m, Existing, loading.pid)
  BY ExistingTypes DEF MmuInv, MmuTypes
<1>2. \A p \in Nat, g \in Pages, q \in Nat, h \in Pages :
         \A f \in FramesOf(p, g) \intersect FramesOf(q, h) : p = q /\ g = h
  BY <1>1, OneFrame, FramesOfHeld
<1>3. CASE m.translation = "SOFT_TLB"
  <2>1. \A p : Tables(p) = {}
    BY <1>3 DEF Tables
  <2>2. \A p, f : f \in Held(p) => \E g \in Pages : f \in FramesOf(p, g)
    BY <2>1 DEF Held
  <2>3. ASSUME NEW p \in Existing \union {0}, NEW q \in Existing \union {0}, p # q
        PROVE  Held(p) \intersect Held(q) = {}
    BY <1>1, <1>2, <2>2, <2>3, SMT
  <2> QED BY <1>1, <1>2, <2>1, <2>3, SMT DEF FramesDisjoint
<1>4. CASE m.translation # "SOFT_TLB"
  <2>1. PICK w \in Roles : Shape(m, w, Existing \union {0})
    BY <1>1, <1>4 DEF FramesKept, TreesPlaced
  <2>2. ASSUME NEW p \in Existing \union {0}, NEW t \in Tables(p)
        PROVE  w[t].kind \in Kinds /\ w[t].pid = p
    <3>1. p \in Nat
      BY <1>1, SMT
    <3> QED BY <1>1, <1>4, <2>1, <3>1, TableRole, SMT
  <2>3. ASSUME NEW p \in Existing \union {0}, NEW g \in Pages, NEW f \in FramesOf(p, g)
        PROVE  w[f].kind = "page" /\ w[f].pid = p
    <3>1. p \in Nat /\ f \in HeldFor(m, Existing, p, g)
      BY <1>1, <2>3, FramesOfHeld, SMT
    <3>2. PagePlaced(m, Existing, w, p, g, f)
      BY <1>1, <1>4, <2>1, <3>1, PageHasRole
    <3> QED BY <3>2 DEF PagePlaced
  <2>4. ASSUME NEW p \in Existing \union {0}, NEW f \in Held(p)
        PROVE  w[f].pid = p
    BY <2>2, <2>3, <2>4, SMT DEF Held
  <2>5. \A p \in Existing, g \in Pages : FramesOf(p, g) \intersect Tables(p) = {}
    BY <2>2, <2>3 DEF Kinds
  <2> QED BY <1>1, <1>2, <2>4, <2>5, SMT DEF FramesDisjoint
<1> QED BY <1>3, <1>4

(* No frame serves two processes, as a table and as a page, or as two      *)
(* pages: mmu_alloc gives out only frames that are free, and mmu_free      *)
(* frees those of a process that ended.                                    *)
THEOREM FramesAlwaysDisjoint == Spec => []FramesDisjoint
<1>1. MmuInv => FramesDisjoint
  BY DisjointByInv
<1> QED BY <1>1, MemoryInvariant, PTL

(* With the software TLB every frame in use belongs to a process that      *)
(* exists: soft_tlb_map records the owner by which mmu_free finds it.      *)
THEOREM SoftTlbLeaksNothing == Spec => []SoftTlbKeepsFrames
<1>1. MmuInv => SoftTlbKeepsFrames
  <2> SUFFICES ASSUME MmuInv, m.translation = "SOFT_TLB", NEW f \in Frames, m.table[f].use
               PROVE  \E p \in Existing \union {0} : f \in Held(p)
    BY DEF SoftTlbKeepsFrames, NoFrameLeaked
  <2> DEFINE p == m.table[f].pid
             g == m.table[f].page
  <2>1. SoftOwned(m, Existing)
    BY DEF MmuInv, FramesKept
  <2>2. p \in Existing /\ g \in Pages
    BY <2>1 DEF SoftOwned
  <2>3. f \in FramesOf(p, g)
    BY DEF FramesOf, Owns
  <2>4. f \in Held(p)
    BY <2>2, <2>3 DEF Held
  <2> QED BY <2>2, <2>4
<1> QED BY <1>1, MemoryInvariant, PTL
=============================================================================
