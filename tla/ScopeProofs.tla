---------------------------- MODULE ScopeProofs ----------------------------
(***************************************************************************)
(* The scope probe, for every word size, alignment, option and campaign.   *)
(*                                                                         *)
(* First, the layout is sound: the slots of all sessions lie within their  *)
(* regions, apart from each other.                                         *)
(*                                                                         *)
(* Second, memory is registered while it is used, and PASS is earned and   *)
(* FAIL has a cause whatever the product does.  For the verdicts the       *)
(* invariant describes memory: a byte holds what the write that covered it *)
(* last brought, or what Prepare left.                                     *)
(*                                                                         *)
(* Third, the outcome of a campaign on a product of known abilities is     *)
(* right.  PASS of a case implies that the product supports it, FAIL that  *)
(* it does not: an exact landing fills its payload and, slots being        *)
(* disjoint, touches no guard and no other payload.                        *)
(***************************************************************************)
EXTENDS ScopeCampaign, TLAPS

-----------------------------------------------------------------------------
(* Checked arithmetic. *)

\* align_down returns a multiple at most an alignment below.
LEMMA AlignDown ==
    ASSUME NEW v \in Nat
    PROVE  align_down(v) \in Nat /\ align_down(v) <= v
<1>1. kAlign \in Nat \ {0}
  BY LayoutAssumption, Zenon
<1> QED
  BY <1>1, SMT DEF align_down

\* checked_add and checked_mul are exact or Overflow.
LEMMA CheckedAdd ==
    ASSUME NEW a \in SizeT, NEW b \in SizeT
    PROVE  checked_add(a, b) = Overflow \/ (checked_add(a, b) = a + b /\ a + b \in SizeT)
  BY LayoutAssumption DEF checked_add, Overflow, SizeT

\* align_up is Overflow or not below.
LEMMA AlignUp ==
    ASSUME NEW v \in SizeT
    PROVE  align_up(v) = Overflow \/ (align_up(v) \in SizeT /\ v <= align_up(v))
<1>1. kAlign \in Nat \ {0} /\ kAlign - 1 \in SizeT
  BY LayoutAssumption DEF SizeT
<1>2. CASE checked_add(v, kAlign - 1) = Overflow
  BY <1>2, Zenon DEF align_up
<1>3. CASE checked_add(v, kAlign - 1) # Overflow
  <2>1. checked_add(v, kAlign - 1) = v + (kAlign - 1) /\ v + (kAlign - 1) \in SizeT
    BY <1>1, <1>3, CheckedAdd, Zenon
  <2>2. align_up(v) = align_down(v + (kAlign - 1))
    BY <1>3, <2>1, Zenon DEF align_up
  <2>3. v + (kAlign - 1) < align_down(v + (kAlign - 1)) + kAlign
    <3>1. \A n \in Nat : n < (n \div kAlign) * kAlign + kAlign
      BY <1>1, SMT
    <3> QED
      BY <1>1, <3>1 DEF align_down, SizeT
  <2> QED
    BY <1>1, <2>1, <2>2, <2>3, AlignDown, LayoutAssumption DEF SizeT
<1> QED
  BY <1>2, <1>3, Zenon

\* checked_mul with the factors of the layout is exact or Overflow.
LEMMA CheckedMul ==
    ASSUME NEW a \in {0, 1, 2}, NEW b \in SizeT
    PROVE  /\ checked_mul(a, b) = Overflow \/ (checked_mul(a, b) = a * b /\ a * b \in SizeT)
           /\ a * b <= SIZE_MAX => checked_mul(a, b) = a * b
           /\ checked_mul(b, a) = Overflow \/ (checked_mul(b, a) = a * b /\ a * b \in SizeT)
<1>1. SIZE_MAX \in Nat /\ b \in Nat /\ b <= SIZE_MAX
  BY LayoutAssumption DEF SizeT
<1>2. SIZE_MAX \div 1 = SIZE_MAX /\ (b > SIZE_MAX \div 2 <=> 2 * b > SIZE_MAX)
  BY <1>1, SMT
<1>3. b # 0 => (2 > SIZE_MAX \div b <=> 2 * b > SIZE_MAX) /\ (1 > SIZE_MAX \div b <=> b > SIZE_MAX) /\ ~(0 > SIZE_MAX \div b)
  BY <1>1, SMT
<1>4. CASE a = 0
  BY <1>1, <1>3, <1>4 DEF checked_mul, Overflow, SizeT
<1>5. CASE a = 1
  BY <1>1, <1>2, <1>3, <1>5 DEF checked_mul, Overflow, SizeT
<1>6. CASE a = 2
  BY <1>1, <1>2, <1>3, <1>6 DEF checked_mul, Overflow, SizeT
<1> QED
  BY <1>4, <1>5, <1>6, Zenon

-----------------------------------------------------------------------------
(* Layout and arena. *)

\* What a layout promises: the base region holds payload and guard, a cell the payload
\* between two guards.
Roomy(L, xfer, guard) ==
    /\ L.xfer = xfer /\ L.guard = guard
    /\ L.base_region \in SizeT /\ xfer + guard <= L.base_region
    /\ L.cell \in SizeT /\ guard + xfer + guard <= L.cell

\* build_layout keeps the promise unless it fails.
LEMMA LayoutRoomy ==
    ASSUME NEW xfer \in SizeT, NEW guard \in SizeT, LayoutOk(build_layout(xfer, guard))
    PROVE  Roomy(build_layout(xfer, guard), xfer, guard)
<1> DEFINE L == build_layout(xfer, guard)
<1>0. \A x \in SizeT : x # Overflow
  BY DEF SizeT, Overflow
<1>00. align_up(Overflow) = Overflow
  BY LayoutAssumption, Zenon DEF align_up, checked_add, Overflow
<1>1. L.xfer = xfer /\ L.guard = guard
  BY Zenon DEF build_layout
<1>2. L.base_region = align_up(checked_add(xfer, guard)) /\ L.base_region # Overflow
  BY Zenon DEF build_layout, LayoutOk
<1>3. checked_add(xfer, guard) = xfer + guard /\ xfer + guard \in SizeT
  BY <1>00, <1>2, CheckedAdd, Zenon
<1>4. L.base_region \in SizeT /\ xfer + guard <= L.base_region
  BY <1>2, <1>3, AlignUp, Zenon
<1>5. L.cell = align_up(checked_add(checked_add(guard, xfer), guard)) /\ L.cell # Overflow
  BY Zenon DEF build_layout, LayoutOk
<1>6. checked_add(guard, xfer) = guard + xfer /\ guard + xfer \in SizeT
  <2>1. checked_add(guard, xfer) # Overflow
    BY <1>00, <1>5, Zenon DEF checked_add
  <2> QED
    BY <2>1, CheckedAdd, Zenon
<1>7. checked_add(guard + xfer, guard) = guard + xfer + guard /\ guard + xfer + guard \in SizeT
  BY <1>00, <1>5, <1>6, CheckedAdd, Zenon
<1>8. L.cell \in SizeT /\ guard + xfer + guard <= L.cell
  BY <1>5, <1>6, <1>7, AlignUp, Zenon
<1> QED
  BY <1>1, <1>4, <1>8, Zenon DEF Roomy

\* An arena that main() accepts holds the base region and its cells, or two halves.
LEMMA ArenaHolds ==
    ASSUME NEW exp \in Cases, NEW L, NEW xfer \in SizeT, NEW guard \in SizeT, Roomy(L, xfer, guard),
           NEW override \in SizeT, arena_bytes(exp, L, override) # Overflow
    PROVE  /\ arena_bytes(exp, L, override) \in SizeT
           /\ exp # "p" => L.base_region + slots_needed(exp) * L.cell <= arena_bytes(exp, L, override)
           /\ exp = "p" => /\ L.cell <= p_half(arena_bytes(exp, L, override))
                           /\ p_half(arena_bytes(exp, L, override)) \in Nat
                           /\ 2 * p_half(arena_bytes(exp, L, override)) <= arena_bytes(exp, L, override)
<1> DEFINE n == slots_needed(exp)
           derived == arena_for_slots(L, n)
           asked == IF override # 0 THEN override ELSE derived
           two == checked_mul(L.cell, 2)
           arena == IF exp = "p" /\ asked < two THEN two ELSE asked
<1>1. /\ arena_bytes(exp, L, override) = arena
      /\ derived # SIZE_MAX
      /\ exp = "p" => two # Overflow /\ ~(p_half(arena) < L.cell)
      /\ exp # "p" => ~(arena < derived)
  BY Zenon DEF arena_bytes
<1>2. L.base_region \in SizeT /\ L.cell \in SizeT /\ n \in {1, 2}
  BY Zenon DEF Roomy, slots_needed
<1>3. derived = L.base_region + n * L.cell /\ derived \in SizeT
  <2>1. checked_mul(n, L.cell) # Overflow /\ checked_add(L.base_region, checked_mul(n, L.cell)) # Overflow
    BY <1>1, Zenon DEF arena_for_slots, checked_add
  <2>2. checked_mul(n, L.cell) = n * L.cell /\ n * L.cell \in SizeT
    BY <1>2, <2>1, CheckedMul, Zenon
  <2>3. checked_add(L.base_region, n * L.cell) = L.base_region + n * L.cell /\ L.base_region + n * L.cell \in SizeT
    BY <1>2, <2>1, <2>2, CheckedAdd, Zenon
  <2> QED
    BY <2>1, <2>2, <2>3, Zenon DEF arena_for_slots
<1>4. two = Overflow \/ two \in SizeT
  BY <1>2, CheckedMul, Zenon
<1> HIDE DEF n, derived, two
<1>5. arena \in SizeT
  BY <1>1, <1>3, <1>4, Zenon
<1> HIDE DEF arena
<1>6. /\ p_half(arena) \in Nat /\ 2 * p_half(arena) <= arena
  <2>1. arena \in Nat
    BY <1>5, LayoutAssumption DEF SizeT
  <2>2. arena \div 2 \in Nat /\ 2 * (arena \div 2) <= arena
    BY <2>1, SMT
  <2> QED
    BY <2>1, <2>2, AlignDown DEF p_half
<1>7. L.cell \in Nat /\ arena \in Nat /\ derived \in Nat
  BY <1>2, <1>3, <1>5, LayoutAssumption DEF SizeT
<1> QED
  BY <1>1, <1>3, <1>5, <1>6, <1>7 DEF n

-----------------------------------------------------------------------------
(* Slots. *)

\* A cell fits its place and has its guards.
LEMMA CellFits ==
    ASSUME NEW L, NEW xfer \in SizeT \ {0}, NEW guard \in SizeT, Roomy(L, xfer, guard),
           NEW start \in Nat, NEW c, c = CellAt(L, start, start + L.cell)
    PROVE  /\ c # NoSlot
           /\ SlotBytes(c) \subseteq start .. (start + L.cell - 1)
           /\ c.payload.len = xfer
           /\ (c.payload.offset + c.payload.len) .. (c.payload.offset + c.payload.len + guard - 1)
                \subseteq Bytes(c.trail_guard)
           /\ Bytes(c.lead_guard) = (c.payload.offset - guard) .. (c.payload.offset - 1)
<1>1. /\ xfer \in Nat /\ xfer # 0 /\ guard \in Nat /\ L.cell \in Nat /\ guard + xfer + guard <= L.cell
      /\ L.xfer = xfer /\ L.guard = guard
  BY LayoutAssumption DEF Roomy, SizeT
<1>2. /\ c.payload.offset = start + guard /\ c.payload.len = xfer
      /\ c.lead_guard.offset = start /\ c.lead_guard.len = guard
      /\ c.trail_guard.offset = start + guard + xfer
      /\ c.trail_guard.len = start + L.cell - (start + guard + xfer)
  BY <1>1 DEF CellAt, Span
<1>3. c # NoSlot
  BY <1>1, <1>2 DEF NoSlot, Span
<1>4. /\ Bytes(c.payload) = (start + guard) .. (start + guard + xfer - 1)
      /\ Bytes(c.lead_guard) = start .. (start + guard - 1)
      /\ Bytes(c.trail_guard) = (start + guard + xfer) .. (start + L.cell - 1)
  <2>1. start + guard + xfer + (start + L.cell - (start + guard + xfer)) - 1 = start + L.cell - 1
    BY <1>1
  <2> QED
    BY <1>2, <2>1, Zenon DEF Bytes
<1>5. SlotBytes(c) \subseteq start .. (start + L.cell - 1)
  <2>1. \A i : \/ i \in (start + guard) .. (start + guard + xfer - 1)
               \/ i \in start .. (start + guard - 1)
               \/ i \in (start + guard + xfer) .. (start + L.cell - 1)
               => i \in start .. (start + L.cell - 1)
    BY <1>1
  <2> QED
    BY <1>4, <2>1, Zenon DEF SlotBytes
<1>6. (start + guard + xfer) .. (start + guard + xfer + guard - 1) \subseteq Bytes(c.trail_guard)
  <2>1. \A i \in (start + guard + xfer) .. (start + guard + xfer + guard - 1) :
          i \in (start + guard + xfer) .. (start + L.cell - 1)
    BY <1>1
  <2> QED
    BY <1>4, <2>1, Zenon
<1>7. /\ c.payload.offset + c.payload.len = start + guard + xfer
      /\ c.payload.offset = start + guard
  BY <1>2, Zenon
<1>8. (c.payload.offset + c.payload.len) .. (c.payload.offset + c.payload.len + guard - 1)
        \subseteq Bytes(c.trail_guard)
  BY <1>6, <1>7, Zenon
<1>9. Bytes(c.lead_guard) = (c.payload.offset - guard) .. (c.payload.offset - 1)
  <2>1. c.payload.offset - guard = start /\ c.payload.offset - 1 = start + guard - 1
    BY <1>1, <1>7
  <2> QED
    BY <1>4, <2>1, Zenon
<1> QED
  BY <1>2, <1>3, <1>5, <1>8, <1>9, Zenon

\* interior_slot finds cell j in an arena that holds j + 1 cells.
LEMMA InteriorSlot ==
    ASSUME NEW L, NEW xfer \in SizeT, NEW guard \in SizeT, Roomy(L, xfer, guard),
           NEW j \in {0, 1}, NEW arena \in SizeT, L.base_region + (j + 1) * L.cell <= arena
    PROVE  interior_slot(L, j, arena)
             = CellAt(L, L.base_region + j * L.cell, L.base_region + j * L.cell + L.cell)
<1> DEFINE start == L.base_region + j * L.cell
<1>1. /\ SIZE_MAX \in Nat /\ L.base_region \in Nat /\ L.cell \in Nat /\ xfer \in Nat /\ guard \in Nat
      /\ arena \in Nat /\ arena <= SIZE_MAX /\ guard + xfer + guard <= L.cell
      /\ L.xfer = xfer /\ L.guard = guard /\ L.cell \in SizeT
  BY LayoutAssumption DEF Roomy, SizeT
<1>2. start \in Nat /\ j * L.cell \in Nat /\ start + L.cell <= SIZE_MAX /\ start + L.cell <= arena
  <2>1. CASE j = 0
    BY <1>1, <2>1
  <2>2. CASE j = 1
    BY <1>1, <2>2
  <2> QED
    BY <2>1, <2>2, Zenon
<1>3. checked_mul(j, L.cell) = j * L.cell
  BY <1>1, <1>2, CheckedMul
<1> DEFINE jc == j * L.cell
<1>4. jc \in Nat /\ start = L.base_region + jc
  BY <1>2, Zenon
<1> HIDE DEF jc
<1>5. checked_add(L.base_region, jc) = start
  BY <1>1, <1>2, <1>4 DEF checked_add, Overflow
<1> HIDE DEF start
<1>6. /\ checked_add(checked_add(start, guard), xfer) = start + guard + xfer
      /\ checked_add(start, L.cell) = start + L.cell
      /\ start + guard + xfer # Overflow /\ start + L.cell # Overflow
  BY <1>1, <1>2 DEF checked_add, Overflow
<1> QED
  BY <1>1, <1>2, <1>3, <1>5, <1>6 DEF interior_slot, start, jc

\* Where the cell of session w starts, in the cases that land in a cell.
CellStart(w) ==
    IF o.exp = "p" THEN Registration(w).offset
    ELSE IF o.exp = "r" /\ w = "B" THEN Layout.base_region + Layout.cell ELSE Layout.base_region

\* The layout and the arena of options that main() accepts.
LEMMA Accepts ==
    ASSUME o \in Options, Arena # Overflow
    PROVE  /\ Roomy(Layout, o.xfer, o.guard) /\ Arena \in Nat /\ Arena \in SizeT
           /\ o.xfer \in SizeT \ {0} /\ o.guard \in SizeT /\ o.exp \in Cases
           /\ Layout.base_region \in Nat /\ Layout.cell \in Nat
           /\ o.exp # "p" => Layout.base_region + Layout.cell <= Arena
           /\ o.exp = "r" => Layout.base_region + 2 * Layout.cell <= Arena
           /\ o.exp = "p" => /\ p_half(Arena) \in Nat /\ Layout.cell <= p_half(Arena)
                             /\ 2 * p_half(Arena) <= Arena
<1>1. o.xfer \in SizeT \ {0} /\ o.guard \in SizeT /\ o.exp \in Cases /\ o.arena_bytes \in SizeT
  BY Zenon DEF Options
<1>2. LayoutOk(Layout)
  BY Zenon DEF Arena, arena_bytes
<1>3. Roomy(Layout, o.xfer, o.guard)
  BY <1>1, <1>2, LayoutRoomy, Zenon DEF Layout
<1>4. /\ Arena \in SizeT
      /\ o.exp # "p" => Layout.base_region + slots_needed(o.exp) * Layout.cell <= Arena
      /\ o.exp = "p" => /\ Layout.cell <= p_half(Arena) /\ p_half(Arena) \in Nat
                        /\ 2 * p_half(Arena) <= Arena
  BY <1>1, <1>3, ArenaHolds, Zenon DEF Arena
<1>5. Layout.base_region \in Nat /\ Layout.cell \in Nat /\ Arena \in Nat
  BY <1>3, <1>4, LayoutAssumption DEF Roomy, SizeT
<1>6. CASE o.exp = "r"
  <2>1. slots_needed(o.exp) = 2
    BY <1>6, Zenon DEF slots_needed
  <2> QED
    BY <1>1, <1>3, <1>4, <1>5, <1>6, <2>1
<1>7. CASE o.exp # "r"
  <2>1. slots_needed(o.exp) = 1
    BY <1>7, Zenon DEF slots_needed
  <2> QED
    BY <1>1, <1>3, <1>4, <1>5, <1>7, <2>1
<1> QED
  BY <1>6, <1>7, Zenon

\* A session lands in a cell that lies in the registration it uses.
LEMMA CellInside ==
    ASSUME o \in Options, Arena # Overflow, o.exp \notin {"b0", "s0"}, NEW w \in Getters
    PROVE  /\ CellStart(w) \in Nat
           /\ SlotOf(w) = CellAt(Layout, CellStart(w), CellStart(w) + Layout.cell)
           /\ CellStart(w) .. (CellStart(w) + Layout.cell - 1) \subseteq Bytes(LandsIn(w)) \cap 0..(Arena - 1)
<1>1. w \in {"A", "B"} /\ o.exp \in {"i0", "si", "r", "p", "m"}
  BY Accepts, Zenon DEF Getters, Sessions, Cases
<1>2. CASE o.exp = "p"
  <2>1. w = "A" => LandsIn(w) = Span(0, p_half(Arena)) /\ CellStart(w) = 0
    BY <1>2, Zenon DEF LandsIn, Registrars, Sessions, Registration, CellStart, Span
  <2>2. w = "B" => LandsIn(w) = Span(p_half(Arena), Arena - p_half(Arena)) /\ CellStart(w) = p_half(Arena)
    BY <1>2, Zenon DEF LandsIn, Registrars, Sessions, Registration, CellStart, Span
  <2>3. SlotOf(w) = CellAt(Layout, CellStart(w), CellStart(w) + Layout.cell)
    BY <1>2, Zenon DEF SlotOf, half_slot, CellStart
  <2>4. CellStart(w) \in Nat
    BY <1>1, <1>2, <2>1, <2>2, Accepts
  <2>5. CellStart(w) .. (CellStart(w) + Layout.cell - 1) \subseteq Bytes(LandsIn(w)) \cap 0..(Arena - 1)
    BY <1>1, <1>2, <2>1, <2>2, Accepts DEF Bytes, Span
  <2> QED
    BY <2>3, <2>4, <2>5, Zenon
<1>3. CASE o.exp # "p"
  <2> DEFINE j == IF o.exp = "r" /\ w = "B" THEN 1 ELSE 0
  <2>1. LandsIn(w) = Span(0, Arena)
    BY <1>3, Zenon DEF LandsIn, Registration
  <2>2. SlotOf(w) = interior_slot(Layout, j, Arena)
    BY <1>1, <1>3, Zenon DEF SlotOf
  <2>3. /\ j \in {0, 1} /\ Layout.base_region + (j + 1) * Layout.cell <= Arena
        /\ CellStart(w) = Layout.base_region + j * Layout.cell
    BY <1>3, Accepts DEF CellStart
  <2> HIDE DEF j
  <2>4. SlotOf(w) = CellAt(Layout, CellStart(w), CellStart(w) + Layout.cell)
    BY <2>2, <2>3, Accepts, InteriorSlot, Zenon
  <2>5. CellStart(w) \in Nat /\ CellStart(w) + Layout.cell <= Arena
    BY <1>3, Accepts DEF CellStart
  <2>6. CellStart(w) .. (CellStart(w) + Layout.cell - 1) \subseteq 0..(Arena - 1)
    BY <2>5, Accepts
  <2>7. Bytes(LandsIn(w)) = 0..(Arena - 1)
    BY <2>1, Accepts DEF Bytes, Span
  <2> QED
    BY <2>4, <2>5, <2>6, <2>7, Zenon
<1> QED
  BY <1>2, <1>3, Zenon

\* The payload at the base of the arena, in cases b0 and s0.
LEMMA BaseFits ==
    ASSUME o \in Options, Arena # Overflow, o.exp \in {"b0", "s0"}, NEW w \in Getters
    PROVE  SlotFits(w)
<1> DEFINE s == base_slot(Layout)
<1>1. SlotOf(w) = s /\ LandsIn(w) = Span(0, Arena)
  BY Zenon DEF SlotOf, LandsIn, Registration
<1>2. /\ o.xfer \in Nat \ {0} /\ o.guard \in Nat /\ Arena \in Nat /\ Layout.base_region \in Nat
      /\ Layout.xfer = o.xfer /\ o.xfer + o.guard <= Layout.base_region /\ Layout.base_region <= Arena
  BY Accepts, LayoutAssumption DEF Roomy, SizeT
<1>3. /\ s.payload.offset = 0 /\ s.payload.len = o.xfer
      /\ s.lead_guard.offset = 0 /\ s.lead_guard.len = 0
      /\ s.trail_guard.offset = o.xfer /\ s.trail_guard.len = Layout.base_region - o.xfer
  BY <1>2, Zenon DEF base_slot, Span
<1>4. s # NoSlot
  BY <1>2, <1>3 DEF NoSlot, Span
<1> HIDE DEF s
<1>5. /\ Bytes(s.payload) \subseteq 0..(Arena - 1) /\ Bytes(s.lead_guard) \subseteq 0..(Arena - 1)
      /\ Bytes(s.trail_guard) \subseteq 0..(Arena - 1)
      /\ Bytes(Span(0, Arena)) = 0..(Arena - 1)
  BY <1>2, <1>3 DEF Bytes, Span
<1>6. SlotBytes(s) \subseteq Bytes(LandsIn(w)) \cap 0..(Arena - 1)
  BY <1>1, <1>5, Zenon DEF SlotBytes
<1>7. (s.payload.offset + s.payload.len) .. (s.payload.offset + s.payload.len + o.guard - 1)
        \subseteq Bytes(s.trail_guard)
  BY <1>2, <1>3 DEF Bytes
<1> QED
  BY <1>1, <1>3, <1>4, <1>6, <1>7, Zenon DEF SlotFits

\* Every slot of accepted options fits, and two are disjoint.
LEMMA SlotsFit ==
    ASSUME o \in Options, Arena # Overflow
    PROVE  (\A w \in Getters : SlotFits(w)) /\ SlotsDisjoint
<1>1. ASSUME NEW w \in Getters, o.exp \notin {"b0", "s0"}
      PROVE  SlotFits(w) /\ SlotBytes(SlotOf(w)) \subseteq CellStart(w) .. (CellStart(w) + Layout.cell - 1)
  <2>1. /\ CellStart(w) \in Nat
        /\ SlotOf(w) = CellAt(Layout, CellStart(w), CellStart(w) + Layout.cell)
        /\ CellStart(w) .. (CellStart(w) + Layout.cell - 1) \subseteq Bytes(LandsIn(w)) \cap 0..(Arena - 1)
    BY <1>1, CellInside, Zenon
  <2>2. /\ o.xfer \in SizeT \ {0} /\ o.guard \in SizeT /\ Roomy(Layout, o.xfer, o.guard)
    BY Accepts, Zenon
  <2> DEFINE c == SlotOf(w)
  <2>3. /\ c # NoSlot
        /\ SlotBytes(c) \subseteq CellStart(w) .. (CellStart(w) + Layout.cell - 1)
        /\ c.payload.len = o.xfer
        /\ (c.payload.offset + c.payload.len) .. (c.payload.offset + c.payload.len + o.guard - 1)
             \subseteq Bytes(c.trail_guard)
        /\ Bytes(c.lead_guard) = (c.payload.offset - o.guard) .. (c.payload.offset - 1)
    BY <2>1, <2>2, CellFits
  <2>4. SlotBytes(c) \subseteq Bytes(LandsIn(w)) \cap 0..(Arena - 1)
    BY <2>1, <2>3, Zenon
  <2> QED
    BY <2>3, <2>4, Zenon DEF SlotFits
<1>2. ASSUME NEW v \in Getters, NEW w \in Getters, v # w
      PROVE  SlotBytes(SlotOf(v)) \cap SlotBytes(SlotOf(w)) = {}
  <2>1. v \in {"A", "B"} /\ w \in {"A", "B"} /\ o.exp \in {"r", "p"}
    BY <1>2 DEF Getters, Sessions
  <2>2. /\ CellStart(v) \in Nat /\ CellStart(w) \in Nat
        /\ CellStart(v) + Layout.cell <= CellStart(w) \/ CellStart(w) + Layout.cell <= CellStart(v)
    BY <1>2, <2>1, Accepts DEF CellStart, Registration, Span
  <2>3. CellStart(v) .. (CellStart(v) + Layout.cell - 1)
          \cap CellStart(w) .. (CellStart(w) + Layout.cell - 1) = {}
    BY <2>2, Accepts
  <2> QED
    BY <1>1, <2>1, <2>3, Zenon
<1>3. \A w \in Getters : SlotFits(w)
  BY <1>1, BaseFits, Zenon
<1> QED
  BY <1>2, <1>3, Zenon DEF SlotsDisjoint

-----------------------------------------------------------------------------
(* Facts about slots for the proofs about memory. *)

GuardBytes(s) == Bytes(s.lead_guard) \cup Bytes(s.trail_guard)

\* The bytes of a landing are those of the payload.
LEMMA LandingBytes ==
    ASSUME o \in Options, Arena # Overflow, NEW w \in Getters
    PROVE  /\ Landing(w).at .. (Landing(w).at + Landing(w).n - 1) = Bytes(SlotOf(w).payload)
           /\ Landing(w).at = SlotOf(w).payload.offset
<1>1. SlotOf(w).payload.len = o.xfer
  BY SlotsFit, Zenon DEF SlotFits
<1> QED
  BY <1>1, Zenon DEF Landing, Bytes

\* A slot's guards do not meet its payload.
LEMMA GuardsApart ==
    ASSUME o \in Options, Arena # Overflow, NEW w \in Getters
    PROVE  GuardBytes(SlotOf(w)) \cap Bytes(SlotOf(w).payload) = {}
<1>1. /\ o.xfer \in Nat /\ o.guard \in Nat /\ Layout.xfer = o.xfer /\ Layout.guard = o.guard
      /\ Layout.cell \in Nat /\ Layout.base_region \in Nat
  BY Accepts, LayoutAssumption DEF Roomy, SizeT
<1>2. CASE o.exp \in {"b0", "s0"}
  <2>1. /\ SlotOf(w).payload = Span(0, o.xfer) /\ SlotOf(w).lead_guard = Span(0, 0)
        /\ SlotOf(w).trail_guard = Span(o.xfer, Layout.base_region - o.xfer)
    BY <1>1, <1>2, Zenon DEF SlotOf, base_slot
  <2> QED
    BY <1>1, <2>1 DEF GuardBytes, Bytes, Span
<1>3. CASE o.exp \notin {"b0", "s0"}
  <2>1. CellStart(w) \in Nat /\ SlotOf(w) = CellAt(Layout, CellStart(w), CellStart(w) + Layout.cell)
    BY <1>3, CellInside, Zenon
  <2> DEFINE c == CellStart(w)
  <2>2. /\ SlotOf(w).payload = Span(c + o.guard, o.xfer) /\ SlotOf(w).lead_guard = Span(c, o.guard)
        /\ SlotOf(w).trail_guard = Span(c + o.guard + o.xfer, c + Layout.cell - (c + o.guard + o.xfer))
    BY <1>1, <2>1 DEF CellAt
  <2> HIDE DEF c
  <2>3. c \in Nat
    BY <2>1, Zenon DEF c
  <2> QED
    BY <1>1, <2>2, <2>3 DEF GuardBytes, Bytes, Span
<1> QED
  BY <1>2, <1>3, Zenon

\* A slot lies at or above the start of the registration that its session names.
LEMMA AboveOrigin ==
    ASSUME o \in Options, Arena # Overflow, NEW w \in Getters
    PROVE  Registration(w).offset <= SlotOf(w).payload.offset
<1>1. /\ o.guard \in Nat /\ Layout.guard = o.guard /\ Layout.base_region \in Nat
  BY Accepts, LayoutAssumption DEF Roomy, SizeT
<1>2. CASE o.exp \in {"b0", "s0"}
  BY <1>2 DEF SlotOf, base_slot, Registration, Span
<1>3. CASE o.exp \notin {"b0", "s0"}
  <2>1. CellStart(w) \in Nat /\ SlotOf(w) = CellAt(Layout, CellStart(w), CellStart(w) + Layout.cell)
    BY <1>3, CellInside, Zenon
  <2>2. SlotOf(w).payload.offset = CellStart(w) + o.guard
    BY <1>1, <2>1 DEF CellAt, Span
  <2>3. Registration(w).offset = 0 \/ Registration(w).offset = CellStart(w)
    BY Zenon DEF Registration, CellStart, Span
  <2> QED
    BY <1>1, <2>1, <2>2, <2>3
<1> QED
  BY <1>2, <1>3, Zenon

\* What depends on the options alone does not change with the rest.
LEMMA Frame ==
    ASSUME o' = o
    PROVE  /\ Arena' = Arena /\ Getters' = Getters
           /\ \A w : SlotOf(w)' = SlotOf(w) /\ Landing(w)' = Landing(w)
<1>1. Layout' = Layout
  BY Zenon DEF Layout
<1>2. Arena' = Arena
  BY <1>1, Zenon DEF Arena
<1>3. \A w : Registration(w)' = Registration(w)
  BY <1>2, Zenon DEF Registration
<1>4. \A w : SlotOf(w)' = SlotOf(w)
  BY <1>1, <1>2, <1>3, Zenon DEF SlotOf
<1> QED
  BY <1>2, <1>4, Zenon DEF Getters, Landing

-----------------------------------------------------------------------------
(* The layout over a campaign. *)

\* Past the setup the options are ones that main() accepted.
LInv ==
    /\ o \in Options
    /\ pc \notin {"setup", "done"} => Arena # Overflow
    /\ plan \in Seq(Options)

LEMMA InitLInv == Init => LInv
<1> SUFFICES ASSUME NEW c \in Campaigns, plan = c.plan, o = Start(c.plan[1]).o, pc = Start(c.plan[1]).pc
             PROVE  LInv
  BY Zenon DEF Init
<1> QED
  BY CampaignAssumption DEF Start, LInv

LEMMA ProbeLInv == LInv /\ ProbeNext /\ UNCHANGED plan => LInv'
<1> SUFFICES ASSUME LInv, ProbeNext, UNCHANGED plan
             PROVE  LInv'
  BY Zenon
<1>1. CASE Setup
  <2>1. o' \in Options
    BY <1>1, Zenon DEF LInv, Setup, Options
  <2>2. pc' \notin {"setup", "done"} => Arena' # Overflow
    BY <1>1, Zenon DEF Setup, Unusable, Result
  <2> QED
    BY <2>1, <2>2, Zenon DEF LInv
<1>2. CASE ~Setup
  <2>1. o' = o /\ Arena' = Arena
    BY <1>2, Zenon DEF ProbeNext, HeadFails, Register, Refused, Gate, SliceToken, Prepare, ManualBuildFails,
                Finish, IssueGet, LateWrite, Verify, Arena, Layout
  <2>2. pc' \notin {"setup", "done"} => pc \notin {"setup", "done"}
    BY <1>2, Zenon DEF ProbeNext, HeadFails, Register, Refused, Gate, SliceToken, Prepare, ManualBuildFails,
                Finish, IssueGet, LateWrite, Verify, Result, Exit, GoOrExit
  <2> QED
    BY <2>1, <2>2, Zenon DEF LInv
<1> QED
  BY <1>1, <1>2, Zenon

LEMMA NextLInv == LInv /\ [Next]_campaignVars => LInv'
<1> SUFFICES ASSUME LInv, [Next]_campaignVars
             PROVE  LInv'
  BY Zenon
<1>1. CASE Probe
  BY <1>1, ProbeLInv, Zenon DEF Probe
<1>2. ASSUME NEW v, GoOn(v)
      PROVE  LInv'
  <2>1. plan' \in Seq(Options)
    BY <1>2 DEF GoOn, LInv
  <2>2. CASE Len(plan) > 1
    <3>1. o' = plan[2] /\ pc' = "setup"
      BY <1>2, <2>2, Zenon DEF GoOn, Begin, Start
    <3>2. plan[2] \in Options
      BY <2>2 DEF LInv
    <3> QED
      BY <2>1, <3>1, <3>2, Zenon DEF LInv
  <2>3. CASE ~(Len(plan) > 1)
    BY <1>2, <2>1, <2>3, Zenon DEF GoOn, LInv, vars, Arena, Layout
  <2> QED
    BY <2>2, <2>3, Zenon
<1>3. CASE CaseOver
  BY <1>2, <1>3, Zenon DEF CaseOver
<1>4. CASE Dies
  BY <1>2, <1>4, Zenon DEF Dies
<1>5. CASE UNCHANGED campaignVars
  BY <1>5, Zenon DEF campaignVars, vars, LInv, Arena, Layout
<1> QED
  BY <1>1, <1>3, <1>4, <1>5, Zenon DEF Next

\* For every word size, alignment, registration limit and option: whatever sizes
\* main() of scope_probe_main.cpp accepts, every guarded slot lies in the arena and in
\* the registration it is used through, and two slots share no byte.
THEOREM LayoutSound == Spec => []SlotsSound
<1>1. LInv => SlotsSound
  BY SlotsFit, Zenon DEF LInv, SlotsSound
<1> QED
  BY <1>1, InitLInv, NextLInv, PTL DEF Spec

-----------------------------------------------------------------------------
(* Registrations. *)

\* What is registered, and when a token is out, by the place in main().
HInv ==
    /\ registered \subseteq Registrars
    /\ pc \in {"setup", "register", "done"} => registered = {}
    /\ pc = "refused" => registered # Registrars
    /\ pc \in {"registered", "prepare", "get", "verify"} => registered = Registrars
    /\ token <=> (o.exp = "m" /\ pc \in {"prepare", "get", "verify"})

\* Who registers depends on the case alone.
LEMMA WhoRegisters ==
    ASSUME o.exp \in Cases
    PROVE  /\ o.exp \in {"r", "p"} => Registrars = {"A", "B"}
           /\ o.exp \notin {"r", "p"} => Registrars = {"A"}
           /\ Sessions = {"A", "B"}
BY Zenon DEF Registrars, Sessions

\* The ways out before the GETs each give back all that is registered there.
LEMMA EarlyExits ==
    ASSUME HInv, o.exp \in Cases, Refused \/ Gate \/ SliceToken
    PROVE  HInv'
<1>1. /\ o.exp \in {"r", "p"} => Registrars = {"A", "B"}
      /\ o.exp \notin {"r", "p"} => Registrars = {"A"}
      /\ Sessions = {"A", "B"}
  BY WhoRegisters, Zenon
<1>2. o' = o /\ Registrars' = Registrars
  BY Zenon DEF Refused, Gate, SliceToken, Registrars
<1>3. CASE Refused
  <2>1. pc = "refused" /\ pc' = "done" /\ token' = token /\ ~token
    BY <1>3, Zenon DEF Refused, Exit, Result, HInv
  <2>2. registered' = {}
    <3>1. CASE o.exp \in {"r", "p"}
      BY <1>1, <1>3, <3>1, Zenon DEF Refused, Exit, HInv
    <3>2. CASE o.exp \notin {"r", "p"}
      <4>1. registered = {}
        BY <1>1, <2>1, <3>2, Zenon DEF HInv
      <4> QED
        BY <1>3, <3>2, <4>1, Zenon DEF Refused, Exit
    <3> QED
      BY <3>1, <3>2, Zenon
  <2> QED
    BY <1>2, <2>1, <2>2, Zenon DEF HInv
<1>4. CASE Gate
  <2>1. pc = "registered" /\ registered = Registrars /\ ~token /\ token' = token /\ o.exp # "m"
    BY <1>4, Zenon DEF Gate, HInv
  <2>2. \/ pc' = "prepare" /\ registered' = registered
        \/ pc' = "done" /\ registered' = {}
    BY <1>1, <1>4, <2>1, Zenon DEF Gate, GoOrExit, Exit, Result
  <2> QED
    BY <1>2, <2>1, <2>2, Zenon DEF HInv
<1>5. CASE SliceToken
  <2>1. pc = "registered" /\ registered = {"A"} /\ ~token /\ o.exp = "m" /\ Registrars = {"A"}
    BY <1>1, <1>5, Zenon DEF SliceToken, HInv
  <2>2. \/ pc' = "prepare" /\ registered' = registered /\ token'
        \/ pc' = "done" /\ registered' = {} /\ token' = token
    BY <1>5, <2>1, Zenon DEF SliceToken, Exit, Result
  <2>3. CASE pc' = "prepare" /\ registered' = registered /\ token'
    BY <1>2, <2>1, <2>3, Zenon DEF HInv
  <2>4. CASE pc' = "done" /\ registered' = {} /\ token' = token
    BY <1>2, <2>1, <2>4, Zenon DEF HInv
  <2> QED
    BY <2>2, <2>3, <2>4, Zenon
<1> QED
  BY <1>3, <1>4, <1>5, Zenon

\* So do the ways out after them.
LEMMA LateExits ==
    ASSUME HInv, o.exp \in Cases, ManualBuildFails \/ Finish
    PROVE  HInv'
<1>1. /\ o.exp \in {"r", "p"} => Registrars = {"A", "B"}
      /\ o.exp \notin {"r", "p"} => Registrars = {"A"}
  BY WhoRegisters, Zenon
<1>2. o' = o /\ Registrars' = Registrars /\ pc' = "done"
  BY Zenon DEF ManualBuildFails, Finish, Exit, Result, Registrars
<1>3. pc \in {"get", "verify"} /\ registered = Registrars /\ (token <=> o.exp = "m")
  BY Zenon DEF ManualBuildFails, Finish, HInv
<1>4. registered' = {} /\ ~token'
  <2>1. CASE o.exp = "m"
    BY <1>1, <1>3, <2>1, Zenon DEF ManualBuildFails, Finish, Exit
  <2>2. CASE o.exp # "m"
    <3>1. Finish /\ token' = token /\ ~token
      BY <1>3, <2>2, Zenon DEF ManualBuildFails, Finish
    <3>2. registered' = {}
      BY <1>1, <1>3, <2>2, <3>1, Zenon DEF Finish, Exit
    <3> QED
      BY <3>1, <3>2, Zenon
  <2> QED
    BY <2>1, <2>2, Zenon
<1> QED
  BY <1>2, <1>4, Zenon DEF HInv

\* For every case and product, and whichever step of main() of scope_probe_main.cpp gives
\* up: the registrations of the case and the slice token are held while GETs and the
\* verification use them, and each early return and each end of a block gives back
\* exactly what is held there.
THEOREM AllReleased == Spec => []HeldWhileUsed
<1>1. Init => HInv
  BY Zenon DEF Init, Start, HInv
<1>2. LInv /\ HInv /\ [Next]_campaignVars => HInv'
  <2> SUFFICES ASSUME LInv, HInv, [Next]_campaignVars
               PROVE  HInv'
    BY Zenon
  <2>0. o.exp \in Cases
    BY Zenon DEF LInv, Options
  <2>1. CASE ProbeNext
    <3>1. CASE HeadFails \/ Setup
      <4>1. pc = "setup" /\ pc' \in {"done", "register"} /\ registered' = registered /\ token' = token
        BY <3>1, Zenon DEF HeadFails, Setup, Result
      <4> QED
        BY <4>1, Zenon DEF HInv
    <3>2. CASE Register
      <4>1. /\ pc = "register" /\ o' = o /\ token' = token /\ registered' \subseteq Registrars
            /\ pc' = IF registered' = Registrars THEN "registered" ELSE "refused"
        BY <2>0, <3>2, WhoRegisters, Zenon DEF Register, Accepted
      <4>2. Registrars' = Registrars
        BY <4>1, Zenon DEF Registrars
      <4> QED
        BY <4>1, <4>2, Zenon DEF HInv
    <3>3. CASE Refused \/ Gate \/ SliceToken
      BY <2>0, <3>3, EarlyExits, Zenon
    <3>4. CASE ManualBuildFails \/ Finish
      BY <2>0, <3>4, LateExits, Zenon
    <3>5. ASSUME Prepare \/ \E w \in Sessions : IssueGet(w) \/ LateWrite(w) \/ Verify(w)
          PROVE  HInv'
      <4>1. /\ pc \in {"prepare", "get", "verify"} /\ pc' \in {"get", "verify"}
            /\ UNCHANGED <<o, registered, token>>
        BY <3>5, Zenon DEF Prepare, IssueGet, LateWrite, Verify
      <4>2. Registrars' = Registrars
        BY <4>1, Zenon DEF Registrars
      <4> QED
        BY <4>1, <4>2, Zenon DEF HInv
    <3> QED
      BY <2>1, <3>1, <3>2, <3>3, <3>4, <3>5, Zenon DEF ProbeNext
  <2>2. ASSUME NEW v, GoOn(v)
        PROVE  HInv'
    BY <2>2, Zenon DEF HInv, GoOn, Begin, Start, vars, Registrars
  <2>3. CASE UNCHANGED campaignVars
    BY <2>3, Zenon DEF HInv, campaignVars, vars, Registrars
  <2> QED
    BY <2>1, <2>2, <2>3, Zenon DEF Next, Probe, CaseOver, Dies
<1>3. HInv => HeldWhileUsed
  BY Zenon DEF HInv, HeldWhileUsed
<1> QED
  BY <1>1, <1>2, <1>3, InitLInv, NextLInv, PTL DEF Spec

-----------------------------------------------------------------------------
(* PASS and FAIL on any product. *)

Write == [at : Int, n : Int]
Rec == [rc : Int, callbacks : Int]

Cover(x) == x.at .. (x.at + x.n - 1)

\* What Prepare leaves at byte i.
Prepared(i) ==
    \A w \in Getters : /\ i \in Bytes(SlotOf(w).payload) => mem[i] = Poison
                       /\ i \in GuardBytes(SlotOf(w)) => mem[i] = Guard

MemShape ==
    \A i \in DOMAIN mem :
        \/ \E v \in Getters : i \in Cover(landed[v]) /\ mem[i] = i - landed[v].at
        \/ (\A v \in Getters : i \notin Cover(landed[v])) /\ Prepared(i)

\* All GETs report the full count, so none was given up.
Clean == \A v \in Getters : got[v].rc = o.xfer

Earned(w) ==
    /\ o.trustworthy /\ o.expect_sha = "object" /\ got[w] = [rc |-> o.xfer, callbacks |-> 1]
    /\ Clean => guards_intact(SlotOf(w)) /\ digest_match(SlotOf(w))

\* A GET of one callback that was not exact, whoever is to blame, a write outside of a
\* payload, or the digest of something else.
Blame ==
    \/ \E w \in Getters :
         \/ got[w].callbacks = 1 /\ ~Exact(w)
         \/ ~(Cover(landed[w]) \subseteq Bytes(SlotOf(w).payload))
    \/ o.expect_sha = "other"

Shape ==
    /\ DOMAIN got = Sessions /\ DOMAIN svs = Sessions
    /\ pending \in [Sessions -> Write] /\ landed \in [Sessions -> Write]
    /\ pc # "done" => verdict = None
    /\ pc \notin {"setup", "done"} => DOMAIN mem = 0..(Arena - 1) /\ o.expect_sha # "poison"
    /\ pc \notin {"get", "verify", "done"} =>
         (\A w \in Sessions : got[w] = None /\ landed[w] = NoWrite /\ pending[w] = NoWrite)
    /\ pc \notin {"verify", "done"} => (\A w \in Sessions : svs[w] = None)

Traffic ==
    pc \in {"get", "verify"} =>
        /\ \A w \in Sessions : (w \notin Getters \/ got[w] = None) => landed[w] = NoWrite /\ pending[w] = NoWrite
        /\ \A w \in Sessions : pending[w] # NoWrite => landed[w] = NoWrite /\ got[w].rc = -1
        /\ \A w \in Getters : got[w] \in Rec \/ (pc = "get" /\ got[w] = None)
        /\ MemShape

Judged ==
    pc = "verify" =>
        \A w \in Getters : /\ svs[w] \in {None, "PASS", "FAIL", "INCONCLUSIVE"}
                           /\ svs[w] = "PASS" => Earned(w)
                           /\ svs[w] = "FAIL" => Blame

EInv == LInv /\ Shape /\ Traffic /\ Judged /\ PassEarned /\ FailHasCause

-----------------------------------------------------------------------------
(* What verified memory says about the writes. *)

\* The payload of a slot, and the first byte of the guard behind it.
LEMMA SlotPlace ==
    ASSUME o \in Options, Arena # Overflow, NEW w \in Getters
    PROVE  /\ o.xfer \in Nat /\ o.xfer > 0 /\ SlotOf(w).payload.offset \in Nat
           /\ Bytes(SlotOf(w).payload) = SlotOf(w).payload.offset .. (SlotOf(w).payload.offset + o.xfer - 1)
           /\ SlotOf(w).payload.offset + o.xfer \in GuardBytes(SlotOf(w))
           /\ SlotBytes(SlotOf(w)) = Bytes(SlotOf(w).payload) \cup GuardBytes(SlotOf(w))
           /\ SlotBytes(SlotOf(w)) \subseteq 0..(Arena - 1)
<1>1. /\ o.xfer \in Nat /\ o.xfer > 0 /\ o.guard \in Nat /\ o.guard > 0 /\ Layout.guard = o.guard
  BY Accepts, LayoutAssumption DEF Roomy, SizeT, Options
<1>2. SlotFits(w)
  BY SlotsFit, Zenon
<1> DEFINE off == SlotOf(w).payload.offset
<1>3. off \in Nat
  <2>1. CASE o.exp \in {"b0", "s0"}
    BY <2>1, Zenon DEF SlotOf, base_slot, Span
  <2>2. CASE o.exp \notin {"b0", "s0"}
    <3>1. CellStart(w) \in Nat /\ SlotOf(w) = CellAt(Layout, CellStart(w), CellStart(w) + Layout.cell)
      BY <2>2, CellInside, Zenon
    <3> QED
      BY <1>1, <3>1 DEF CellAt, Span
  <2> QED
    BY <2>1, <2>2, Zenon
<1>4. SlotOf(w).payload.len = o.xfer
  BY <1>2, Zenon DEF SlotFits
<1>5. Bytes(SlotOf(w).payload) = off .. (off + o.xfer - 1)
  BY <1>4, Zenon DEF Bytes
<1>6. off + o.xfer \in GuardBytes(SlotOf(w))
  <2>1. (off + o.xfer) .. (off + o.xfer + o.guard - 1) \subseteq Bytes(SlotOf(w).trail_guard)
    BY <1>2, <1>4, Zenon DEF SlotFits
  <2>2. off + o.xfer \in (off + o.xfer) .. (off + o.xfer + o.guard - 1)
    BY <1>1, <1>3
  <2> QED
    BY <2>1, <2>2, Zenon DEF GuardBytes
<1>7. SlotBytes(SlotOf(w)) = Bytes(SlotOf(w).payload) \cup GuardBytes(SlotOf(w))
  BY Zenon DEF SlotBytes, GuardBytes
<1>8. SlotBytes(SlotOf(w)) \subseteq 0..(Arena - 1)
  BY <1>2, Zenon DEF SlotFits
<1> QED
  BY <1>1, <1>3, <1>5, <1>6, <1>7, <1>8, Zenon

\* If every slot verifies, the writes are the landings of the case.
LEMMA LandedExact ==
    ASSUME o \in Options, Arena # Overflow, DOMAIN mem = 0..(Arena - 1), MemShape,
           landed \in [Sessions -> Write], o.expect_sha # "poison",
           \A w \in Getters : guards_intact(SlotOf(w)) /\ digest_match(SlotOf(w))
    PROVE  {landed[w] : w \in Getters} = {Landing(w) : w \in Getters}
<1> DEFINE off(w) == SlotOf(w).payload.offset
<1>1. \A w \in Getters : /\ o.xfer \in Nat /\ o.xfer > 0 /\ off(w) \in Nat
                          /\ Bytes(SlotOf(w).payload) = off(w) .. (off(w) + o.xfer - 1)
                          /\ off(w) + o.xfer \in GuardBytes(SlotOf(w))
                          /\ Bytes(SlotOf(w).payload) \subseteq DOMAIN mem
                          /\ GuardBytes(SlotOf(w)) \subseteq DOMAIN mem
  BY SlotPlace, Zenon
<1>2. \A v \in Getters : v \in Sessions /\ landed[v] \in Write /\ landed[v].at \in Int /\ landed[v].n \in Int
  BY Zenon DEF Getters, Write
<1>3. ASSUME NEW w \in Getters, NEW i \in off(w) .. (off(w) + o.xfer - 1)
      PROVE  \E v \in Getters : i \in Cover(landed[v]) /\ landed[v].at = off(w)
  <2>0. off(w) \in Nat /\ o.xfer \in Nat /\ Bytes(SlotOf(w).payload) = off(w) .. (off(w) + o.xfer - 1)
        /\ Bytes(SlotOf(w).payload) \subseteq DOMAIN mem
    BY <1>1, <1>3, Zenon
  <2>1. i \in DOMAIN mem /\ i \in Bytes(SlotOf(w).payload) /\ i \in Nat /\ i >= off(w)
    <3>1. i \in Bytes(SlotOf(w).payload) /\ i \in DOMAIN mem
      BY <1>3, <2>0, Zenon
    <3>2. i \in Nat /\ i >= off(w)
      BY <1>3, <2>0
    <3> QED
      BY <3>1, <3>2, Zenon
  <2>2. mem[i] = i - off(w)
    BY <2>1, Zenon DEF digest_match
  <2>3. mem[i] # Poison
    <3>1. i - off(w) # Poison
      BY <2>0, <2>1 DEF Poison
    <3> QED
      BY <2>2, <3>1, Zenon
  <2>4. PICK v \in Getters : i \in Cover(landed[v]) /\ mem[i] = i - landed[v].at
    BY <2>1, <2>3, Zenon DEF MemShape, Prepared
  <2>5. landed[v].at = off(w)
    <3>1. i - off(w) = i - landed[v].at
      BY <2>2, <2>4, Zenon
    <3>2. landed[v].at \in Int
      BY <1>2, Zenon
    <3> HIDE DEF off
    <3> QED
      BY <2>0, <2>1, <3>1, <3>2
  <2> QED
    BY <2>4, <2>5, Zenon
<1>4. ASSUME NEW w \in Getters, NEW v \in Getters, landed[v].at = off(w)
      PROVE  landed[v].n <= o.xfer
  <2>0. /\ off(w) \in Nat /\ o.xfer \in Nat /\ o.xfer > 0 /\ landed[v].n \in Int
        /\ off(w) + o.xfer \in GuardBytes(SlotOf(w)) /\ GuardBytes(SlotOf(w)) \subseteq DOMAIN mem
    BY <1>1, <1>2, <1>4, Zenon
  <2> SUFFICES ASSUME landed[v].n > o.xfer
               PROVE  FALSE
    BY <2>0
  <2> DEFINE i == off(w) + o.xfer
  <2>1. i \in Cover(landed[v]) /\ i \in Int
    <3> HIDE DEF off
    <3>1. i \in off(w) .. (off(w) + landed[v].n - 1) /\ i \in Int
      BY <2>0
    <3> QED
      BY <1>4, <3>1, Zenon DEF Cover
  <2>2. i \in DOMAIN mem /\ i \in GuardBytes(SlotOf(w))
    BY <2>0, Zenon
  <2>3. mem[i] = Guard
    BY <2>2, Zenon DEF guards_intact, GuardBytes
  <2> HIDE DEF i
  <2>4. PICK u \in Getters : i \in Cover(landed[u]) /\ mem[i] = i - landed[u].at
    BY <2>1, <2>2, Zenon DEF MemShape
  <2>5. i - landed[u].at >= 0
    BY <1>2, <2>1, <2>4 DEF Cover
  <2> QED
    BY <2>3, <2>4, <2>5 DEF Guard
<1>5. ASSUME NEW w \in Getters
      PROVE  \E v \in Getters : landed[v] = Landing(w)
  <2> DEFINE i == off(w) + o.xfer - 1
  <2>0. off(w) \in Nat /\ o.xfer \in Nat /\ o.xfer > 0
    BY <1>1, <1>5, Zenon
  <2>1. i \in off(w) .. (off(w) + o.xfer - 1)
    <3> HIDE DEF off
    <3> QED
      BY <2>0
  <2>2. PICK v \in Getters : i \in Cover(landed[v]) /\ landed[v].at = off(w)
    BY <1>3, <1>5, <2>1, Zenon
  <2>3. landed[v].n = o.xfer
    <3>1. landed[v].n \in Int /\ landed[v].n <= o.xfer
      BY <1>2, <1>4, <1>5, <2>2, Zenon
    <3>2. i \in off(w) .. (off(w) + landed[v].n - 1)
      BY <2>2, Zenon DEF Cover
    <3> HIDE DEF off
    <3> QED
      BY <2>0, <3>1, <3>2
  <2> QED
    BY <1>2, <2>2, <2>3, Zenon DEF Landing, Write
<1>6. ASSUME NEW v \in Getters, NEW w \in Getters, v # w
      PROVE  Landing(v) # Landing(w)
  <2>1. ASSUME NEW x \in Getters
        PROVE  off(x) \in SlotBytes(SlotOf(x))
    <3>1. off(x) \in off(x) .. (off(x) + o.xfer - 1)
      BY <1>1, <2>1
    <3>2. off(x) \in Bytes(SlotOf(x).payload)
      BY <1>1, <2>1, <3>1, Zenon
    <3> QED
      BY <3>2, Zenon DEF SlotBytes
  <2>2. off(v) # off(w)
    BY <1>6, <2>1, SlotsFit DEF SlotsDisjoint
  <2> QED
    BY <2>2, Zenon DEF Landing
<1>7. Getters \subseteq {"A", "B"}
  BY Zenon DEF Getters, Sessions
<1> HIDE DEF off
<1>8. \A v \in Getters : \E w \in Getters : landed[v] = Landing(w)
  BY <1>5, <1>6, <1>7
<1> QED
  BY <1>5, <1>8, Zenon

\* A slot that verifies has earned its PASS; one that fails has a cause.
LEMMA VerifyJudges ==
    ASSUME LInv, Shape, Traffic, pc = "verify", NEW w \in Getters
    PROVE  /\ verify_slot(w) \in {"PASS", "FAIL", "INCONCLUSIVE"}
           /\ verify_slot(w) = "PASS" => Earned(w)
           /\ verify_slot(w) = "FAIL" => Blame
<1>1. /\ o \in Options /\ Arena # Overflow /\ DOMAIN mem = 0..(Arena - 1) /\ o.expect_sha # "poison"
      /\ got[w] \in Rec /\ MemShape /\ o.xfer \in Nat /\ o.xfer > 0
  <2>1. o \in Options /\ Arena # Overflow
    BY Zenon DEF LInv
  <2> QED
    BY <2>1, SlotPlace, Zenon DEF Shape, Traffic
<1>2. verify_slot(w) \in {"PASS", "FAIL", "INCONCLUSIVE"}
  BY Zenon DEF verify_slot, landing
<1>3. verify_slot(w) = "PASS" => Earned(w)
  <2> SUFFICES ASSUME verify_slot(w) = "PASS"
               PROVE  Earned(w)
    BY Zenon
  <2>1. /\ got[w].callbacks = 1 /\ got[w].rc = o.xfer /\ o.trustworthy /\ o.expect_sha # "none"
        /\ guards_intact(SlotOf(w)) /\ digest_match(SlotOf(w))
    BY Zenon DEF verify_slot, landing
  <2>2. got[w] = [rc |-> o.xfer, callbacks |-> 1]
    BY <1>1, <2>1, Zenon DEF Rec
  <2>3. o.expect_sha = "object"
    <3>1. o.expect_sha \in {"none", "object", "poison", "other"} /\ o.expect_sha # "other"
      BY <1>1, <2>1, Zenon DEF Options, digest_match
    <3> QED
      BY <1>1, <2>1, <3>1, Zenon
  <2> QED
    BY <2>1, <2>2, <2>3, Zenon DEF Earned
<1>4. ASSUME NEW v \in Getters, NEW i \in Cover(landed[v]), i \notin Bytes(SlotOf(v).payload)
      PROVE  Blame
  BY <1>4, Zenon DEF Blame
<1>5. \A u, v \in Getters : u # v => SlotBytes(SlotOf(u)) \cap SlotBytes(SlotOf(v)) = {}
  BY <1>1, SlotsFit, Zenon DEF SlotsDisjoint
<1>6. \A u \in Getters : /\ SlotBytes(SlotOf(u)) = Bytes(SlotOf(u).payload) \cup GuardBytes(SlotOf(u))
                          /\ SlotBytes(SlotOf(u)) \subseteq DOMAIN mem
  BY <1>1, SlotPlace, Zenon
<1>7. ASSUME ~guards_intact(SlotOf(w))
      PROVE  Blame
  <2>1. PICK i \in GuardBytes(SlotOf(w)) : mem[i] # Guard
    BY <1>7, Zenon DEF guards_intact, GuardBytes
  <2>2. i \in DOMAIN mem /\ i \in SlotBytes(SlotOf(w))
    BY <1>6, Zenon
  <2>3. PICK v \in Getters : i \in Cover(landed[v])
    BY <1>1, <2>1, <2>2, Zenon DEF MemShape, Prepared
  <2>4. i \notin Bytes(SlotOf(v).payload)
    <3>1. CASE v = w
      BY <1>1, <3>1, GuardsApart, Zenon
    <3>2. CASE v # w
      BY <1>5, <1>6, <2>2, <3>2, Zenon
    <3> QED
      BY <3>1, <3>2, Zenon
  <2> QED
    BY <1>4, <2>3, <2>4, Zenon
<1>8. ASSUME ~digest_match(SlotOf(w)), Exact(w)
      PROVE  Blame
  <2> SUFFICES ASSUME o.expect_sha # "other"
               PROVE  Blame
    BY Zenon DEF Blame
  <2>1. PICK i \in Bytes(SlotOf(w).payload) : mem[i] # i - SlotOf(w).payload.offset
    BY <1>1, <1>8, Zenon DEF digest_match
  <2>2. i \in DOMAIN mem /\ i \in SlotBytes(SlotOf(w))
    BY <1>6, Zenon
  <2>3. i \in Cover(landed[w]) /\ landed[w].at = SlotOf(w).payload.offset
    BY <1>1, <1>8, <2>1, LandingBytes, Zenon DEF Cover, Exact
  <2>4. PICK v \in Getters : i \in Cover(landed[v]) /\ mem[i] = i - landed[v].at
    BY <1>1, <2>2, <2>3, Zenon DEF MemShape
  <2>5. v # w
    BY <2>1, <2>3, <2>4, Zenon
  <2>6. i \notin Bytes(SlotOf(v).payload)
    BY <1>5, <1>6, <2>2, <2>5, Zenon
  <2> QED
    BY <1>4, <2>4, <2>6, Zenon
<1>9. verify_slot(w) = "FAIL" => Blame
  <2> SUFFICES ASSUME verify_slot(w) = "FAIL"
               PROVE  Blame
    BY Zenon
  <2>1. /\ got[w].callbacks = 1
        /\ \/ got[w].rc # o.xfer
           \/ ~guards_intact(SlotOf(w))
           \/ ~digest_match(SlotOf(w))
    BY <1>1 DEF verify_slot, landing
  <2>2. ~Exact(w) => Blame
    BY <2>1, Zenon DEF Blame
  <2>3. got[w].rc # o.xfer => ~Exact(w)
    BY DEF Exact
  <2> QED
    BY <1>7, <1>8, <2>1, <2>2, <2>3, Zenon
<1> QED
  BY <1>2, <1>3, <1>9, Zenon

-----------------------------------------------------------------------------
(* The steps of one process. *)

LEMMA NoCover == Cover(NoWrite) = {} /\ NoWrite \in Write
<1>1. 0 .. (0 + 0 - 1) = {}
  OBVIOUS
<1>2. NoWrite.at = 0 /\ NoWrite.n = 0
  BY Zenon DEF NoWrite
<1> QED
  BY <1>1, <1>2 DEF Cover, Write, NoWrite

\* The first write of w keeps the description of memory.
LEMMA WriteShape ==
    ASSUME MemShape, landed \in [Sessions -> Write], NEW w \in Getters, NEW x \in Write,
           landed[w] = NoWrite, o' = o, mem' = Written(x), landed' = [landed EXCEPT ![w] = x]
    PROVE  MemShape' /\ DOMAIN mem' = DOMAIN mem /\ landed' \in [Sessions -> Write]
<1>1. Getters' = Getters /\ (\A v : SlotOf(v)' = SlotOf(v)) /\ Getters \subseteq Sessions
  BY Frame, Zenon DEF Getters
<1>2. /\ DOMAIN mem' = DOMAIN mem
      /\ \A i \in DOMAIN mem : mem'[i] = IF i \in Cover(x) THEN i - x.at ELSE mem[i]
  BY Zenon DEF Written, Cover
<1>3. landed'[w] = x /\ (\A v \in Getters : v # w => landed'[v] = landed[v])
  BY <1>1, Zenon
<1>4. Cover(landed[w]) = {}
  BY NoCover, Zenon
<1>5. ASSUME NEW i \in DOMAIN mem
      PROVE  \/ \E v \in Getters : i \in Cover(landed'[v]) /\ mem'[i] = i - landed'[v].at
             \/ /\ \A v \in Getters : i \notin Cover(landed'[v])
                /\ \A v \in Getters : /\ i \in Bytes(SlotOf(v).payload) => mem'[i] = Poison
                                      /\ i \in GuardBytes(SlotOf(v)) => mem'[i] = Guard
  <2>1. CASE i \in Cover(x)
    BY <1>2, <1>3, <2>1, Zenon
  <2>2. CASE i \notin Cover(x)
    <3>1. mem'[i] = mem[i]
      BY <1>2, <2>2, Zenon
    <3>2. CASE \E v \in Getters : i \in Cover(landed[v]) /\ mem[i] = i - landed[v].at
      BY <1>3, <1>4, <3>1, <3>2, Zenon
    <3>3. CASE (\A v \in Getters : i \notin Cover(landed[v])) /\ Prepared(i)
      BY <1>3, <2>2, <3>1, <3>3, Zenon DEF Prepared
    <3> QED
      BY <3>2, <3>3, Zenon DEF MemShape
  <2> QED
    BY <2>1, <2>2, Zenon
<1> QED
  BY <1>1, <1>2, <1>5, Zenon DEF MemShape, Prepared, Cover

\* How a GET may end.
LEMMA EndFacts ==
    ASSUME o \in Options, Arena # Overflow, NEW w \in Getters,
           NEW e \in Ends(w) \cup {End(-1, 0, NoWrite, NoWrite)}
    PROVE  /\ [rc |-> e.rc, callbacks |-> e.callbacks] \in Rec
           /\ e.now \in Write /\ e.later \in Write
           /\ e.later # NoWrite => e.rc = -1 /\ e.now = NoWrite
<1>1. o.xfer \in Nat /\ Landing(w) \in Write
  <2>1. o.xfer \in Nat /\ SlotOf(w).payload.offset \in Nat
    BY SlotPlace, Zenon
  <2> QED
    BY <2>1 DEF Landing, Write
<1>2. \A x \in Writes(w) : x \in Write
  BY <1>1, NoCover DEF Writes, Write, Bytes
<1>3. CASE e = End(-1, 0, NoWrite, NoWrite)
  BY <1>3, NoCover DEF End, Rec
<1>4. CASE e \in KnownEnd(w)
  <2>1. PICK k \in {1, 2} : e \in {End(o.xfer, k, Landing(w), NoWrite), End(-1, 1, NoWrite, NoWrite)}
    BY <1>4, Zenon DEF KnownEnd
  <2>2. CASE e = End(o.xfer, k, Landing(w), NoWrite)
    BY <1>1, <2>2, NoCover DEF End, Rec
  <2>3. CASE e = End(-1, 1, NoWrite, NoWrite)
    BY <2>3, NoCover DEF End, Rec
  <2> QED
    BY <2>1, <2>2, <2>3, Zenon
<1>5. ASSUME NEW f \in ProductEnd(w)
      PROVE  /\ [rc |-> f.rc, callbacks |-> f.callbacks] \in Rec
             /\ f.now \in Write /\ f.later \in Write
             /\ f.later # NoWrite => f.rc = -1 /\ f.now = NoWrite
  <2>0. CASE f = End(-1, 0, NoWrite, NoWrite)
    BY <2>0, NoCover DEF End, Rec
  <2>1. CASE \E rc \in {-1, 0, o.xfer}, n \in {1, 2}, x \in Writes(w) : f = End(rc, n, x, NoWrite)
    BY <1>1, <1>2, <2>1, NoCover DEF End, Rec
  <2>2. CASE \E n \in {1, 2}, x \in Writes(w) : f = End(-1, n, NoWrite, x)
    BY <1>1, <1>2, <2>2, NoCover DEF End, Rec
  <2> QED
    BY <1>5, <2>0, <2>1, <2>2 DEF ProductEnd
<1>6. CASE e \in OwnEnd(w)
  <2>1. PICK f \in ProductEnd(w) : e = [f EXCEPT !.ours = TRUE]
    BY <1>6, Zenon DEF OwnEnd
  <2>2. e.rc = f.rc /\ e.callbacks = f.callbacks /\ e.now = f.now /\ e.later = f.later
    <3>1. DOMAIN f = {"rc", "callbacks", "now", "later", "ours"}
      BY DEF ProductEnd, End
    <3> QED
      BY <2>1, <3>1
  <2> QED
    BY <1>5, <2>2, Zenon
<1> QED
  BY <1>3, <1>4, <1>5, <1>6, Zenon DEF Ends, ManualEnd, AnyEnd

\* A GET writes at once, or leaves a write behind and reports -1.
LEMMA IssueGetEInv ==
    ASSUME EInv, LInv', NEW w \in Sessions, IssueGet(w)
    PROVE  EInv'
<1>1. /\ pc = "get" /\ w \in Getters /\ got[w] = None /\ o' = o /\ svs' = svs /\ verdict' = verdict
      /\ pc' \in {"get", "verify"} /\ o \in Options /\ Arena # Overflow
      /\ pc' = "verify" => \A v \in Getters \ {w} : got[v] # None
      /\ Shape /\ Traffic
  BY Zenon DEF IssueGet, EInv, LInv
<1>2. Arena' = Arena /\ Getters' = Getters /\ (\A v : SlotOf(v)' = SlotOf(v)) /\ Getters \subseteq Sessions
  BY <1>1, Frame, Zenon DEF Getters
<1>3. PICK e \in Ends(w) \cup {End(-1, 0, NoWrite, NoWrite)} :
         /\ got' = [got EXCEPT ![w] = [rc |-> e.rc, callbacks |-> e.callbacks]]
         /\ mem' = Written(e.now)
         /\ pending' = [pending EXCEPT ![w] = e.later]
         /\ landed' = [landed EXCEPT ![w] = e.now]
  BY Zenon DEF IssueGet
<1>4. /\ [rc |-> e.rc, callbacks |-> e.callbacks] \in Rec
      /\ e.now \in Write /\ e.later \in Write
      /\ e.later # NoWrite => e.rc = -1 /\ e.now = NoWrite
  BY <1>1, EndFacts, Zenon
<1>5. landed[w] = NoWrite /\ landed \in [Sessions -> Write] /\ pending \in [Sessions -> Write] /\ MemShape
  BY <1>1, Zenon DEF Shape, Traffic
<1>6. MemShape' /\ DOMAIN mem' = DOMAIN mem /\ landed' \in [Sessions -> Write]
  BY <1>1, <1>3, <1>4, <1>5, WriteShape, Zenon
<1>7. /\ got'[w] = [rc |-> e.rc, callbacks |-> e.callbacks] /\ got'[w].rc = e.rc
      /\ landed'[w] = e.now /\ pending'[w] = e.later
      /\ \A v \in Sessions : v # w => got'[v] = got[v] /\ landed'[v] = landed[v] /\ pending'[v] = pending[v]
      /\ DOMAIN got' = Sessions
  BY <1>1, <1>3, <1>5, Zenon DEF Shape
<1>8. Shape'
  <2>1. DOMAIN svs' = Sessions /\ pending' \in [Sessions -> Write] /\ verdict' = None
    BY <1>1, <1>3, <1>4, <1>5, Zenon DEF Shape
  <2>2. DOMAIN mem' = 0..(Arena' - 1) /\ o'.expect_sha # "poison"
    BY <1>1, <1>2, <1>6, Zenon DEF Shape
  <2>3. \A v \in Sessions : svs'[v] = None
    BY <1>1, Zenon DEF Shape
  <2> QED
    BY <1>1, <1>6, <1>7, <2>1, <2>2, <2>3, Zenon DEF Shape
<1>9. Traffic'
  <2>1. got'[w] # None
    BY <1>4, <1>7, NoneAssumption, Zenon DEF Rec
  <2>2. \A v \in Sessions : (v \notin Getters \/ got'[v] = None) => landed'[v] = NoWrite /\ pending'[v] = NoWrite
    BY <1>1, <1>7, <2>1, Zenon DEF Traffic
  <2>3. \A v \in Sessions : pending'[v] # NoWrite => landed'[v] = NoWrite /\ got'[v].rc = -1
    BY <1>1, <1>4, <1>7 DEF Traffic
  <2>4. \A v \in Getters : got'[v] \in Rec \/ (pc' = "get" /\ got'[v] = None)
    BY <1>1, <1>2, <1>4, <1>7, Zenon DEF Traffic
  <2> QED
    BY <1>2, <1>6, <2>2, <2>3, <2>4, Zenon DEF Traffic
<1>10. Judged'
  BY <1>1, <1>2, <1>8, NoneAssumption, Zenon DEF Judged, Shape
<1>11. PassEarned' /\ FailHasCause'
  <2>1. verdict' = None
    BY <1>1, Zenon DEF Shape
  <2> QED
    BY <2>1, NoneAssumption, Zenon DEF PassEarned, FailHasCause
<1> QED
  BY <1>8, <1>9, <1>10, <1>11, Zenon DEF EInv

\* A late write follows a GET that reported -1, which no PASS survives.
LEMMA LateWriteEInv ==
    ASSUME EInv, LInv', NEW w \in Sessions, LateWrite(w)
    PROVE  EInv'
<1>1. /\ pc \in {"get", "verify"} /\ pc' = pc /\ o' = o /\ svs' = svs /\ verdict' = verdict /\ got' = got
      /\ pending[w] # NoWrite /\ mem' = Written(pending[w])
      /\ landed' = [landed EXCEPT ![w] = pending[w]] /\ pending' = [pending EXCEPT ![w] = NoWrite]
      /\ o \in Options /\ Arena # Overflow /\ Shape /\ Traffic /\ Judged
  BY Zenon DEF LateWrite, EInv, LInv
<1>2. Arena' = Arena /\ Getters' = Getters /\ (\A v : SlotOf(v)' = SlotOf(v) /\ Landing(v)' = Landing(v))
      /\ Getters \subseteq Sessions
  BY <1>1, Frame, Zenon DEF Getters
<1>3. /\ w \in Getters /\ got[w] # None /\ landed[w] = NoWrite /\ got[w].rc = -1 /\ MemShape
      /\ landed \in [Sessions -> Write] /\ pending \in [Sessions -> Write] /\ pending[w] \in Write
  BY <1>1, Zenon DEF Shape, Traffic
<1>4. MemShape' /\ DOMAIN mem' = DOMAIN mem /\ landed' \in [Sessions -> Write]
  BY <1>1, <1>3, WriteShape, Zenon
<1>5. /\ pending'[w] = NoWrite
      /\ \A v \in Sessions : v # w => landed'[v] = landed[v] /\ pending'[v] = pending[v]
      /\ pending' \in [Sessions -> Write]
  BY <1>1, <1>3, NoCover, Zenon
<1>6. Shape'
  <2>1. DOMAIN mem' = 0..(Arena' - 1) /\ o'.expect_sha # "poison"
    BY <1>1, <1>2, <1>4, Zenon DEF Shape
  <2> QED
    BY <1>1, <1>4, <1>5, <2>1, Zenon DEF Shape
<1>7. Traffic'
  <2>1. \A v \in Sessions : (v \notin Getters \/ got'[v] = None) => landed'[v] = NoWrite /\ pending'[v] = NoWrite
    BY <1>1, <1>3, <1>5, Zenon DEF Traffic
  <2>2. \A v \in Sessions : pending'[v] # NoWrite => landed'[v] = NoWrite /\ got'[v].rc = -1
    BY <1>1, <1>5, Zenon DEF Traffic
  <2>3. \A v \in Getters : got'[v] \in Rec \/ (pc' = "get" /\ got'[v] = None)
    BY <1>1, Zenon DEF Traffic
  <2> QED
    BY <1>2, <1>4, <2>1, <2>2, <2>3, Zenon DEF Traffic
<1>8. o.xfer \in Nat
  BY <1>1, <1>3, SlotPlace, Zenon
<1>9. ~Clean'
  <2>1. got'[w].rc = -1 /\ o'.xfer = o.xfer
    BY <1>1, <1>3, Zenon
  <2>2. got'[w].rc # o'.xfer
    BY <1>8, <2>1
  <2> QED
    BY <1>2, <1>3, <2>2, Zenon DEF Clean
<1>10. Blame => Blame'
  <2>0. o.expect_sha = "other" => Blame'
    BY <1>1, Zenon DEF Blame
  <2> SUFFICES ASSUME NEW v \in Getters,
                      \/ got[v].callbacks = 1 /\ ~Exact(v)
                      \/ ~(Cover(landed[v]) \subseteq Bytes(SlotOf(v).payload))
               PROVE  \/ got'[v].callbacks = 1 /\ ~Exact(v)'
                      \/ ~(Cover(landed'[v]) \subseteq Bytes(SlotOf(v).payload))
    BY <1>2, <2>0, Zenon DEF Blame, Cover
  <2>1. CASE v = w
    <3>1. Cover(landed[v]) = {}
      BY <1>3, <2>1, NoCover, Zenon
    <3>2. got[v].callbacks = 1
      BY <3>1, Zenon
    <3>3. ~Exact(v)'
      <4>1. got'[v].rc # o'.xfer
        <5>1. got'[v].rc = -1 /\ o'.xfer = o.xfer
          BY <1>1, <1>3, <2>1, Zenon
        <5> QED
          BY <1>8, <5>1
      <4>2. [rc |-> o'.xfer, callbacks |-> 1].rc = o'.xfer
        BY Zenon
      <4> QED
        BY <4>1, <4>2, Zenon DEF Exact
    <3> QED
      BY <1>1, <3>2, <3>3, Zenon
  <2>2. CASE v # w
    BY <1>1, <1>2, <1>5, <2>2, Zenon DEF Exact
  <2> QED
    BY <2>1, <2>2, Zenon
<1>11. Judged'
  <2>1. ASSUME NEW v \in Getters, Earned(v)
        PROVE  Earned(v)'
    BY <1>1, <1>9, <2>1, Zenon DEF Earned
  <2> QED
    BY <1>1, <1>2, <1>10, <2>1, Zenon DEF Judged
<1>12. PassEarned' /\ FailHasCause'
  <2>1. verdict' = None
    BY <1>1, Zenon DEF Shape
  <2> QED
    BY <2>1, NoneAssumption, Zenon DEF PassEarned, FailHasCause
<1> QED
  BY <1>6, <1>7, <1>11, <1>12, Zenon DEF EInv

\* Prepare leaves poison in the payloads and the guards around them.
LEMMA PrepareEInv ==
    ASSUME EInv, LInv', Prepare
    PROVE  EInv'
<1>1. /\ pc = "prepare" /\ pc' = "get" /\ o' = o /\ o \in Options /\ Arena # Overflow
      /\ UNCHANGED <<got, svs, verdict, pending, landed>> /\ Shape
  BY Zenon DEF Prepare, EInv, LInv
<1>2. Arena' = Arena /\ Getters' = Getters /\ (\A v : SlotOf(v)' = SlotOf(v)) /\ Getters \subseteq Sessions
  BY <1>1, Frame, Zenon DEF Getters
<1>3. DOMAIN mem' = DOMAIN mem
  BY Zenon DEF Prepare
<1>4. /\ \A v \in Sessions : got[v] = None /\ landed[v] = NoWrite /\ pending[v] = NoWrite
      /\ verdict = None
  BY <1>1, Zenon DEF Shape
<1>5. ASSUME NEW i \in DOMAIN mem, NEW v \in Getters
      PROVE  /\ i \in Bytes(SlotOf(v).payload) => mem'[i] = Poison
             /\ i \in GuardBytes(SlotOf(v)) => mem'[i] = Guard
  <2>1. i \in Bytes(SlotOf(v).payload) => mem'[i] = Poison
    BY <1>5, Zenon DEF Prepare
  <2>2. ASSUME i \in GuardBytes(SlotOf(v))
        PROVE  mem'[i] = Guard
    <3>1. \A u \in Getters : SlotBytes(SlotOf(u)) = Bytes(SlotOf(u).payload) \cup GuardBytes(SlotOf(u))
      BY <1>1, SlotPlace, Zenon
    <3>2. \A u \in Getters : i \notin Bytes(SlotOf(u).payload)
      <4> SUFFICES ASSUME NEW u \in Getters, i \in Bytes(SlotOf(u).payload)
                   PROVE  FALSE
        BY Zenon
      <4>1. u = v
        BY <1>1, <2>2, <3>1, SlotsFit, Zenon DEF SlotsDisjoint
      <4> QED
        BY <1>1, <2>2, <4>1, GuardsApart, Zenon
    <3> QED
      BY <2>2, <3>1, <3>2, Zenon DEF Prepare
  <2> QED
    BY <2>1, <2>2, Zenon
<1>6. MemShape'
  BY <1>1, <1>2, <1>3, <1>4, <1>5, NoCover, Zenon DEF MemShape, Prepared, Cover
<1>7. Shape'
  BY <1>1, <1>2, <1>3, Zenon DEF Shape
<1>8. Traffic'
  BY <1>1, <1>2, <1>4, <1>6, Zenon DEF Traffic
<1>9. Judged' /\ PassEarned' /\ FailHasCause'
  BY <1>1, <1>4, NoneAssumption, Zenon DEF Judged, PassEarned, FailHasCause
<1> QED
  BY <1>7, <1>8, <1>9, Zenon DEF EInv

\* Nothing but the verdict of one slot changes.
LEMMA VerifyEInv ==
    ASSUME EInv, LInv', NEW w \in Sessions, Verify(w)
    PROVE  EInv'
<1>1. /\ pc = "verify" /\ w \in Getters /\ svs' = [svs EXCEPT ![w] = verify_slot(w)]
      /\ UNCHANGED <<o, pc, mem, got, verdict, pending, landed>>
      /\ LInv /\ Shape /\ Traffic /\ Judged
  BY Zenon DEF Verify, EInv
<1>2. Arena' = Arena /\ Getters' = Getters /\ (\A v : SlotOf(v)' = SlotOf(v) /\ Landing(v)' = Landing(v))
      /\ Getters \subseteq Sessions
  BY <1>1, Frame, Zenon DEF Getters
<1>3. /\ verify_slot(w) \in {"PASS", "FAIL", "INCONCLUSIVE"}
      /\ verify_slot(w) = "PASS" => Earned(w)
      /\ verify_slot(w) = "FAIL" => Blame
  BY <1>1, VerifyJudges, Zenon
<1>4. Shape'
  BY <1>1, <1>2, Zenon DEF Shape
<1>5. Traffic'
  <2>1. MemShape'
    BY <1>1, <1>2, Zenon DEF Traffic, MemShape, Prepared
  <2> QED
    BY <1>1, <1>2, <2>1, Zenon DEF Traffic
<1>6. Judged'
  <2>1. Blame => Blame'
    BY <1>1, <1>2, Zenon DEF Blame, Exact
  <2>2. ASSUME NEW v \in Getters, Earned(v)
        PROVE  Earned(v)'
    BY <1>1, <1>2, <2>2, Zenon DEF Earned, Clean, guards_intact, digest_match
  <2>3. svs'[w] = verify_slot(w) /\ (\A v \in Getters : v # w => svs'[v] = svs[v])
    BY <1>1, <1>2, Zenon DEF Shape
  <2> QED
    BY <1>1, <1>2, <1>3, <2>1, <2>2, <2>3, Zenon DEF Judged
<1>7. PassEarned' /\ FailHasCause'
  BY <1>1, NoneAssumption, Zenon DEF Shape, PassEarned, FailHasCause
<1> QED
  BY <1>4, <1>5, <1>6, <1>7, Zenon DEF EInv

\* What PASS and FAIL of the fold say.
LEMMA FoldEarned ==
    ASSUME EInv, pc = "verify", \A w \in Getters : svs[w] # None
    PROVE  /\ fold = "FAIL" => Blame
           /\ fold = "PASS" => /\ o.trustworthy /\ o.expect_sha = "object"
                               /\ \A w \in Sessions : pending[w] = NoWrite
                               /\ \A w \in Getters : got[w] = [rc |-> o.xfer, callbacks |-> 1]
                               /\ {landed[w] : w \in Getters} = {Landing(w) : w \in Getters}
<1>1. o \in Options /\ Arena # Overflow /\ Shape /\ Traffic /\ Judged
  BY Zenon DEF EInv, LInv
<1>2. ASSUME fold = "FAIL"
      PROVE  Blame
  BY <1>1, <1>2, Zenon DEF fold, Judged
<1>3. ASSUME fold = "PASS"
      PROVE  /\ o.trustworthy /\ o.expect_sha = "object"
             /\ \A w \in Sessions : pending[w] = NoWrite
             /\ \A w \in Getters : got[w] = [rc |-> o.xfer, callbacks |-> 1]
             /\ {landed[w] : w \in Getters} = {Landing(w) : w \in Getters}
  <2>1. \A w \in Getters : svs[w] = "PASS"
    BY <1>1, <1>3, Zenon DEF fold, Judged
  <2>2. \A w \in Getters : Earned(w)
    BY <1>1, <2>1, Zenon DEF Judged
  <2>3. \A w \in Getters : got[w] = [rc |-> o.xfer, callbacks |-> 1]
    BY <2>2, Zenon DEF Earned
  <2>4. Clean
    <3> SUFFICES ASSUME NEW v \in Getters PROVE got[v].rc = o.xfer
      BY Zenon DEF Clean
    <3>1. got[v] = [rc |-> o.xfer, callbacks |-> 1]
      BY <2>3, Zenon
    <3> QED
      BY <3>1
  <2>5. \A w \in Getters : guards_intact(SlotOf(w)) /\ digest_match(SlotOf(w))
    BY <2>2, <2>4, Zenon DEF Earned
  <2>6. \A w \in Sessions : pending[w] = NoWrite
    <3> SUFFICES ASSUME NEW w \in Sessions, pending[w] # NoWrite
                 PROVE  FALSE
      BY Zenon
    <3>1. w \in Getters /\ got[w].rc = -1
      BY <1>1, Zenon DEF Traffic
    <3>2. o.xfer \in Nat
      BY <1>1, <3>1, SlotPlace, Zenon
    <3> QED
      BY <2>4, <3>1, <3>2 DEF Clean
  <2>7. \E w \in Getters : TRUE
    BY <1>1 DEF Getters, Sessions, Options, Cases
  <2>8. {landed[w] : w \in Getters} = {Landing(w) : w \in Getters}
    BY <1>1, <2>5, LandedExact, Zenon DEF Shape, Traffic
  <2> QED
    BY <2>2, <2>3, <2>6, <2>7, <2>8, Zenon DEF Earned
<1> QED
  BY <1>2, <1>3, Zenon

\* Steps that leave memory and GETs alone, before the GETs or to the end.
LEMMA QuietEInv ==
    ASSUME EInv, LInv', UNCHANGED <<o, mem, got, svs, pending, landed>>,
           \/ /\ pc \notin {"get", "verify", "done", "setup"} /\ pc' \notin {"get", "verify", "done", "setup"}
              /\ UNCHANGED verdict
           \/ pc' = "done" /\ PassEarned' /\ FailHasCause'
    PROVE  EInv'
<1>1. Arena' = Arena
  BY Frame, Zenon
<1>2. Shape'
  BY <1>1, Zenon DEF EInv, Shape
<1>3. Traffic' /\ Judged'
  BY Zenon DEF Traffic, Judged
<1>4. PassEarned' /\ FailHasCause'
  BY NoneAssumption, Zenon DEF EInv, Shape, PassEarned, FailHasCause
<1> QED
  BY <1>2, <1>3, <1>4, Zenon DEF EInv

\* One step of the process.
LEMMA ProbeEInv ==
    ASSUME EInv, ProbeNext, UNCHANGED plan
    PROVE  EInv'
<1>1. LInv' /\ LInv /\ Shape
  BY ProbeLInv, Zenon DEF EInv
<1>2. ASSUME UNCHANGED <<o, mem, got, svs, pending, landed>>, pc' = "done",
             verdict' \in {"ENV_ERROR", "INCONCLUSIVE"}
      PROVE  EInv'
  BY <1>1, <1>2, QuietEInv, Zenon DEF PassEarned, FailHasCause
<1>3. CASE HeadFails
  BY <1>2, <1>3, Zenon DEF HeadFails, Result
<1>4. CASE Setup
  <2>1. /\ pc = "setup" /\ UNCHANGED <<got, svs, pending, landed>>
        /\ \/ /\ pc' = "register" /\ ~Unusable /\ mem' = [x \in 0..(Arena' - 1) |-> Unset] /\ verdict' = verdict
           \/ pc' = "done" /\ verdict' = "ENV_ERROR"
    BY <1>4, Zenon DEF Setup, Result
  <2>2. ~Unusable => o'.expect_sha # "poison"
    BY <1>1, <1>4, Zenon DEF Setup, Unusable, LInv, Options
  <2>3. Shape'
    BY <1>1, <2>1, <2>2, Zenon DEF Shape
  <2>4. Traffic' /\ Judged'
    BY <2>1, Zenon DEF Traffic, Judged
  <2>5. PassEarned' /\ FailHasCause'
    BY <1>1, <2>1, NoneAssumption, Zenon DEF Shape, PassEarned, FailHasCause
  <2> QED
    BY <1>1, <2>3, <2>4, <2>5, Zenon DEF EInv
<1>5. CASE Register
  BY <1>1, <1>5, QuietEInv, Zenon DEF Register
<1>6. CASE Refused
  <2>1. pc' = "done" /\ verdict' = "FAIL" /\ UNCHANGED <<o, mem, got, svs, pending, landed>> /\ pc = "refused"
    BY <1>6, Zenon DEF Refused, Exit, Result
  <2>2. \A w \in Sessions : got'[w] = None
    BY <1>1, <2>1, Zenon DEF Shape
  <2> QED
    BY <1>1, <2>1, <2>2, QuietEInv, Zenon DEF PassEarned, FailHasCause
<1>7. CASE Gate
  BY <1>1, <1>2, <1>7, QuietEInv, Zenon DEF Gate, GoOrExit, Exit, Result
<1>8. CASE SliceToken
  BY <1>1, <1>2, <1>8, QuietEInv, Zenon DEF SliceToken, Exit, Result
<1>9. CASE Prepare
  BY <1>1, <1>9, PrepareEInv, Zenon
<1>10. CASE ManualBuildFails
  BY <1>2, <1>10, Zenon DEF ManualBuildFails, Exit, Result
<1>11. CASE Finish
  <2>1. /\ pc = "verify" /\ pc' = "done" /\ UNCHANGED <<o, mem, got, svs, pending, landed>>
        /\ \A w \in Getters : svs[w] # None
        /\ verdict' = IF o.concurrent > 0 /\ fold = "PASS" THEN "INCONCLUSIVE" ELSE fold
    <3>1. /\ pc = "verify" /\ pc' = "done" /\ UNCHANGED <<o, mem, got, svs, pending, landed>>
          /\ \A w \in Getters : svs[w] # None
      BY <1>11, Zenon DEF Finish, Exit, Result
    <3>2. o.concurrent \in {0, 2} /\ (o.concurrent > 0 => o.exp = "si")
      BY <1>1, Zenon DEF LInv, Options
    <3>3. CASE o.exp = "si"
      BY <1>11, <3>1, <3>3, Zenon DEF Finish, Exit, Result
    <3>4. CASE o.exp # "si"
      BY <1>11, <3>1, <3>2, <3>4, Zenon DEF Finish, Exit, Result
    <3> QED
      BY <3>3, <3>4, Zenon
  <2>2. Getters' = Getters /\ (\A v : SlotOf(v)' = SlotOf(v) /\ Landing(v)' = Landing(v))
    BY <2>1, Frame, Zenon
  <2>3. PassEarned'
    <3> SUFFICES ASSUME verdict' = "PASS"
                 PROVE  PassEarned'
      BY Zenon DEF PassEarned
    <3>1. fold = "PASS" /\ o.concurrent = 0
      BY <1>1, <2>1 DEF LInv, Options
    <3>2. {landed'[w] : w \in Getters'} = {landed[w] : w \in Getters}
      BY <2>1, <2>2, Zenon
    <3>3. {Landing(w)' : w \in Getters'} = {Landing(w) : w \in Getters}
      BY <2>2, Zenon
    <3> QED
      BY <2>1, <2>2, <3>1, <3>2, <3>3, FoldEarned, Zenon DEF PassEarned
  <2>4. FailHasCause'
    <3> SUFFICES ASSUME verdict' = "FAIL"
                 PROVE  FailHasCause'
      BY Zenon DEF FailHasCause
    <3>1. Blame
      BY <2>1, FoldEarned, Zenon
    <3> QED
      <4>1. o' = o /\ got' = got /\ landed' = landed /\ fault' = fault
        BY <1>11, <2>1, Zenon DEF Finish
      <4>2. CASE o.expect_sha = "other"
        BY <4>1, <4>2, Zenon DEF FailHasCause
      <4>3. ASSUME NEW w \in Getters,
                   \/ got[w].callbacks = 1 /\ ~Exact(w)
                   \/ ~(Cover(landed[w]) \subseteq Bytes(SlotOf(w).payload))
            PROVE  FailHasCause'
        <5>1. Exact(w)' <=> Exact(w)
          BY <2>2, <4>1, Zenon DEF Exact
        <5>2. CASE got[w].callbacks = 1 /\ w \in fault
          BY <2>2, <4>1, <5>2, Zenon DEF FailHasCause
        <5>3. CASE ~(got[w].callbacks = 1 /\ w \in fault)
          <6>1. ProductFaulty(w)'
            BY <2>2, <4>1, <4>3, <5>1, <5>3, Zenon DEF ProductFaulty, Cover
          <6> QED
            BY <2>2, <6>1, Zenon DEF FailHasCause
        <5> QED
          BY <5>2, <5>3, Zenon
      <4> QED
        BY <3>1, <4>2, <4>3, Zenon DEF Blame
  <2> QED
    BY <1>1, <2>1, <2>3, <2>4, QuietEInv, Zenon
<1>12. ASSUME NEW w \in Sessions, IssueGet(w) \/ LateWrite(w) \/ Verify(w)
       PROVE  EInv'
  BY <1>1, <1>12, IssueGetEInv, LateWriteEInv, VerifyEInv, Zenon
<1> QED
  BY <1>3, <1>4, <1>5, <1>6, <1>7, <1>8, <1>9, <1>10, <1>11, <1>12, Zenon DEF ProbeNext

-----------------------------------------------------------------------------
(* The verdicts over a campaign. *)

LEMMA InitEInv == Init => EInv
<1> SUFFICES ASSUME Init
             PROVE  EInv
  BY Zenon
<1>1. /\ pc = "setup" /\ verdict = None
      /\ got = [w \in Sessions |-> None] /\ svs = [w \in Sessions |-> None]
      /\ pending = [w \in Sessions |-> NoWrite] /\ landed = [w \in Sessions |-> NoWrite]
  BY Zenon DEF Init, Start
<1>2. Shape
  BY <1>1, NoCover, Zenon DEF Shape
<1> QED
  BY <1>1, <1>2, InitLInv, NoneAssumption, Zenon DEF EInv, Traffic, Judged, PassEarned, FailHasCause

\* A step that changes nothing of the process.
LEMMA StillEInv ==
    ASSUME EInv, LInv', UNCHANGED vars
    PROVE  EInv'
<1>1. o' = o /\ UNCHANGED <<pc, mem, got, svs, verdict, pending, landed>>
  BY Zenon DEF vars
<1>2. Arena' = Arena /\ Getters' = Getters /\ (\A v : SlotOf(v)' = SlotOf(v) /\ Landing(v)' = Landing(v))
  BY <1>1, Frame, Zenon
<1>3. Shape'
  BY <1>1, <1>2, Zenon DEF EInv, Shape
<1>4. Traffic'
  BY <1>1, <1>2, Zenon DEF EInv, Traffic, MemShape, Prepared
<1>5. Judged'
  <2>1. Judged
    BY Zenon DEF EInv
  <2>2. Blame => Blame'
    BY <1>1, <1>2, Zenon DEF Blame, Exact
  <2>3. ASSUME NEW v \in Getters, Earned(v)
        PROVE  Earned(v)'
    BY <1>1, <1>2, <2>3, Zenon DEF Earned, Clean, guards_intact, digest_match
  <2> QED
    BY <1>1, <1>2, <2>1, <2>2, <2>3, Zenon DEF Judged
<1>6. FailHasCause'
  BY <1>1, <1>2, Zenon DEF EInv, FailHasCause, ProductFaulty, Exact, vars
<1>7. PassEarned'
  <2>1. {landed'[w] : w \in Getters'} = {landed[w] : w \in Getters}
    BY <1>1, <1>2, Zenon
  <2>2. {Landing(w)' : w \in Getters'} = {Landing(w) : w \in Getters}
    BY <1>2, Zenon
  <2> QED
    BY <1>1, <1>2, <2>1, <2>2, Zenon DEF EInv, PassEarned
<1> QED
  BY <1>3, <1>4, <1>5, <1>6, <1>7, Zenon DEF EInv

LEMMA NextEInv == EInv /\ [Next]_campaignVars => EInv'
<1> SUFFICES ASSUME EInv, [Next]_campaignVars
             PROVE  EInv'
  BY Zenon
<1>1. LInv'
  BY NextLInv, Zenon DEF EInv
<1>2. CASE Probe
  BY <1>2, ProbeEInv, Zenon DEF Probe
<1>3. ASSUME NEW x, Begin(x)
      PROVE  EInv'
  <2>1. /\ pc' = "setup" /\ verdict' = None
        /\ got' = [w \in Sessions |-> None] /\ svs' = [w \in Sessions |-> None]
        /\ pending' = [w \in Sessions |-> NoWrite] /\ landed' = [w \in Sessions |-> NoWrite]
    BY <1>3, Zenon DEF Begin, Start
  <2>2. Shape'
    BY <2>1, NoCover, Zenon DEF Shape
  <2> QED
    BY <1>1, <2>1, <2>2, NoneAssumption, Zenon DEF EInv, Traffic, Judged, PassEarned, FailHasCause
<1>4. CASE UNCHANGED vars
  BY <1>1, <1>4, StillEInv, Zenon
<1>5. CASE CaseOver \/ Dies
  BY <1>3, <1>4, <1>5, Zenon DEF CaseOver, Dies, GoOn
<1> QED
  BY <1>2, <1>4, <1>5, Zenon DEF Next, campaignVars

\* For every size, case and product that writes no more once it has answered: PASS of
\* scope_probe_main.cpp means that the bytes of the object are in the payloads of the case
\* and were written nowhere else, each by one callback, with nothing left to write.
THEOREM PassSound == Spec => []PassEarned
<1>1. EInv => PassEarned
  BY Zenon DEF EInv
<1> QED
  BY <1>1, InitEInv, NextEInv, PTL DEF Spec

\* For every size, case, digest and product: FAIL of scope_probe_main.cpp means that the
\* product refused a registration, answered a GET inexactly or wrote outside a payload,
\* unless --expect-sha is the digest of something else or the probe's own callback failed.
THEOREM FailSound == Spec => []FailHasCause
<1>1. EInv => FailHasCause
  BY Zenon DEF EInv
<1> QED
  BY <1>1, InitEInv, NextEInv, PTL DEF Spec

-----------------------------------------------------------------------------
(* The invariant of one process on a product of known abilities. *)

Verdicts == {"PASS", "FAIL", "INCONCLUSIVE", "ENV_ERROR"}

\* The GET of w ended as the product's abilities say, and a supported one is in place.
Delivered(w) ==
    IF Supported(o.exp)
    THEN /\ got[w].rc = o.xfer /\ got[w].callbacks \in {1, 2}
         /\ \A i \in Bytes(SlotOf(w).payload) : mem[i] = i - SlotOf(w).payload.offset
    ELSE got[w].rc = -1 /\ got[w].callbacks = 1

Decided(v) == v \in IF Supported(o.exp) THEN {"PASS", "INCONCLUSIVE"} ELSE {"FAIL"}

MemInv ==
    /\ DOMAIN got = Sessions /\ DOMAIN svs = Sessions /\ DOMAIN pending = Sessions
    /\ pc \notin {"setup", "done"} => DOMAIN mem = 0..(Arena - 1) /\ o.expect_sha # "poison"
    /\ pc \in {"get", "verify"} =>
         \A w \in Getters : \A i \in GuardBytes(SlotOf(w)) : mem[i] = Guard

GetInv ==
    /\ \A w \in Sessions : pending[w] = NoWrite
    /\ pc \notin {"get", "verify", "done"} => \A w \in Sessions : got[w] = None
    /\ pc = "get" => \A w \in Getters : got[w] = None \/ Delivered(w)
    /\ pc = "verify" => \A w \in Getters : Delivered(w)

VerdictInv ==
    /\ pc = "refused" => ~Supported(o.exp)
    /\ \A w \in Getters : svs[w] = None \/ Decided(svs[w])
    /\ verdict \in Verdicts \cup {None}
    /\ verdict = "PASS" => Supported(o.exp)
    /\ verdict = "FAIL" => ~Supported(o.exp)

\* The digest is the object's, in this case and in those to come.
DigestInv ==
    o.expect_sha # "other" /\ (\A i \in 1..Len(plan) : plan[i].expect_sha # "other")

PInv == LInv /\ (able # Any => MemInv /\ GetInv /\ VerdictInv /\ DigestInv)

\* verify_slot on a delivered GET.
LEMMA VerifyDecides ==
    ASSUME PInv, able # Any, pc = "verify", NEW w \in Getters
    PROVE  Decided(verify_slot(w))
<1>1. Delivered(w) /\ o \in Options /\ o.expect_sha # "poison" /\ o.expect_sha # "other"
      /\ \A i \in GuardBytes(SlotOf(w)) : mem[i] = Guard
  BY Zenon DEF PInv, LInv, GetInv, MemInv, DigestInv
<1>2. CASE ~Supported(o.exp)
  <2>1. got[w].rc = -1 /\ got[w].callbacks = 1
    BY <1>1, <1>2, Zenon DEF Delivered
  <2>2. verify_slot(w) = "FAIL"
    BY <2>1 DEF verify_slot
  <2> QED
    BY <1>2, <2>2, Zenon DEF Decided
<1>3. CASE Supported(o.exp)
  <2>1. guards_intact(SlotOf(w))
    BY <1>1, Zenon DEF guards_intact, GuardBytes
  <2>2. digest_match(SlotOf(w)) /\ got[w].rc = o.xfer
    BY <1>1, <1>3, Zenon DEF digest_match, Delivered
  <2>3. o.xfer \in Nat
    BY <1>1, LayoutAssumption DEF Options, SizeT
  <2>4. landing(w) \in {"PASS", "INCONCLUSIVE"}
    BY <2>1, <2>2, Zenon DEF landing
  <2>5. verify_slot(w) \in {"PASS", "INCONCLUSIVE"}
    <3>1. ~(got[w].rc < 0)
      BY <2>2, <2>3
    <3> QED
      BY <2>4, <3>1, Zenon DEF verify_slot
  <2> QED
    BY <1>3, <2>5, Zenon DEF Decided
<1> QED
  BY <1>2, <1>3, Zenon

\* What a GET of w does to memory.
LEMMA GetWrites ==
    ASSUME PInv, able # Any, pc = "get", NEW w \in Getters, IssueGet(w)
    PROVE  /\ got'[w].rc = (IF Supported(o.exp) THEN o.xfer ELSE -1)
           /\ got'[w].callbacks \in (IF Supported(o.exp) THEN {1, 2} ELSE {1})
           /\ pending' = [pending EXCEPT ![w] = NoWrite]
           /\ mem' = IF Supported(o.exp) THEN Written(Landing(w)) ELSE Written(NoWrite)
<1>1. o \in Options /\ Arena # Overflow /\ DOMAIN got = Sessions /\ w \in Sessions
  BY Zenon DEF PInv, LInv, MemInv, Getters
<1>2. PICK e \in KnownEnd(w) :
         /\ got' = [got EXCEPT ![w] = [rc |-> e.rc, callbacks |-> e.callbacks]]
         /\ mem' = Written(e.now)
         /\ pending' = [pending EXCEPT ![w] = e.later]
  BY <1>1, AboveOrigin, Zenon DEF IssueGet, Ends
<1>3. got'[w].rc = e.rc /\ got'[w].callbacks = e.callbacks
  BY <1>1, <1>2, Zenon
<1>4. CASE Supported(o.exp)
  <2>1. e.rc = o.xfer /\ e.callbacks \in {1, 2} /\ e.now = Landing(w) /\ e.later = NoWrite
    <3>1. PICK k \in {1, 2} : e = End(o.xfer, k, Landing(w), NoWrite)
      BY <1>2, <1>4, Zenon DEF KnownEnd, Supported
    <3>2. e.rc = o.xfer /\ e.callbacks = k /\ e.now = Landing(w) /\ e.later = NoWrite
      BY <3>1, Zenon DEF End
    <3> QED
      BY <3>2, Zenon
  <2>2. pending' = [pending EXCEPT ![w] = NoWrite] /\ mem' = Written(Landing(w))
    BY <1>2, <2>1, Zenon
  <2> QED
    BY <1>3, <1>4, <2>1, <2>2, Zenon
<1>5. CASE ~Supported(o.exp)
  <2>1. e.rc = -1 /\ e.callbacks = 1 /\ e.now = NoWrite /\ e.later = NoWrite
    <3>1. e = End(-1, 1, NoWrite, NoWrite)
      BY <1>2, <1>5, Zenon DEF KnownEnd, Supported
    <3> QED
      BY <3>1, Zenon DEF End
  <2>2. pending' = [pending EXCEPT ![w] = NoWrite] /\ mem' = Written(NoWrite)
    BY <1>2, <2>1, Zenon
  <2> QED
    BY <1>3, <1>5, <2>1, <2>2, Zenon
<1> QED
  BY <1>4, <1>5, Zenon

\* A GET leaves guards and earlier payloads alone and delivers its own.
LEMMA IssueGetPInv ==
    ASSUME PInv, LInv', able # Any, NEW w \in Sessions, IssueGet(w)
    PROVE  MemInv' /\ GetInv' /\ VerdictInv'
<1>1. /\ pc = "get" /\ w \in Getters /\ o' = o /\ able' = able /\ svs' = svs /\ verdict' = verdict
      /\ pc' \in {"get", "verify"} /\ o \in Options /\ Arena # Overflow
      /\ pc' = "verify" => \A v \in Getters \ {w} : got[v] # None
  BY Zenon DEF IssueGet, PInv, LInv
<1>2. /\ Arena' = Arena /\ Getters' = Getters
      /\ \A v : SlotOf(v)' = SlotOf(v)
  BY <1>1, Frame, Zenon
<1>3. MemInv /\ GetInv /\ VerdictInv
  BY Zenon DEF PInv
<1>4. Supported(o.exp)' <=> Supported(o.exp)
  BY <1>1, Zenon DEF Supported
<1>5. /\ got'[w].rc = (IF Supported(o.exp) THEN o.xfer ELSE -1)
      /\ got'[w].callbacks \in (IF Supported(o.exp) THEN {1, 2} ELSE {1})
      /\ pending' = [pending EXCEPT ![w] = NoWrite]
      /\ mem' = IF Supported(o.exp) THEN Written(Landing(w)) ELSE Written(NoWrite)
  BY <1>1, GetWrites, Zenon
<1>6. /\ DOMAIN mem' = DOMAIN mem
      /\ \A i \in DOMAIN mem :
            mem'[i] = IF Supported(o.exp) /\ i \in Bytes(SlotOf(w).payload)
                      THEN i - SlotOf(w).payload.offset ELSE mem[i]
  <2>1. CASE Supported(o.exp)
    BY <1>1, <1>5, <2>1, LandingBytes, Zenon DEF Written
  <2>2. CASE ~Supported(o.exp)
    <3>1. 0 .. (0 + 0 - 1) = {}
      OBVIOUS
    <3>2. NoWrite.at = 0 /\ NoWrite.n = 0
      BY Zenon DEF NoWrite
    <3> QED
      BY <1>5, <2>2, <3>1, <3>2, Zenon DEF Written
  <2> QED
    BY <2>1, <2>2, Zenon
<1>7. /\ \A v \in Getters : SlotBytes(SlotOf(v)) \subseteq DOMAIN mem
      /\ \A v \in Getters : v # w => SlotBytes(SlotOf(v)) \cap SlotBytes(SlotOf(w)) = {}
      /\ \A v : SlotBytes(SlotOf(v)) = Bytes(SlotOf(v).payload) \cup GuardBytes(SlotOf(v))
      /\ GuardBytes(SlotOf(w)) \cap Bytes(SlotOf(w).payload) = {}
  <2>1. DOMAIN mem = 0..(Arena - 1)
    BY <1>1, <1>3, Zenon DEF MemInv
  <2>2. \A v \in Getters : SlotBytes(SlotOf(v)) \subseteq DOMAIN mem
    BY <1>1, <2>1, SlotsFit, Zenon DEF SlotFits
  <2>3. \A v \in Getters : v # w => SlotBytes(SlotOf(v)) \cap SlotBytes(SlotOf(w)) = {}
    BY <1>1, SlotsFit, Zenon DEF SlotsDisjoint
  <2>4. \A v : SlotBytes(SlotOf(v)) = Bytes(SlotOf(v).payload) \cup GuardBytes(SlotOf(v))
    BY Zenon DEF SlotBytes, GuardBytes
  <2> QED
    BY <1>1, <2>2, <2>3, <2>4, GuardsApart, Zenon
<1>8. \A v \in Getters : \A i \in GuardBytes(SlotOf(v)) : mem'[i] = Guard
  <2> SUFFICES ASSUME NEW v \in Getters, NEW i \in GuardBytes(SlotOf(v))
               PROVE  mem'[i] = Guard
    BY Zenon
  <2>1. mem[i] = Guard
    BY <1>1, <1>3, Zenon DEF MemInv
  <2>2. i \in DOMAIN mem /\ i \notin Bytes(SlotOf(w).payload)
    BY <1>7, Zenon
  <2> QED
    BY <1>6, <2>1, <2>2, Zenon
<1>9. MemInv'
  <2>1. DOMAIN got' = Sessions /\ DOMAIN svs' = Sessions /\ DOMAIN pending' = Sessions
    BY <1>1, <1>3, Zenon DEF MemInv, IssueGet
  <2>2. DOMAIN mem' = 0..(Arena' - 1) /\ o'.expect_sha # "poison"
    BY <1>1, <1>2, <1>3, <1>6, Zenon DEF MemInv
  <2> QED
    BY <1>2, <1>8, <2>1, <2>2, Zenon DEF MemInv
<1>10. Delivered(w)'
  <2>1. Supported(o.exp) => \A i \in Bytes(SlotOf(w).payload) : mem'[i] = i - SlotOf(w).payload.offset
    BY <1>1, <1>6, <1>7, Zenon
  <2> QED
    BY <1>1, <1>2, <1>4, <1>5, <2>1, Zenon DEF Delivered
<1>11. ASSUME NEW v \in Getters, v # w, Delivered(v)
       PROVE  Delivered(v)'
  <2>1. got'[v] = got[v]
    BY <1>1, <1>3, <1>11, Zenon DEF IssueGet, MemInv, Getters
  <2>2. \A i \in Bytes(SlotOf(v).payload) : mem'[i] = mem[i]
    BY <1>1, <1>6, <1>7, <1>11, Zenon
  <2> QED
    BY <1>1, <1>2, <1>4, <1>11, <2>1, <2>2, Zenon DEF Delivered
<1>12. GetInv'
  <2>1. \A v \in Sessions : pending'[v] = NoWrite
    BY <1>3, <1>5, Zenon DEF GetInv, MemInv
  <2>2. pc' = "get" => \A v \in Getters : got'[v] = None \/ Delivered(v)'
    <3>1. \A v \in Getters : v # w => got'[v] = got[v]
      BY <1>3, Zenon DEF IssueGet, MemInv, Getters
    <3> QED
      BY <1>1, <1>3, <1>10, <1>11, <3>1, Zenon DEF GetInv
  <2>3. pc' = "verify" => \A v \in Getters : Delivered(v)'
    BY <1>1, <1>3, <1>10, <1>11, Zenon DEF GetInv
  <2> QED
    BY <1>1, <1>2, <2>1, <2>2, <2>3, Zenon DEF GetInv
<1>13. VerdictInv'
  BY <1>1, <1>2, <1>3, <1>4, Zenon DEF VerdictInv, Decided
<1> QED
  BY <1>9, <1>12, <1>13, Zenon

\* Prepare sets the guards of every slot.
LEMMA PreparePInv ==
    ASSUME PInv, LInv', able # Any, Prepare
    PROVE  MemInv' /\ GetInv' /\ VerdictInv'
<1>1. /\ pc = "prepare" /\ pc' = "get" /\ o' = o /\ o \in Options /\ Arena # Overflow
      /\ UNCHANGED <<registered, token, got, svs, verdict, able, pending, landed>>
  BY Zenon DEF Prepare, PInv, LInv
<1>2. Arena' = Arena /\ Getters' = Getters /\ (\A v : SlotOf(v)' = SlotOf(v))
  BY <1>1, Frame, Zenon
<1>3. MemInv /\ GetInv /\ VerdictInv
  BY Zenon DEF PInv
<1>4. DOMAIN mem' = DOMAIN mem /\ DOMAIN mem = 0..(Arena - 1)
  BY <1>1, <1>3, Zenon DEF Prepare, MemInv
<1>5. \A v \in Getters : \A i \in GuardBytes(SlotOf(v)) : mem'[i] = Guard
  <2> SUFFICES ASSUME NEW v \in Getters, NEW i \in GuardBytes(SlotOf(v))
               PROVE  mem'[i] = Guard
    BY Zenon
  <2>1. \A u \in Getters : SlotBytes(SlotOf(u)) = Bytes(SlotOf(u).payload) \cup GuardBytes(SlotOf(u))
    BY Zenon DEF SlotBytes, GuardBytes
  <2>2. i \in SlotBytes(SlotOf(v))
    BY <2>1, Zenon
  <2>3. i \in DOMAIN mem
    BY <1>1, <1>4, <2>2, SlotsFit, Zenon DEF SlotFits
  <2>4. \A u \in Getters : i \notin Bytes(SlotOf(u).payload)
    <3> SUFFICES ASSUME NEW u \in Getters, i \in Bytes(SlotOf(u).payload)
                 PROVE  FALSE
      BY Zenon
    <3>1. i \in SlotBytes(SlotOf(u))
      BY <2>1, Zenon
    <3>2. u = v
      BY <1>1, <2>2, <3>1, SlotsFit, Zenon DEF SlotsDisjoint
    <3> QED
      BY <1>1, <3>2, GuardsApart, Zenon
  <2> QED
    BY <2>2, <2>3, <2>4, Zenon DEF Prepare
<1>6. MemInv'
  BY <1>1, <1>2, <1>3, <1>4, <1>5, Zenon DEF MemInv
<1>7. GetInv'
  BY <1>1, <1>2, <1>3, Zenon DEF GetInv, Getters
<1>8. VerdictInv'
  BY <1>1, <1>2, <1>3, Zenon DEF VerdictInv, Decided, Supported
<1> QED
  BY <1>6, <1>7, <1>8, Zenon

\* Steps that change neither memory nor GETs, and go on before the GETs or end the
\* process with a verdict that the abilities allow.
LEMMA QuietPInv ==
    ASSUME PInv, LInv', able # Any, UNCHANGED <<o, mem, got, svs, able, pending>>,
           \/ /\ pc \notin {"get", "verify", "done", "setup"} /\ pc' \notin {"get", "verify", "done", "setup"}
              /\ UNCHANGED verdict
              /\ pc' = "refused" => ~Supported(o.exp)
           \/ /\ pc' = "done" /\ verdict' \in Verdicts
              /\ verdict' = "PASS" => Supported(o.exp)
              /\ verdict' = "FAIL" => ~Supported(o.exp)
    PROVE  MemInv' /\ GetInv' /\ VerdictInv'
<1>1. Arena' = Arena /\ Getters' = Getters /\ (\A v : SlotOf(v)' = SlotOf(v))
  BY Frame, Zenon
<1>2. MemInv /\ GetInv /\ VerdictInv
  BY Zenon DEF PInv
<1>3. MemInv'
  BY <1>1, <1>2, Zenon DEF MemInv
<1>4. GetInv'
  BY <1>1, <1>2, Zenon DEF GetInv
<1>5. VerdictInv'
  BY <1>1, <1>2, Zenon DEF VerdictInv, Decided, Supported
<1> QED
  BY <1>3, <1>4, <1>5, Zenon

\* Setup makes the arena; a poison with the expected digest does not get past it.
LEMMA SetupPInv ==
    ASSUME PInv, LInv', able # Any, Setup
    PROVE  MemInv' /\ GetInv' /\ VerdictInv'
<1>0. o'.expect_sha = o.expect_sha /\ o'.exp = o.exp
  BY Zenon DEF Setup, PInv, LInv, Options
<1>1. MemInv /\ GetInv /\ VerdictInv /\ pc = "setup"
  BY Zenon DEF PInv, Setup
<1>2. \/ pc' = "register" /\ ~Unusable /\ mem' = [x \in 0..(Arena' - 1) |-> Unset] /\ verdict' = verdict
      \/ pc' = "done" /\ verdict' = "ENV_ERROR"
  BY Zenon DEF Setup, Result
<1>3. ~Unusable => o'.expect_sha # "poison"
  BY <1>0, Zenon DEF Unusable
<1>4. MemInv'
  BY <1>1, <1>2, <1>3, Zenon DEF MemInv, Setup
<1>5. GetInv'
  BY <1>1, <1>2, Zenon DEF GetInv, Setup
<1>6. VerdictInv'
  <2>1. Getters' = Getters /\ (Supported(o.exp)' <=> Supported(o.exp)) /\ svs' = svs
    BY <1>0, Zenon DEF Setup, Getters, Supported
  <2> QED
    BY <1>0, <1>1, <1>2, <2>1, Zenon DEF VerdictInv, Verdicts, Decided
<1> QED
  BY <1>4, <1>5, <1>6, Zenon

\* Verify adds a verdict that the abilities allow.
LEMMA VerifyPInv ==
    ASSUME PInv, LInv', able # Any, NEW w \in Sessions, Verify(w)
    PROVE  MemInv' /\ GetInv' /\ VerdictInv'
<1>1. /\ pc = "verify" /\ w \in Getters /\ svs' = [svs EXCEPT ![w] = verify_slot(w)]
      /\ UNCHANGED <<o, pc, mem, got, verdict, able, pending>>
  BY Zenon DEF Verify
<1>2. Arena' = Arena /\ Getters' = Getters /\ (\A v : SlotOf(v)' = SlotOf(v))
  BY <1>1, Frame, Zenon
<1>3. MemInv /\ GetInv /\ VerdictInv
  BY Zenon DEF PInv
<1>4. Decided(verify_slot(w))
  BY <1>1, VerifyDecides, Zenon
<1>5. MemInv'
  BY <1>1, <1>2, <1>3, Zenon DEF MemInv
<1>6. GetInv'
  <2>1. \A v : Delivered(v)' <=> Delivered(v)
    BY <1>1, <1>2, Zenon DEF Delivered, Supported
  <2> QED
    BY <1>1, <1>2, <1>3, <2>1, Zenon DEF GetInv
<1>7. VerdictInv'
  <2>1. \A v \in Getters : svs'[v] = None \/ Decided(svs'[v])
    BY <1>1, <1>3, <1>4, Zenon DEF VerdictInv, MemInv, Getters
  <2> QED
    BY <1>1, <1>2, <1>3, <2>1, Zenon DEF VerdictInv, Decided, Supported
<1> QED
  BY <1>5, <1>6, <1>7, Zenon

\* The verdicts of all slots fold to one that the abilities allow.
LEMMA FoldDecided ==
    ASSUME PInv, able # Any, \A w \in Getters : svs[w] # None
    PROVE  Decided(fold)
<1>1. \A w \in Getters : Decided(svs[w])
  BY Zenon DEF PInv, VerdictInv
<1>2. \E w \in Getters : TRUE
  <2>1. o.exp \in Cases
    BY Zenon DEF PInv, LInv, Options
  <2> QED
    BY <2>1 DEF Getters, Sessions, Cases
<1> QED
  BY <1>1, <1>2, Zenon DEF fold, Decided

\* One step of the process.
LEMMA ProbePInv ==
    ASSUME PInv, ProbeNext, UNCHANGED plan
    PROVE  PInv'
<1>1. LInv' /\ able' = able
  BY ProbeLInv, Zenon DEF PInv, ProbeNext, HeadFails, Setup, Register, Refused, Gate, SliceToken, Prepare,
                   ManualBuildFails, Finish, IssueGet, LateWrite, Verify
<1>0. able # Any => DigestInv'
  <2>1. o'.expect_sha = o.expect_sha
    BY Zenon DEF PInv, LInv, Options, ProbeNext, HeadFails, Setup, Register, Refused, Gate, SliceToken, Prepare,
                 ManualBuildFails, Finish, IssueGet, LateWrite, Verify
  <2> QED
    BY <2>1, Zenon DEF PInv, DigestInv
<1> SUFFICES ASSUME able # Any
             PROVE  MemInv' /\ GetInv' /\ VerdictInv'
  BY <1>0, <1>1, Zenon DEF PInv
<1>2. MemInv /\ GetInv /\ VerdictInv /\ LInv
  BY Zenon DEF PInv
<1>3. CASE HeadFails
  BY <1>1, <1>3, QuietPInv, Zenon DEF HeadFails, Result, Verdicts
<1>4. CASE Setup
  BY <1>1, <1>4, SetupPInv, Zenon
<1>5. CASE Register
  <2>1. pc' = "refused" => ~Supported(o.exp)
    BY <1>5, Zenon DEF Register, Accepted, Supported
  <2> QED
    BY <1>1, <1>5, <2>1, QuietPInv, Zenon DEF Register
<1>6. CASE Refused
  BY <1>1, <1>2, <1>6, QuietPInv, Zenon DEF Refused, Exit, Result, Verdicts, VerdictInv
<1>7. CASE Gate
  BY <1>1, <1>7, QuietPInv, Zenon DEF Gate, GoOrExit, Exit, Result, Verdicts
<1>8. CASE SliceToken
  BY <1>1, <1>8, QuietPInv, Zenon DEF SliceToken, Exit, Result, Verdicts
<1>9. CASE Prepare
  BY <1>1, <1>9, PreparePInv, Zenon
<1>10. CASE ManualBuildFails
  BY <1>1, <1>10, QuietPInv, Zenon DEF ManualBuildFails, Exit, Result, Verdicts
<1>11. CASE Finish
  <2>1. Decided(fold)
    BY <1>11, FoldDecided, Zenon DEF Finish
  <2>2. /\ pc' = "done" /\ verdict' \in {fold, "INCONCLUSIVE"}
        /\ UNCHANGED <<o, mem, got, svs, able, pending>>
    BY <1>11, Zenon DEF Finish, Exit, Result
  <2> QED
    BY <1>1, <2>1, <2>2, QuietPInv, Zenon DEF Decided, Verdicts
<1>12. ASSUME NEW w \in Sessions, IssueGet(w) \/ LateWrite(w) \/ Verify(w)
       PROVE  MemInv' /\ GetInv' /\ VerdictInv'
  <2>1. ~LateWrite(w)
    BY <1>2, Zenon DEF LateWrite, GetInv
  <2> QED
    BY <1>1, <1>12, <2>1, IssueGetPInv, VerifyPInv, Zenon
<1> QED
  BY <1>3, <1>4, <1>5, <1>6, <1>7, <1>8, <1>9, <1>10, <1>11, <1>12, Zenon DEF ProbeNext

-----------------------------------------------------------------------------
(* The outcome over a campaign. *)

\* The collected verdicts agree with the abilities, and the outcome is their mapping.
VInv ==
    able # Any =>
        /\ verdicts \in [Cases -> Verdicts \cup {None}]
        /\ \A k \in Cases : /\ verdicts[k] = "PASS" => Supported(k)
                            /\ verdicts[k] = "FAIL" => ~Supported(k)
        /\ outcome = None \/ outcome = decide(verdicts)

CInv == PInv /\ VInv

\* A process starts in the invariant.
LEMMA StartPInv ==
    ASSUME LInv, pc = "setup", mem = <<>>, verdict = None,
           got = [w \in Sessions |-> None], svs = [w \in Sessions |-> None],
           pending = [w \in Sessions |-> NoWrite], able # Any => DigestInv
    PROVE  PInv
<1>1. MemInv
  BY Zenon DEF MemInv
<1>2. GetInv
  BY Zenon DEF GetInv
<1>3. VerdictInv
  BY NoneAssumption, Zenon DEF VerdictInv, Getters
<1> QED
  BY <1>1, <1>2, <1>3, Zenon DEF PInv

LEMMA InitCInv == Init => CInv
<1> SUFFICES ASSUME Init
             PROVE  CInv
  BY Zenon
<1>1. LInv
  BY InitLInv, Zenon
<1>2. /\ pc = "setup" /\ mem = <<>> /\ verdict = None
      /\ got = [w \in Sessions |-> None] /\ svs = [w \in Sessions |-> None]
      /\ pending = [w \in Sessions |-> NoWrite]
      /\ verdicts = [k \in Cases |-> None] /\ outcome = None
  BY Zenon DEF Init, Start
<1>3. VInv
  BY <1>2, NoneAssumption, Zenon DEF VInv
<1>4. able # Any => DigestInv
  <2>1. PICK c \in Campaigns : plan = c.plan /\ able = c.able /\ o = c.plan[1]
    BY Zenon DEF Init, Start
  <2>2. plan \in Seq(Options) /\ plan # <<>> /\ (able # Any => \A i \in 1..Len(plan) : plan[i].expect_sha # "other")
    BY <2>1, CampaignAssumption, Zenon
  <2>3. 1 \in 1..Len(plan)
    BY <2>2
  <2> QED
    BY <2>1, <2>2, <2>3, Zenon DEF DigestInv
<1> QED
  BY <1>1, <1>2, <1>3, <1>4, StartPInv, Zenon DEF CInv

\* The next process starts, or the verdicts are mapped.
LEMMA GoOnCInv ==
    ASSUME CInv, LInv', NEW v, GoOn(v),
           able # Any => /\ v \in [Cases -> Verdicts \cup {None}]
                         /\ \A k \in Cases : /\ v[k] = "PASS" => Supported(k)
                                             /\ v[k] = "FAIL" => ~Supported(k),
           outcome = None
    PROVE  CInv'
<1>1. CASE Len(plan) > 1
  <2>1. able' = able /\ outcome' = outcome /\ verdicts' = v /\ Begin(plan[2])
    BY <1>1, Zenon DEF GoOn
  <2>2. PInv'
    <3>1. /\ pc' = "setup" /\ mem' = <<>> /\ verdict' = None
          /\ got' = [w \in Sessions |-> None] /\ svs' = [w \in Sessions |-> None]
          /\ pending' = [w \in Sessions |-> NoWrite]
      BY <2>1, Zenon DEF Begin, Start
    <3>2. MemInv'
      BY <3>1, Zenon DEF MemInv
    <3>3. GetInv'
      BY <3>1, Zenon DEF GetInv
    <3>4. VerdictInv'
      BY <3>1, NoneAssumption, Zenon DEF VerdictInv, Getters
    <3>5. able # Any => DigestInv'
      <4> SUFFICES ASSUME able # Any
                   PROVE  DigestInv'
        BY Zenon
      <4>1. plan' = Tail(plan) /\ o' = plan[2] /\ plan \in Seq(Options) /\ DigestInv
        BY <1>1, <2>1, Zenon DEF GoOn, Begin, Start, CInv, PInv, LInv
      <4>2. /\ 2 \in 1..Len(plan)
            /\ \A i \in 1..Len(plan') : i + 1 \in 1..Len(plan) /\ plan'[i] = plan[i + 1]
        BY <1>1, <4>1
      <4> QED
        BY <4>1, <4>2, Zenon DEF DigestInv
    <3> QED
      BY <2>1, <3>2, <3>3, <3>4, <3>5, Zenon DEF PInv
  <2>3. VInv'
    BY <2>1, Zenon DEF VInv, Supported
  <2> QED
    BY <2>2, <2>3, Zenon DEF CInv
<1>2. CASE ~(Len(plan) > 1)
  <2>1. UNCHANGED <<vars, plan>> /\ outcome' = decide(v) /\ verdicts' = v
    BY <1>2, Zenon DEF GoOn
  <2>2. PInv'
    <3>1. o' = o /\ able' = able
      BY <2>1, Zenon DEF vars
    <3>2. Arena' = Arena /\ Getters' = Getters /\ (\A w : SlotOf(w)' = SlotOf(w))
      BY <3>1, Frame, Zenon
    <3>3. able # Any => MemInv'
      BY <2>1, <3>2, Zenon DEF CInv, PInv, vars, MemInv
    <3>4. able # Any => GetInv'
      BY <2>1, <3>2, Zenon DEF CInv, PInv, vars, GetInv, Delivered, Supported
    <3>5. able # Any => VerdictInv'
      BY <2>1, <3>2, Zenon DEF CInv, PInv, vars, VerdictInv, Decided, Supported
    <3>6. able # Any => DigestInv'
      BY <2>1, <3>1, Zenon DEF CInv, PInv, DigestInv
    <3> QED
      BY <3>1, <3>3, <3>4, <3>5, <3>6, Zenon DEF PInv
  <2>3. VInv'
    <3>1. able' = able
      BY <2>1, Zenon DEF vars
    <3> QED
      BY <2>1, <3>1, Zenon DEF VInv, Supported
  <2> QED
    BY <2>2, <2>3, Zenon DEF CInv
<1> QED
  BY <1>1, <1>2, Zenon

LEMMA NextCInv == CInv /\ [Next]_campaignVars => CInv'
<1> SUFFICES ASSUME CInv, [Next]_campaignVars
             PROVE  CInv'
  BY Zenon
<1>1. LInv'
  BY NextLInv, Zenon DEF CInv, PInv
<1>2. CASE Probe
  <2>1. PInv'
    BY <1>2, ProbePInv, Zenon DEF Probe, CInv
  <2>2. able' = able
    BY <1>2, Zenon DEF Probe, ProbeNext, HeadFails, Setup, Register, Refused, Gate, SliceToken, Prepare,
                ManualBuildFails, Finish, IssueGet, LateWrite, Verify
  <2>3. VInv'
    BY <1>2, <2>2, Zenon DEF CInv, VInv, Probe, Supported
  <2> QED
    BY <2>1, <2>3, Zenon DEF CInv
<1>3. CASE CaseOver
  <2> DEFINE v == [verdicts EXCEPT ![o.exp] = verdict]
  <2>1. o.exp \in Cases
    BY Zenon DEF CInv, PInv, LInv, Options
  <2>2. able # Any => /\ v \in [Cases -> Verdicts \cup {None}]
                      /\ \A k \in Cases : /\ v[k] = "PASS" => Supported(k)
                                          /\ v[k] = "FAIL" => ~Supported(k)
    BY <2>1, Zenon DEF CInv, PInv, VerdictInv, VInv
  <2>3. GoOn(v) /\ outcome = None
    BY <1>3, Zenon DEF CaseOver
  <2> HIDE DEF v
  <2> QED
    BY <1>1, <2>2, <2>3, GoOnCInv, Zenon
<1>4. CASE Dies
  BY <1>1, <1>4, GoOnCInv, Zenon DEF Dies, CInv, VInv
<1>5. CASE UNCHANGED campaignVars
  <2>1. UNCHANGED <<vars, plan>> /\ o' = o /\ able' = able /\ UNCHANGED <<verdicts, outcome>>
    BY <1>5, Zenon DEF campaignVars, vars
  <2>2. Arena' = Arena /\ Getters' = Getters /\ (\A w : SlotOf(w)' = SlotOf(w))
    BY <2>1, Frame, Zenon
  <2>3. able # Any => MemInv'
    BY <2>1, <2>2, Zenon DEF CInv, PInv, vars, MemInv
  <2>4. able # Any => GetInv'
    BY <2>1, <2>2, Zenon DEF CInv, PInv, vars, GetInv, Delivered, Supported
  <2>5. able # Any => VerdictInv'
    BY <2>1, <2>2, Zenon DEF CInv, PInv, vars, VerdictInv, Decided, Supported
  <2>6. VInv'
    BY <2>1, Zenon DEF CInv, VInv, Supported
  <2>7. able # Any => DigestInv'
    BY <2>1, Zenon DEF CInv, PInv, DigestInv
  <2> QED
    BY <1>1, <2>1, <2>3, <2>4, <2>5, <2>6, <2>7, Zenon DEF CInv, PInv
<1> QED
  BY <1>2, <1>3, <1>4, <1>5, Zenon DEF Next

\* What the mapping makes of verdicts that agree with the abilities.
LEMMA DecideRight == VInv => OutcomeRight
<1> SUFFICES ASSUME VInv, outcome # None, able # Any
             PROVE  OutcomeRight
  BY Zenon DEF OutcomeRight
<1>1. /\ outcome = decide(verdicts)
      /\ \A k \in Cases : /\ verdicts[k] \in Verdicts \cup {None}
                          /\ verdicts[k] = "PASS" => Supported(k)
                          /\ verdicts[k] = "FAIL" => ~Supported(k)
  BY Zenon DEF VInv
<1>2. Supported("b0")
  BY Zenon DEF Supported, Needs
<1>3. \A k \in Cases : verdicts[k] \in NonDecisive \/ verdicts[k] = "PASS" \/ verdicts[k] = "FAIL"
  BY <1>1, Zenon DEF NonDecisive, Verdicts
<1>4. /\ outcome = "1" => verdicts["si"] = "PASS"
      /\ outcome = "2" => verdicts["r"] = "PASS"
      /\ outcome = "3" => verdicts["p"] = "PASS"
      /\ outcome = "STOP" => \A k \in {"si", "r", "p"} : verdicts[k] # "PASS" /\ verdicts[k] \notin NonDecisive
  BY <1>1, Zenon DEF decide
<1>5. ASSUME \A k \in {"b0", "i0", "s0", "si", "r", "p"} : verdicts[k] \in {"PASS", "FAIL"}
      PROVE  outcome = IF verdicts["si"] = "PASS" THEN "1" ELSE IF verdicts["r"] = "PASS" THEN "2"
                       ELSE IF verdicts["p"] = "PASS" THEN "3" ELSE "STOP"
  <2>1. \A k \in {"i0", "s0", "si", "r", "p"} : verdicts[k] \notin NonDecisive
    BY <1>5, NoneAssumption, Zenon DEF NonDecisive
  <2>2. verdicts["b0"] = "PASS"
    BY <1>1, <1>2, <1>5, Zenon DEF Cases
  <2> QED
    BY <1>1, <2>1, <2>2, Zenon DEF decide
<1>6. "si" \in Cases /\ "r" \in Cases /\ "p" \in Cases
  BY Zenon DEF Cases
<1>7. outcome = "STOP" => ~Supported("si") /\ ~Supported("r") /\ ~Supported("p")
  BY <1>1, <1>3, <1>4, <1>6, Zenon
<1>8. ASSUME \A k \in {"b0", "i0", "s0", "si", "r", "p"} : verdicts[k] \in {"PASS", "FAIL"}
      PROVE  /\ verdicts["si"] = "PASS" <=> Supported("si")
             /\ verdicts["r"] = "PASS" <=> Supported("r")
             /\ verdicts["p"] = "PASS" <=> Supported("p")
  BY <1>1, <1>6, <1>8, Zenon
<1> QED
  BY <1>1, <1>4, <1>5, <1>6, <1>7, <1>8, Zenon DEF OutcomeRight

\* For every campaign, size and set of abilities, whichever cases die or stay undecided:
\* outcomes 1, 2 and 3 of map_scope_outcome.py name a shape that the product supports,
\* STOP is reached only when it supports none of them, and a campaign of decisive
\* verdicts finds the best one.
THEOREM OutcomeSound == Spec => []OutcomeRight
<1>1. CInv => OutcomeRight
  BY DecideRight, Zenon DEF CInv
<1> QED
  BY <1>1, InitCInv, NextCInv, PTL DEF Spec
=============================================================================
