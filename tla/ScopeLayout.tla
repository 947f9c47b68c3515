---------------------------- MODULE ScopeLayout ----------------------------
(***************************************************************************)
(* The arithmetic of the scope probe (probe/scope_probe_main.cpp): how the *)
(* arena is cut into guarded cells, in size_t.  checked_add, checked_mul   *)
(* and align_up return false in the code where they return Overflow here,  *)
(* and an Overflow argument is the caller's early return.                  *)
(***************************************************************************)
EXTENDS Integers

CONSTANTS
    SIZE_MAX,
    kAlign,   \* 4096 in the code
    kMaxReg   \* CUOBJ_MAX_MEMORY_REG_SIZE

ASSUME LayoutAssumption ==
    /\ SIZE_MAX \in Nat /\ kMaxReg \in Nat /\ kAlign \in Nat \ {0}
    /\ kAlign - 1 <= SIZE_MAX /\ kMaxReg <= SIZE_MAX

SizeT == 0..SIZE_MAX
Overflow == -1

\* Mutant: the sum wraps around.
checked_add_wraps(a, b) == IF a = Overflow \/ b = Overflow THEN Overflow ELSE (a + b) % (SIZE_MAX + 1)

checked_add(a, b) ==
    IF a = Overflow \/ b = Overflow \/ a > SIZE_MAX - b THEN Overflow ELSE a + b

checked_mul(a, b) ==
    IF a = Overflow \/ b = Overflow \/ (a # 0 /\ b > SIZE_MAX \div a) THEN Overflow ELSE a * b

align_down(v) == (v \div kAlign) * kAlign

align_up(v) ==
    LET r == checked_add(v, kAlign - 1) IN IF r = Overflow THEN Overflow ELSE align_down(r)

-----------------------------------------------------------------------------
(* Layout, and the three ways to place a slot in it. *)

build_layout(xfer, guard) ==
    [xfer |-> xfer, guard |-> guard,
     base_region |-> align_up(checked_add(xfer, guard)),
     cell |-> align_up(checked_add(checked_add(guard, xfer), guard))]

LayoutOk(L) == L.base_region # Overflow /\ L.cell # Overflow

Span(offset, len) == [offset |-> offset, len |-> len]
Bytes(s) == s.offset .. (s.offset + s.len - 1)
SlotBytes(slot) == Bytes(slot.payload) \cup Bytes(slot.lead_guard) \cup Bytes(slot.trail_guard)

base_slot(L) ==
    [payload |-> Span(0, L.xfer), lead_guard |-> Span(0, 0),
     trail_guard |-> Span(L.xfer, L.base_region - L.xfer)]

\* A guarded cell that starts at cell_start and ends at slot_end.
CellAt(L, cell_start, slot_end) ==
    LET off == cell_start + L.guard
        end == off + L.xfer
    IN  [payload |-> Span(off, L.xfer), lead_guard |-> Span(cell_start, L.guard),
         trail_guard |-> Span(end, slot_end - end)]

NoSlot == [payload |-> Span(0, 0), lead_guard |-> Span(0, 0), trail_guard |-> Span(0, 0)]

\* Cell j behind the base region, if the arena holds it.
interior_slot(L, j, arena) ==
    LET cell_start == checked_add(L.base_region, checked_mul(j, L.cell))
        end == checked_add(checked_add(cell_start, L.guard), L.xfer)
        slot_end == checked_add(cell_start, L.cell)
    IN  IF end = Overflow \/ slot_end = Overflow \/ slot_end > arena
        THEN NoSlot
        ELSE CellAt(L, cell_start, slot_end)

\* The cell at the start of one of p's two halves; nothing is checked here.
half_slot(L, origin) == CellAt(L, origin, origin + L.cell)

\* SIZE_MAX stands for an overflow; no aligned size is SIZE_MAX.
arena_for_slots(L, count) ==
    LET total == checked_add(L.base_region, checked_mul(count, L.cell))
    IN  IF total = Overflow THEN SIZE_MAX ELSE total

-----------------------------------------------------------------------------
(* The arena of an experiment, or Overflow where main() gives up: override  *)
(* is --arena-bytes, 0 when it is not given.                                *)

slots_needed(exp) == IF exp = "r" THEN 2 ELSE 1

p_half(arena) == align_down(arena \div 2)

arena_bytes(exp, L, override) ==
    LET derived == arena_for_slots(L, slots_needed(exp))
        asked == IF override # 0 THEN override ELSE derived
        two == checked_mul(L.cell, 2)
        arena == IF exp = "p" /\ asked < two THEN two ELSE asked
    IN  IF \/ ~LayoutOk(L) \/ derived = SIZE_MAX
           \/ exp = "p" /\ (two = Overflow \/ p_half(arena) < L.cell)
           \/ exp # "p" /\ arena < derived
           \/ arena > kMaxReg
        THEN Overflow
        ELSE arena
=============================================================================
