--------------------------- MODULE SlotPoolProofs ---------------------------
(***************************************************************************)
(* Proofs about SlotPool for every number of workers, slots and channels.  *)
(***************************************************************************)
EXTENDS SlotPool, FiniteSetTheorems, SequenceTheorems, TLAPS

\* The channels that a free, held or lost slot owns.
Owned == Free \cup {slot[h] : h \in At({"holding"})} \cup lost

\* Who owns a channel, and what is left once the destructor has run.
Conservation ==
    /\ server # "closed" => /\ Owned \subseteq allocated
                            /\ "buffer" \notin CreateThrowsAt => allocated = Owned
    /\ server = "closed" => /\ "buffer" \notin CreateThrowsAt => allocated = lost
                            /\ pool_ = <<>>
                            /\ \A h \in Handlers : pc[h] = "idle"
    /\ lost # {} => TransferMayThrow
    /\ IsFiniteSet(lost)

\* The inductive invariant.
IInv ==
    /\ TypeOK
    /\ SlotsExclusive
    /\ Conservation
    /\ SlotAccounting
    /\ NoHandlerWaits
    /\ NoLostWakeup

-----------------------------------------------------------------------------
(* Counting handlers. *)

\* A set of handlers is finite and has a natural number of members.
LEMMA AtFinite ==
    ASSUME NEW S
    PROVE  IsFiniteSet(At(S)) /\ Cardinality(At(S)) \in Nat
<1>1. At(S) \in SUBSET Handlers
  BY Zenon DEF At
<1>2. IsFiniteSet(At(S))
  BY <1>1, FS_Subset, PoolAssumption, Zenon
<1>. QED
  BY <1>2, FS_CardinalityType, Zenon

\* Handler h enters a set of places: one more handler is there.
LEMMA AtEnter ==
    ASSUME NEW S, NEW h \in Handlers, h \notin At(S), At(S)' = At(S) \cup {h}
    PROVE  Cardinality(At(S)') = Cardinality(At(S)) + 1
BY AtFinite, FS_AddElement, Zenon

\* Handler h leaves a set of places: one handler less is there.
LEMMA AtLeave ==
    ASSUME NEW S, NEW h \in Handlers, h \in At(S), At(S)' = At(S) \ {h}
    PROVE  Cardinality(At(S)') = Cardinality(At(S)) - 1
BY AtFinite, FS_RemoveElement, Zenon

\* If handler h is not in a set of places, fewer than MaxConcurrency handlers are.
LEMMA AtBound ==
    ASSUME NEW S, NEW h \in Handlers, h \notin At(S)
    PROVE  Cardinality(At(S)) < MaxConcurrency
<1>1. At(S) \in SUBSET (Handlers \ {h})
  BY Zenon DEF At
<1>2. /\ IsFiniteSet(Handlers \ {h})
      /\ Cardinality(Handlers \ {h}) = Cardinality(Handlers) - 1
  BY FS_RemoveElement, PoolAssumption, Zenon
<1>3. Cardinality(At(S)) <= Cardinality(Handlers \ {h})
  BY <1>1, <1>2, FS_Subset, Zenon
<1>4. Cardinality(Handlers) \in Nat /\ Cardinality(Handlers) <= MaxConcurrency
  BY PoolAssumption, FS_CardinalityType
<1>. QED
  BY <1>2, <1>3, <1>4, AtFinite, PoolAssumption

-----------------------------------------------------------------------------
(* The stack of free slots. *)

\* The stack after pop_back.
AllButLast(s) == SubSeq(s, 1, Len(s) - 1)

\* pop_back leaves the other entries where they are.
LEMMA AllButLastFacts ==
    ASSUME NEW S, NEW s \in Seq(S), s # <<>>
    PROVE  /\ AllButLast(s) \in Seq(S)
           /\ Len(s) \in Nat \ {0}
           /\ Len(AllButLast(s)) = Len(s) - 1
           /\ \A i \in 1..(Len(s) - 1) : AllButLast(s)[i] = s[i]
           /\ s[Len(s)] \in S
<1>1. Len(s) \in Nat \ {0}
  BY EmptySeq, LenProperties, Zenon
<1>2. \A i \in 1..Len(s) : s[i] \in S
  BY ElementOfSeq, Zenon
<1>3. \A i \in 1..(Len(s) - 1) : s[i] \in S
  BY <1>1, <1>2
<1>4. PICK m \in Nat : m = Len(s) - 1
  BY <1>1
<1>5. /\ AllButLast(s) \in Seq(S)
      /\ Len(AllButLast(s)) = IF 1 <= m THEN m - 1 + 1 ELSE 0
      /\ \A i \in 1..(m - 1 + 1) : AllButLast(s)[i] = s[1 + i - 1]
  <2>1. \A i \in 1..m : s[i] \in S
    BY <1>3, <1>4, Zenon
  <2>. QED
    BY <1>4, <2>1, SubSeqProperties, SMT DEF AllButLast
<1>6. Len(AllButLast(s)) = m
  BY <1>5
<1>7. ASSUME NEW i \in 1..m
      PROVE  AllButLast(s)[i] = s[i]
  <2>1. i \in 1..(m - 1 + 1) /\ 1 + i - 1 = i
    OBVIOUS
  <2>. QED
    BY <1>5, <2>1, Zenon
<1>8. s[Len(s)] \in S
  BY <1>1, <1>2
<1>. QED
  BY <1>1, <1>4, <1>5, <1>6, <1>7, <1>8, Zenon

\* pop_back removes the last slot from the free ones and keeps the others.
LEMMA PopFree ==
    ASSUME TypeOK, SlotsExclusive, pool_ # <<>>,
           pool_' = AllButLast(pool_)
    PROVE  /\ pool_' \in Seq(Channels)
           /\ Len(pool_') = Len(pool_) - 1
           /\ Len(pool_) \in Nat \ {0}
           /\ pool_[Len(pool_)] \in Channels
           /\ pool_[Len(pool_)] \in Free
           /\ \A i \in 1..Len(pool_') : pool_'[i] = pool_[i]
           /\ Free' = Free \ {pool_[Len(pool_)]}
<1>1. Len(pool_) \in Nat \ {0} /\ pool_ \in Seq(Channels)
  BY AllButLastFacts, Zenon DEF TypeOK
<1>2. /\ pool_' \in Seq(Channels)
      /\ Len(pool_') = Len(pool_) - 1
      /\ \A i \in 1..Len(pool_') : pool_'[i] = pool_[i]
      /\ pool_[Len(pool_)] \in Channels
  BY <1>1, AllButLastFacts, Zenon
<1>3. pool_[Len(pool_)] \in Free
  BY <1>1 DEF Free
<1>4. \A i, j \in 1..Len(pool_) : pool_[i] = pool_[j] => i = j
  BY Zenon DEF SlotsExclusive
<1>5. Free' = Free \ {pool_[Len(pool_)]}
  BY <1>1, <1>2, <1>4 DEF Free
<1>. QED
  BY <1>1, <1>2, <1>3, <1>5, Zenon

\* push_back adds one slot to the free ones.
LEMMA PushFree ==
    ASSUME TypeOK, NEW c \in Channels, pool_' = Append(pool_, c)
    PROVE  /\ pool_' \in Seq(Channels)
           /\ Len(pool_') = Len(pool_) + 1
           /\ Len(pool_) \in Nat
           /\ \A i \in 1..Len(pool_) : pool_'[i] = pool_[i]
           /\ pool_'[Len(pool_) + 1] = c
           /\ Free' = Free \cup {c}
<1>1. Len(pool_) \in Nat /\ pool_ \in Seq(Channels)
  BY LenProperties, Zenon DEF TypeOK
<1>2. /\ pool_' \in Seq(Channels)
      /\ Len(pool_') = Len(pool_) + 1
      /\ \A i \in 1..Len(pool_) : pool_'[i] = pool_[i]
      /\ pool_'[Len(pool_) + 1] = c
  BY <1>1, AppendProperties
<1>3. Free' = Free \cup {c}
  BY <1>1, <1>2 DEF Free
<1>. QED
  BY <1>1, <1>2, <1>3, Zenon

-----------------------------------------------------------------------------
(* Moving handlers. *)

\* What one handler's move does to the handlers at a set of places.
LEMMA GotoMoves ==
    ASSUME TypeOK, NEW h \in Handlers, NEW x \in PC, Goto(h, x), NEW S
    PROVE  /\ (pc[h] \in S <=> x \in S) => At(S)' = At(S)
           /\ pc[h] \notin S /\ x \in S =>
                 /\ At(S)' = At(S) \cup {h}
                 /\ Cardinality(At(S)') = Cardinality(At(S)) + 1
           /\ pc[h] \in S /\ x \notin S =>
                 /\ At(S)' = At(S) \ {h}
                 /\ Cardinality(At(S)') = Cardinality(At(S)) - 1
           /\ pc' \in [Handlers -> PC]
           /\ pc'[h] = x
           /\ \A g \in Handlers \ {h} : pc'[g] = pc[g]
<1>1. /\ pc' \in [Handlers -> PC]
      /\ pc'[h] = x
      /\ \A g \in Handlers \ {h} : pc'[g] = pc[g]
  BY Zenon DEF TypeOK, Goto
<1>2. ASSUME pc[h] \in S <=> x \in S  PROVE At(S)' = At(S)
  BY <1>1, <1>2 DEF At
<1>3. ASSUME pc[h] \notin S, x \in S
      PROVE  h \notin At(S) /\ At(S)' = At(S) \cup {h}
  BY <1>1, <1>3 DEF At
<1>4. ASSUME pc[h] \in S, x \notin S
      PROVE  h \in At(S) /\ At(S)' = At(S) \ {h}
  BY <1>1, <1>4 DEF At
<1>. QED
  BY <1>1, <1>2, <1>3, <1>4, AtEnter, AtLeave, Zenon

\* What notify_one does: h goes idle, and a waiter, if there is one, is woken.
LEMMA NotifyMoves ==
    ASSUME TypeOK, NEW h \in Handlers, pc[h] \in {"creating", "notify"},
           GotoAndNotifyOne(h, "idle")
    PROVE  /\ pc' \in [Handlers -> PC]
           /\ At({"waiting", "woken"})' = At({"waiting", "woken"})
           /\ At({"holding"})' = At({"holding"})
           /\ \A g \in Handlers : pc'[g] = "holding" <=> pc[g] = "holding"
           /\ pc[h] = "creating" =>
                 /\ Cardinality(At({"creating", "holding"})') = Cardinality(At({"creating", "holding"})) - 1
                 /\ At({"waiting"})' = {} \/ Cardinality(At({"woken", "notify"})') = Cardinality(At({"woken", "notify"})) + 1
           /\ pc[h] = "notify" =>
                 /\ At({"creating", "holding"})' = At({"creating", "holding"})
                 /\ At({"waiting"})' = {} \/ Cardinality(At({"woken", "notify"})') = Cardinality(At({"woken", "notify"}))
<1>1. CASE At({"waiting"}) = {}
  <2>1. Goto(h, "idle")
    BY <1>1, Zenon DEF GotoAndNotifyOne
  <2>2. "idle" \in PC
    BY Zenon DEF PC
  <2>3. /\ At({"waiting"})' = At({"waiting"})
        /\ At({"waiting", "woken"})' = At({"waiting", "woken"})
        /\ At({"holding"})' = At({"holding"})
    BY <2>1, <2>2, GotoMoves, Zenon
  <2>4. /\ pc' \in [Handlers -> PC]
        /\ \A g \in Handlers : pc'[g] = "holding" <=> pc[g] = "holding"
    BY <2>1, <2>2, GotoMoves, Zenon
  <2>5. pc[h] = "creating" => Cardinality(At({"creating", "holding"})') = Cardinality(At({"creating", "holding"})) - 1
    BY <2>1, <2>2, GotoMoves, Zenon
  <2>6. pc[h] = "notify" => At({"creating", "holding"})' = At({"creating", "holding"})
    BY <2>1, <2>2, GotoMoves, Zenon
  <2>. QED
    BY <1>1, <2>3, <2>4, <2>5, <2>6, Zenon
<1>2. CASE At({"waiting"}) # {}
  <2>1. PICK w \in At({"waiting"}) : pc' = [pc EXCEPT ![h] = "idle", ![w] = "woken"]
    BY <1>2, Zenon DEF GotoAndNotifyOne
  <2>2. w \in Handlers /\ pc[w] = "waiting" /\ w # h
    BY <2>1, Zenon DEF At
  <2>3. /\ pc' \in [Handlers -> PC]
        /\ pc'[h] = "idle" /\ pc'[w] = "woken"
        /\ \A g \in Handlers \ {h, w} : pc'[g] = pc[g]
    BY <2>1, <2>2, Zenon DEF TypeOK, PC
  <2>4. /\ At({"waiting", "woken"})' = At({"waiting", "woken"})
        /\ At({"holding"})' = At({"holding"})
        /\ \A g \in Handlers : pc'[g] = "holding" <=> pc[g] = "holding"
    BY <2>2, <2>3, Zenon DEF At
  <2>5. ASSUME pc[h] = "creating"
        PROVE  /\ Cardinality(At({"creating", "holding"})') = Cardinality(At({"creating", "holding"})) - 1
               /\ Cardinality(At({"woken", "notify"})') = Cardinality(At({"woken", "notify"})) + 1
    <3>1. h \in At({"creating", "holding"}) /\ At({"creating", "holding"})' = At({"creating", "holding"}) \ {h}
      BY <2>2, <2>3, <2>5, Zenon DEF At
    <3>2. w \notin At({"woken", "notify"}) /\ At({"woken", "notify"})' = At({"woken", "notify"}) \cup {w}
      BY <2>2, <2>3, <2>5, Zenon DEF At
    <3>. QED
      BY <2>2, <3>1, <3>2, AtEnter, AtLeave, Zenon
  <2>6. ASSUME pc[h] = "notify"
        PROVE  /\ At({"creating", "holding"})' = At({"creating", "holding"})
               /\ Cardinality(At({"woken", "notify"})') = Cardinality(At({"woken", "notify"}))
    <3>1. At({"creating", "holding"})' = At({"creating", "holding"})
      BY <2>2, <2>3, <2>6, Zenon DEF At
    <3>2. /\ h \in At({"woken", "notify"})
          /\ w \notin At({"woken", "notify"})
          /\ At({"woken", "notify"})' = (At({"woken", "notify"}) \ {h}) \cup {w}
      BY <2>2, <2>3, <2>6, Zenon DEF At
    <3>3. /\ IsFiniteSet(At({"woken", "notify"}) \ {h})
          /\ Cardinality(At({"woken", "notify"}) \ {h}) = Cardinality(At({"woken", "notify"})) - 1
          /\ Cardinality(At({"woken", "notify"})) \in Nat
      BY <3>2, AtFinite, FS_RemoveElement, Zenon
    <3>4. Cardinality(At({"woken", "notify"})') = Cardinality(At({"woken", "notify"}) \ {h}) + 1
      BY <3>2, <3>3, FS_AddElement, Zenon
    <3>. QED
      BY <3>1, <3>3, <3>4
  <2>. QED
    BY <2>3, <2>4, <2>5, <2>6, Zenon
<1>. QED
  BY <1>1, <1>2, Zenon

-----------------------------------------------------------------------------
(* The invariant is inductive: one lemma per group of actions. *)

\* What the lemmas below use of the invariant about numbers.
LEMMA Counts ==
    ASSUME IInv
    PROVE  /\ Len(pool_) \in Nat
           /\ Cardinality(lost) \in Nat
           /\ total_slots_ \in Nat
           /\ MaxConcurrency \in Nat
           /\ \A S \in {{"creating", "holding"}, {"woken", "notify"}} : Cardinality(At(S)) \in Nat
BY PoolAssumption, AtFinite, LenProperties, FS_CardinalityType, Zenon DEF IInv, TypeOK, Conservation

\* acquire_slot() takes a free slot, at once or after a wait.
LEMMA PopSlotInv ==
    ASSUME IInv, NEW h \in Handlers, pc[h] \in {"acquire", "woken"}, PopSlot(h)
    PROVE  IInv'
<1>. DEFINE c == pool_[Len(pool_)]
<1>1. pool_ # <<>> /\ Goto(h, "holding") /\ pool_' = AllButLast(pool_)
  BY Zenon DEF PopSlot, AllButLast
<1>2. /\ pool_' \in Seq(Channels)
      /\ Len(pool_') = Len(pool_) - 1
      /\ Len(pool_) \in Nat \ {0}
      /\ c \in Channels
      /\ c \in Free
      /\ \A i \in 1..Len(pool_') : pool_'[i] = pool_[i]
      /\ Free' = Free \ {c}
  BY <1>1, PopFree, Zenon DEF IInv
<1>3. "holding" \in PC
  BY Zenon DEF PC
<1>4. /\ pc' \in [Handlers -> PC]
      /\ pc'[h] = "holding"
      /\ \A g \in Handlers \ {h} : pc'[g] = pc[g]
  BY <1>1, <1>3, GotoMoves, Zenon DEF IInv
<1>5. /\ slot' \in [Handlers -> Channels \cup {NoSlot}]
      /\ slot'[h] = c
      /\ \A g \in Handlers \ {h} : slot'[g] = slot[g]
      /\ UNCHANGED <<total_slots_, allocated, lost, server>>
  BY <1>2, Zenon DEF PopSlot, IInv, TypeOK
<1>6. server # "closed"
  BY Zenon DEF IInv, Conservation
<1>7. TypeOK'
  BY <1>2, <1>4, <1>5, Zenon DEF IInv, TypeOK
<1>8. SlotsExclusive'
  <2>1. c # NoSlot
    BY <1>2, PoolAssumption, Zenon
  <2>2. \A g \in Handlers : slot[g] # c
    BY <1>2, Zenon DEF IInv, SlotsExclusive
  <2>3. \A g \in Handlers : slot'[g] # NoSlot <=> pc'[g] = "holding"
    BY <1>4, <1>5, <2>1, Zenon DEF IInv, SlotsExclusive
  <2>4. \A f, g \in Handlers : slot'[f] = slot'[g] /\ slot'[g] # NoSlot => f = g
    BY <1>5, <2>2 DEF IInv, SlotsExclusive
  <2>5. \A i, j \in 1..Len(pool_') : pool_'[i] = pool_'[j] => i = j
    <3>1. 1..Len(pool_') \subseteq 1..Len(pool_)
      BY <1>2
    <3>. QED
      BY <1>2, <3>1, Zenon DEF IInv, SlotsExclusive
  <2>6. \A g \in Handlers : slot'[g] \notin Free' \cup lost'
    BY <1>2, <1>5, Zenon DEF IInv, SlotsExclusive
  <2>7. Free' \cap lost' = {}
    BY <1>2, <1>5, Zenon DEF IInv, SlotsExclusive
  <2>. QED
    BY <2>3, <2>4, <2>5, <2>6, <2>7, Zenon DEF SlotsExclusive
<1>9. Conservation'
  <2>1. {slot[g] : g \in At({"holding"})}' = {slot[g] : g \in At({"holding"})} \cup {c}
    BY <1>4, <1>5 DEF At
  <2>2. Owned' = Owned
    BY <1>2, <1>5, <2>1, Zenon DEF Owned
  <2>. QED
    BY <1>5, <1>6, <2>2, Zenon DEF IInv, Conservation
<1>10. SlotAccounting'
  <2>1. Cardinality(At({"creating", "holding"})') = Cardinality(At({"creating", "holding"})) + 1
    BY <1>1, <1>3, GotoMoves, Zenon DEF IInv
  <2>. QED
    BY <1>2, <1>5, <1>6, <2>1, Counts DEF IInv, SlotAccounting
<1>11. NoHandlerWaits'
  BY <1>4, <1>5, Zenon DEF IInv, NoHandlerWaits, At
<1>12. NoLostWakeup'
  <2>1. At({"waiting"})' = At({"waiting"})
    BY <1>1, <1>3, GotoMoves, Zenon DEF IInv
  <2>2. \/ At({"woken", "notify"})' = At({"woken", "notify"})
        \/ Cardinality(At({"woken", "notify"})') = Cardinality(At({"woken", "notify"})) - 1
    BY <1>1, <1>3, GotoMoves, Zenon DEF IInv
  <2>. QED
    BY <1>2, <2>1, <2>2, Counts DEF IInv, NoLostWakeup
<1>. QED
  BY <1>7, <1>8, <1>9, <1>10, <1>11, <1>12, Zenon DEF IInv

\* A step that moves nobody into or out of "holding" and leaves the slots alone
\* keeps what the invariant says of their owners.
LEMMA SlotsUntouched ==
    ASSUME IInv, server # "closed",
           \A g \in Handlers : pc'[g] = "holding" <=> pc[g] = "holding",
           UNCHANGED <<slot, pool_, lost, server>>,
           allocated \subseteq allocated',
           "buffer" \notin CreateThrowsAt => allocated' = allocated
    PROVE  SlotsExclusive' /\ Conservation'
<1>1. Free' = Free
  BY Zenon DEF Free
<1>2. SlotsExclusive'
  BY <1>1, Zenon DEF IInv, SlotsExclusive
<1>3. At({"holding"})' = At({"holding"})
  BY Zenon DEF At
<1>4. {slot[g] : g \in At({"holding"})}' = {slot[g] : g \in At({"holding"})}
  BY <1>3, Zenon
<1>5. Owned' = Owned
  BY <1>1, <1>4, Zenon DEF Owned
<1>6. Conservation'
  BY <1>5, Zenon DEF IInv, Conservation
<1>. QED
  BY <1>2, <1>6, Zenon

\* The steps of a request and of acquire_slot() that move one handler and touch no slot.
LEMMA GotoInv ==
    ASSUME IInv, NEW h \in Handlers,
           \/ Receive(h) \/ EarlyReturn(h) \/ Begin(h)
           \/ AcquireGrow(h) \/ AcquireWait(h) \/ SpuriousWakeup(h) \/ WaitAgain(h)
    PROVE  IInv'
<1>. DEFINE H == {"creating", "holding"}
            W == {"woken", "notify"}
<1>1. PICK x \in PC : /\ Goto(h, x)
                      /\ \/ pc[h] = "idle" /\ x = "request" /\ server = "serving"
                         \/ pc[h] = "request" /\ x \in {"idle", "acquire"}
                         \/ pc[h] = "acquire" /\ x = "creating"
                         \/ pc[h] = "acquire" /\ x = "waiting"
                         \/ pc[h] = "waiting" /\ x = "woken"
                         \/ pc[h] = "woken" /\ x = "waiting"
  BY Zenon DEF Receive, EarlyReturn, Begin, AcquireGrow, AcquireWait, SpuriousWakeup, WaitAgain, PC
<1>2. UNCHANGED <<slot, pool_, allocated, lost, server>>
  BY Zenon DEF Receive, EarlyReturn, Begin, AcquireGrow, AcquireWait, SpuriousWakeup, WaitAgain
<1>3. server # "closed"
  BY <1>1, Zenon DEF IInv, Conservation
<1>4. /\ pc' \in [Handlers -> PC]
      /\ pc'[h] = x
      /\ \A g \in Handlers \ {h} : pc'[g] = pc[g]
  BY <1>1, GotoMoves, Zenon DEF IInv
<1>5. x = "creating" => total_slots_ < MaxConcurrency /\ total_slots_' = total_slots_ + 1
  BY <1>1, <1>4, Zenon DEF Receive, EarlyReturn, Begin, AcquireGrow, AcquireWait, SpuriousWakeup, WaitAgain, Goto, IInv, TypeOK
<1>6. x # "creating" => total_slots_' = total_slots_
  BY <1>1, <1>4, Zenon DEF Receive, EarlyReturn, Begin, AcquireGrow, AcquireWait, SpuriousWakeup, WaitAgain, Goto, IInv, TypeOK
<1>7. x = "waiting" => pool_ = <<>>
  BY <1>1, <1>4, Zenon DEF Receive, EarlyReturn, Begin, AcquireGrow, AcquireWait, SpuriousWakeup, WaitAgain, Goto, IInv, TypeOK
<1>8. x = "waiting" /\ pc[h] = "acquire" => total_slots_ >= MaxConcurrency
  BY <1>1, <1>4, Zenon DEF Receive, EarlyReturn, Begin, AcquireGrow, AcquireWait, SpuriousWakeup, WaitAgain, Goto, IInv, TypeOK
<1>9. TypeOK'
  BY <1>2, <1>4, <1>5, <1>6 DEF IInv, TypeOK
<1>10. SlotsExclusive' /\ Conservation'
  <2>1. \A g \in Handlers : pc'[g] = "holding" <=> pc[g] = "holding"
    BY <1>1, <1>4, Zenon
  <2>. QED
    BY <1>2, <1>3, <2>1, SlotsUntouched, Zenon
<1>11. SlotAccounting'
  <2>1. x = "creating" => Cardinality(At(H)') = Cardinality(At(H)) + 1
    BY <1>1, GotoMoves, Zenon DEF IInv
  <2>2. x # "creating" => At(H)' = At(H)
    BY <1>1, GotoMoves, Zenon DEF IInv
  <2>. QED
    BY <1>2, <1>3, <1>5, <1>6, <2>1, <2>2, Counts DEF IInv, SlotAccounting
<1>12. NoHandlerWaits'
  <2>1. CASE x = "waiting" /\ pc[h] = "acquire"
    <3>1. Len(pool_) = 0
      BY <1>7, <2>1
    <3>2. h \notin At(H)
      BY <2>1, Zenon DEF At
    <3>3. Cardinality(At(H)) < MaxConcurrency
      BY <3>2, AtBound, Zenon
    <3>4. lost # {}
      <4>1. SUFFICES ASSUME lost = {} PROVE FALSE
        BY Zenon
      <4>2. Cardinality(lost) = 0
        BY <4>1, FS_EmptySet, Zenon
      <4>. QED
        BY <1>3, <1>8, <2>1, <3>1, <3>3, <4>2, Counts DEF IInv, SlotAccounting
    <3>. QED
      BY <1>2, <3>4, Zenon DEF NoHandlerWaits
  <2>2. CASE ~(x = "waiting" /\ pc[h] = "acquire")
    <3>1. At({"waiting", "woken"})' = At({"waiting", "woken"})
      BY <1>1, <2>2, GotoMoves, Zenon DEF IInv
    <3>. QED
      BY <1>2, <3>1, Zenon DEF IInv, NoHandlerWaits
  <2>. QED
    BY <2>1, <2>2, Zenon
<1>13. NoLostWakeup'
  <2>1. CASE x = "waiting"
    <3>1. Len(pool_') = 0
      BY <1>2, <1>7, <2>1, Zenon
    <3>2. Cardinality(At(W)') \in Nat
      <4>1. At(W)' \in SUBSET Handlers
        BY Zenon DEF At
      <4>. QED
        BY <4>1, FS_Subset, FS_CardinalityType, PoolAssumption, Zenon
    <3>. QED
      BY <3>1, <3>2 DEF NoLostWakeup
  <2>2. CASE x = "woken"
    <3>1. Cardinality(At(W)') = Cardinality(At(W)) + 1
      BY <1>1, <2>2, GotoMoves, Zenon DEF IInv
    <3>2. At({"waiting"}) # {}
      BY <1>1, <2>2, Zenon DEF At
    <3>. QED
      BY <1>2, <3>1, <3>2, Counts DEF IInv, NoLostWakeup
  <2>3. CASE x \notin {"waiting", "woken"}
    <3>1. At(W)' = At(W)
      BY <1>1, <2>3, GotoMoves, Zenon DEF IInv
    <3>2. At({"waiting"})' = At({"waiting"})
      BY <1>1, <2>3, GotoMoves, Zenon DEF IInv
    <3>. QED
      BY <1>2, <3>1, <3>2, Zenon DEF IInv, NoLostWakeup
  <2>. QED
    BY <2>1, <2>2, <2>3, Zenon
<1>. QED
  BY <1>9, <1>10, <1>11, <1>12, <1>13, Zenon DEF IInv

\* The two callers of notify_one: the catch block of acquire_slot() and the end
\* of release_slot().
LEMMA NotifyInv ==
    ASSUME IInv, NEW h \in Handlers, CreateThrows(h) \/ Notify(h)
    PROVE  IInv'
<1>. DEFINE H == {"creating", "holding"}
            W == {"woken", "notify"}
<1>1. /\ GotoAndNotifyOne(h, "idle")
      /\ pc[h] \in {"creating", "notify"}
      /\ UNCHANGED <<slot, pool_, lost, server>>
      /\ allocated \subseteq allocated'
      /\ allocated' \in SUBSET Channels
      /\ "buffer" \notin CreateThrowsAt => allocated' = allocated
  BY Zenon DEF CreateThrows, Notify, IInv, TypeOK
<1>2. pc[h] = "creating" => total_slots_' = total_slots_ - 1
  BY Zenon DEF CreateThrows, Notify
<1>3. pc[h] = "notify" => total_slots_' = total_slots_
  BY Zenon DEF CreateThrows, Notify
<1>4. /\ pc' \in [Handlers -> PC]
      /\ At({"waiting", "woken"})' = At({"waiting", "woken"})
      /\ \A g \in Handlers : pc'[g] = "holding" <=> pc[g] = "holding"
  BY <1>1, NotifyMoves, Zenon DEF IInv
<1>5. server # "closed"
  BY <1>1, Zenon DEF IInv, Conservation
<1>6. pc[h] = "creating" => total_slots_ >= 1
  <2>1. SUFFICES ASSUME pc[h] = "creating" PROVE total_slots_ >= 1
    BY Zenon
  <2>2. h \in At(H)
    BY <2>1, Zenon DEF At
  <2>3. Cardinality(At(H)) # 0
    BY <2>2, AtFinite, FS_EmptySet, Zenon
  <2>. QED
    BY <1>5, <2>3, Counts DEF IInv, SlotAccounting
<1>7. TypeOK'
  BY <1>1, <1>2, <1>3, <1>4, <1>6 DEF IInv, TypeOK
<1>8. SlotsExclusive' /\ Conservation'
  BY <1>1, <1>4, <1>5, SlotsUntouched, Zenon
<1>9. SlotAccounting'
  <2>1. pc[h] = "creating" => Cardinality(At(H)') = Cardinality(At(H)) - 1
    BY <1>1, NotifyMoves, Zenon DEF IInv
  <2>2. pc[h] = "notify" => At(H)' = At(H)
    BY <1>1, NotifyMoves, Zenon DEF IInv
  <2>. QED
    BY <1>1, <1>2, <1>3, <1>5, <2>1, <2>2, Counts DEF IInv, SlotAccounting
<1>10. NoHandlerWaits'
  BY <1>1, <1>4, Zenon DEF IInv, NoHandlerWaits
<1>11. NoLostWakeup'
  <2>1. CASE At({"waiting"}) = {}
    <3>1. At({"waiting"})' = {}
      BY <1>1, <2>1, GotoMoves, Zenon DEF GotoAndNotifyOne, PC, IInv
    <3>. QED
      BY <3>1, Zenon DEF NoLostWakeup
  <2>2. CASE At({"waiting"}) # {}
    <3>1. \/ At({"waiting"})' = {}
          \/ Cardinality(At(W)') = Cardinality(At(W))
          \/ Cardinality(At(W)') = Cardinality(At(W)) + 1
      BY <1>1, NotifyMoves, Zenon DEF IInv
    <3>. QED
      BY <1>1, <2>2, <3>1, Counts DEF IInv, NoLostWakeup
  <2>. QED
    BY <2>1, <2>2, Zenon
<1>. QED
  BY <1>7, <1>8, <1>9, <1>10, <1>11, Zenon DEF IInv

\* create_slot() returns: a channel nobody owns gets an owner.
LEMMA CreateSlotInv ==
    ASSUME IInv, NEW h \in Handlers, CreateSlot(h)
    PROVE  IInv'
<1>1. PICK c \in Channels \ allocated : /\ allocated' = allocated \cup {c}
                                        /\ slot' = [slot EXCEPT ![h] = c]
  BY Zenon DEF CreateSlot
<1>2. /\ Goto(h, "holding")
      /\ pc[h] = "creating"
      /\ UNCHANGED <<pool_, total_slots_, lost, server>>
      /\ "holding" \in PC
  BY Zenon DEF CreateSlot, PC
<1>3. /\ pc' \in [Handlers -> PC]
      /\ pc'[h] = "holding"
      /\ \A g \in Handlers \ {h} : pc'[g] = pc[g]
  BY <1>2, GotoMoves, Zenon DEF IInv
<1>4. /\ slot' \in [Handlers -> Channels \cup {NoSlot}]
      /\ slot'[h] = c
      /\ \A g \in Handlers \ {h} : slot'[g] = slot[g]
  BY <1>1, Zenon DEF IInv, TypeOK
<1>5. server # "closed" /\ Free' = Free
  BY <1>2, Zenon DEF IInv, Conservation, Free
<1>6. Free \cup {slot[g] : g \in At({"holding"})} \cup lost \subseteq allocated
  BY <1>5, Zenon DEF IInv, Conservation, Owned
<1>7. TypeOK'
  BY <1>1, <1>2, <1>3, <1>4, Zenon DEF IInv, TypeOK
<1>8. SlotsExclusive'
  <2>1. c # NoSlot /\ c \notin Free \cup lost
    BY <1>6, PoolAssumption, Zenon
  <2>2. \A g \in Handlers : slot[g] # c
    BY <1>6, <2>1, Zenon DEF At, IInv, SlotsExclusive
  <2>3. \A g \in Handlers : slot'[g] # NoSlot <=> pc'[g] = "holding"
    BY <1>3, <1>4, <2>1, Zenon DEF IInv, SlotsExclusive
  <2>4. \A f, g \in Handlers : slot'[f] = slot'[g] /\ slot'[g] # NoSlot => f = g
    BY <1>4, <2>2 DEF IInv, SlotsExclusive
  <2>5. \A g \in Handlers : slot'[g] \notin Free' \cup lost'
    BY <1>2, <1>4, <1>5, <2>1, Zenon DEF IInv, SlotsExclusive
  <2>. QED
    BY <1>2, <1>5, <2>3, <2>4, <2>5, Zenon DEF IInv, SlotsExclusive
<1>9. Conservation'
  <2>1. {slot[g] : g \in At({"holding"})}' = {slot[g] : g \in At({"holding"})} \cup {c}
    BY <1>2, <1>3, <1>4, Zenon DEF At
  <2>2. Owned' = Owned \cup {c}
    BY <1>2, <1>5, <2>1, Zenon DEF Owned
  <2>. QED
    BY <1>1, <1>2, <1>5, <2>2, Zenon DEF IInv, Conservation
<1>10. At({"creating", "holding"})' = At({"creating", "holding"})
  BY <1>2, GotoMoves, Zenon DEF IInv
<1>11. At({"waiting"})' = At({"waiting"})
  BY <1>2, GotoMoves, Zenon DEF IInv
<1>12. At({"woken", "notify"})' = At({"woken", "notify"})
  BY <1>2, GotoMoves, Zenon DEF IInv
<1>13. At({"waiting", "woken"})' = At({"waiting", "woken"})
  BY <1>2, GotoMoves, Zenon DEF IInv
<1>14. SlotAccounting' /\ NoHandlerWaits' /\ NoLostWakeup'
  BY <1>2, <1>10, <1>11, <1>12, <1>13, Zenon DEF IInv, SlotAccounting, NoHandlerWaits, NoLostWakeup
<1>. QED
  BY <1>7, <1>8, <1>9, <1>14, Zenon DEF IInv

\* release_slot() pushes the slot back under the mutex.
LEMMA ReleaseInv ==
    ASSUME IInv, NEW h \in Handlers, Release(h)
    PROVE  IInv'
<1>. DEFINE c == slot[h]
<1>1. /\ Goto(h, "notify")
      /\ pc[h] = "holding"
      /\ pool_' = Append(pool_, c)
      /\ UNCHANGED <<total_slots_, allocated, lost, server>>
      /\ "notify" \in PC
  BY Zenon DEF Release, PC
<1>2. c \in Channels /\ c # NoSlot /\ c \notin Free \cup lost
  BY <1>1, Zenon DEF IInv, TypeOK, SlotsExclusive
<1>3. /\ pool_' \in Seq(Channels)
      /\ Len(pool_') = Len(pool_) + 1
      /\ Len(pool_) \in Nat
      /\ \A i \in 1..Len(pool_) : pool_'[i] = pool_[i]
      /\ pool_'[Len(pool_) + 1] = c
      /\ Free' = Free \cup {c}
  BY <1>1, <1>2, PushFree, Zenon DEF IInv
<1>4. /\ pc' \in [Handlers -> PC]
      /\ pc'[h] = "notify"
      /\ \A g \in Handlers \ {h} : pc'[g] = pc[g]
  BY <1>1, GotoMoves, Zenon DEF IInv
<1>5. /\ slot' \in [Handlers -> Channels \cup {NoSlot}]
      /\ slot'[h] = NoSlot
      /\ \A g \in Handlers \ {h} : slot'[g] = slot[g]
  BY Zenon DEF Release, IInv, TypeOK
<1>6. server # "closed"
  BY <1>1, Zenon DEF IInv, Conservation
<1>7. TypeOK'
  BY <1>1, <1>3, <1>4, <1>5, Zenon DEF IInv, TypeOK
<1>8. SlotsExclusive'
  <2>1. \A g \in Handlers : slot'[g] # NoSlot <=> pc'[g] = "holding"
    BY <1>4, <1>5, Zenon DEF IInv, SlotsExclusive
  <2>2. \A f, g \in Handlers : slot'[f] = slot'[g] /\ slot'[g] # NoSlot => f = g
    BY <1>5, Zenon DEF IInv, SlotsExclusive
  <2>3. \A i, j \in 1..Len(pool_') : pool_'[i] = pool_'[j] => i = j
    <3>1. \A i \in 1..Len(pool_) : pool_[i] # c
      BY <1>2, Zenon DEF Free
    <3>2. \A i \in 1..Len(pool_') : i \in 1..Len(pool_) \/ i = Len(pool_) + 1
      BY <1>3
    <3>3. \A i, j \in 1..Len(pool_) : pool_[i] = pool_[j] => i = j
      BY Zenon DEF IInv, SlotsExclusive
    <3>. QED
      BY <1>3, <3>1, <3>2, <3>3, Zenon
  <2>4. \A g \in Handlers : slot'[g] \notin Free' \cup lost'
    <3>1. NoSlot \notin Free' \cup lost'
      BY <1>1, <1>2, PoolAssumption, <1>3, ElementOfSeq DEF IInv, TypeOK, Free
    <3>2. \A g \in Handlers \ {h} : slot[g] # c
      BY <1>2, Zenon DEF IInv, SlotsExclusive
    <3>. QED
      BY <1>1, <1>3, <1>5, <3>1, <3>2 DEF IInv, SlotsExclusive
  <2>5. Free' \cap lost' = {}
    BY <1>1, <1>2, <1>3, Zenon DEF IInv, SlotsExclusive
  <2>. QED
    BY <2>1, <2>2, <2>3, <2>4, <2>5, Zenon DEF SlotsExclusive
<1>9. Conservation'
  <2>1. {slot[g] : g \in At({"holding"})} = {slot[g] : g \in At({"holding"})}' \cup {c}
    BY <1>1, <1>4, <1>5, Zenon DEF At
  <2>2. Owned' = Owned
    BY <1>1, <1>3, <2>1, Zenon DEF Owned
  <2>. QED
    BY <1>1, <1>6, <2>2, Zenon DEF IInv, Conservation
<1>10. Cardinality(At({"creating", "holding"})') = Cardinality(At({"creating", "holding"})) - 1
  BY <1>1, GotoMoves, Zenon DEF IInv
<1>11. At({"waiting"})' = At({"waiting"})
  BY <1>1, GotoMoves, Zenon DEF IInv
<1>12. Cardinality(At({"woken", "notify"})') = Cardinality(At({"woken", "notify"})) + 1
  BY <1>1, GotoMoves, Zenon DEF IInv
<1>13. At({"waiting", "woken"})' = At({"waiting", "woken"})
  BY <1>1, GotoMoves, Zenon DEF IInv
<1>14. SlotAccounting'
  BY <1>1, <1>3, <1>10, Counts DEF IInv, SlotAccounting
<1>15. NoHandlerWaits' /\ NoLostWakeup'
  BY <1>1, <1>3, <1>11, <1>12, <1>13, Counts DEF IInv, NoHandlerWaits, NoLostWakeup
<1>. QED
  BY <1>7, <1>8, <1>9, <1>14, <1>15, Zenon DEF IInv

\* handle_get unwinds without release_slot(): the slot stays counted and is lost.
LEMMA TransferThrowsInv ==
    ASSUME IInv, NEW h \in Handlers, TransferThrows(h)
    PROVE  IInv'
<1>. DEFINE c == slot[h]
<1>1. /\ Goto(h, "idle")
      /\ pc[h] = "holding"
      /\ lost' = lost \cup {c}
      /\ TransferMayThrow
      /\ UNCHANGED <<pool_, total_slots_, allocated, server>>
      /\ "idle" \in PC
  BY Zenon DEF TransferThrows, PC
<1>2. c \in Channels /\ c # NoSlot /\ c \notin Free \cup lost
  BY <1>1, Zenon DEF IInv, TypeOK, SlotsExclusive
<1>3. /\ pc' \in [Handlers -> PC]
      /\ pc'[h] = "idle"
      /\ \A g \in Handlers \ {h} : pc'[g] = pc[g]
  BY <1>1, GotoMoves, Zenon DEF IInv
<1>4. /\ slot' \in [Handlers -> Channels \cup {NoSlot}]
      /\ slot'[h] = NoSlot
      /\ \A g \in Handlers \ {h} : slot'[g] = slot[g]
  BY Zenon DEF TransferThrows, IInv, TypeOK
<1>5. server # "closed" /\ Free' = Free
  BY <1>1, Zenon DEF IInv, Conservation, Free
<1>6. TypeOK'
  BY <1>1, <1>2, <1>3, <1>4, Zenon DEF IInv, TypeOK
<1>7. SlotsExclusive'
  <2>1. \A g \in Handlers : slot'[g] # NoSlot <=> pc'[g] = "holding"
    BY <1>3, <1>4, Zenon DEF IInv, SlotsExclusive
  <2>2. \A f, g \in Handlers : slot'[f] = slot'[g] /\ slot'[g] # NoSlot => f = g
    BY <1>4, Zenon DEF IInv, SlotsExclusive
  <2>3. \A g \in Handlers : slot'[g] \notin Free' \cup lost'
    <3>1. NoSlot \notin Free
      BY PoolAssumption, ElementOfSeq DEF IInv, TypeOK, Free
    <3>2. NoSlot \notin lost'
      BY <1>1, <1>2, PoolAssumption, Zenon DEF IInv, TypeOK
    <3>3. \A g \in Handlers \ {h} : slot[g] # c
      BY <1>2, Zenon DEF IInv, SlotsExclusive
    <3>. QED
      BY <1>1, <1>4, <1>5, <3>1, <3>2, <3>3, Zenon DEF IInv, SlotsExclusive
  <2>4. Free' \cap lost' = {}
    BY <1>1, <1>2, <1>5, Zenon DEF IInv, SlotsExclusive
  <2>. QED
    BY <1>1, <2>1, <2>2, <2>3, <2>4, Zenon DEF IInv, SlotsExclusive
<1>8. IsFiniteSet(lost') /\ Cardinality(lost') = Cardinality(lost) + 1
  BY <1>1, <1>2, FS_AddElement, Zenon DEF IInv, Conservation
<1>9. Conservation'
  <2>1. {slot[g] : g \in At({"holding"})} = {slot[g] : g \in At({"holding"})}' \cup {c}
    BY <1>1, <1>3, <1>4, Zenon DEF At
  <2>2. Owned' = Owned
    BY <1>1, <1>5, <2>1, Zenon DEF Owned
  <2>. QED
    BY <1>1, <1>5, <1>8, <2>2, Zenon DEF IInv, Conservation
<1>10. Cardinality(At({"creating", "holding"})') = Cardinality(At({"creating", "holding"})) - 1
  BY <1>1, GotoMoves, Zenon DEF IInv
<1>11. At({"waiting"})' = At({"waiting"})
  BY <1>1, GotoMoves, Zenon DEF IInv
<1>12. At({"woken", "notify"})' = At({"woken", "notify"})
  BY <1>1, GotoMoves, Zenon DEF IInv
<1>13. SlotAccounting'
  BY <1>1, <1>8, <1>10, Counts DEF IInv, SlotAccounting
<1>14. NoHandlerWaits'
  BY <1>1, Zenon DEF NoHandlerWaits
<1>15. NoLostWakeup'
  BY <1>1, <1>11, <1>12, Zenon DEF IInv, NoLostWakeup
<1>. QED
  BY <1>6, <1>7, <1>9, <1>13, <1>14, <1>15, Zenon DEF IInv

\* The end of the server.
LEMMA ShutdownInv ==
    ASSUME IInv, Stop \/ Destroy
    PROVE  IInv'
<1>1. CASE Stop
  <2>1. server # "closed" /\ server' # "closed" /\ UNCHANGED <<pc, slot, pool_, total_slots_, allocated, lost>>
    BY <1>1, Zenon DEF Stop
  <2>2. Free' = Free /\ \A S \in {{"holding"}, {"creating", "holding"}, {"waiting"}, {"woken", "notify"}, {"waiting", "woken"}} : At(S)' = At(S)
    BY <2>1, Zenon DEF Free, At
  <2>3. {slot[g] : g \in At({"holding"})}' = {slot[g] : g \in At({"holding"})}
    BY <2>1, <2>2, Zenon
  <2>4. TypeOK' /\ SlotsExclusive'
    BY <1>1, <2>1, <2>2, Zenon DEF Stop, IInv, TypeOK, SlotsExclusive
  <2>5. Conservation'
    BY <2>1, <2>2, <2>3, Zenon DEF IInv, Conservation, Owned
  <2>6. SlotAccounting' /\ NoHandlerWaits' /\ NoLostWakeup'
    BY <2>1, <2>2, Zenon DEF IInv, SlotAccounting, NoHandlerWaits, NoLostWakeup
  <2>. QED
    BY <2>4, <2>5, <2>6, Zenon DEF IInv
<1>2. CASE Destroy
  <2>1. /\ server = "stopping" /\ server' = "closed"
        /\ \A h \in Handlers : pc[h] = "idle"
        /\ allocated' = allocated \ Free
        /\ pool_' = <<>>
        /\ UNCHANGED <<pc, slot, total_slots_, lost>>
    BY <1>2, Zenon DEF Destroy
  <2>2. Len(pool_') = 0 /\ Free' = {} /\ At({"holding"}) = {} /\ At({"waiting"})' = {} /\ At({"waiting", "woken"})' = {}
    BY <2>1 DEF Free, At
  <2>3. "buffer" \notin CreateThrowsAt => allocated = Free \cup lost
    BY <2>1, <2>2, Zenon DEF IInv, Conservation, Owned
  <2>4. "buffer" \notin CreateThrowsAt => allocated' = lost'
    BY <2>1, <2>3, Zenon DEF IInv, SlotsExclusive
  <2>5. TypeOK'
    BY <2>1, EmptySeq, Zenon DEF IInv, TypeOK
  <2>6. SlotsExclusive'
    BY <2>1, <2>2 DEF IInv, SlotsExclusive
  <2>7. Conservation'
    BY <2>1, <2>4, Zenon DEF IInv, Conservation
  <2>8. SlotAccounting' /\ NoHandlerWaits' /\ NoLostWakeup'
    BY <2>1, <2>2, Zenon DEF SlotAccounting, NoHandlerWaits, NoLostWakeup
  <2>. QED
    BY <2>5, <2>6, <2>7, <2>8, Zenon DEF IInv
<1>. QED
  BY <1>1, <1>2, Zenon

\* The empty pool satisfies the invariant.
LEMMA InitInv == Init => IInv
<1>1. SUFFICES ASSUME Init PROVE IInv
  BY Zenon
<1>2. Len(pool_) = 0 /\ Free = {}
  BY <1>1 DEF Init, Free
<1>3. \A S \in {{"holding"}, {"creating", "holding"}, {"waiting"}, {"waiting", "woken"}} : At(S) = {}
  BY <1>1, Zenon DEF Init, At
<1>4. TypeOK
  BY <1>1, EmptySeq, Zenon DEF Init, TypeOK, PC
<1>5. SlotsExclusive
  BY <1>1, <1>2 DEF Init, SlotsExclusive
<1>6. IsFiniteSet(lost) /\ Cardinality(lost) = 0 /\ Cardinality({}) = 0
  BY <1>1, FS_EmptySet, Zenon DEF Init
<1>7. Conservation
  BY <1>1, <1>2, <1>3, <1>6, Zenon DEF Init, Conservation, Owned
<1>8. SlotAccounting
  <2>1. Cardinality(At({"creating", "holding"})) = 0
    BY <1>3, <1>6, Zenon
  <2>. QED
    BY <1>1, <1>2, <1>6, <2>1, PoolAssumption DEF Init, SlotAccounting
<1>9. NoHandlerWaits /\ NoLostWakeup
  BY <1>3, Zenon DEF NoHandlerWaits, NoLostWakeup
<1>. QED
  BY <1>4, <1>5, <1>7, <1>8, <1>9, Zenon DEF IInv

\* Every step of the pool keeps the invariant.
LEMMA NextInv == IInv /\ [Next]_vars => IInv'
<1>1. SUFFICES ASSUME IInv, [Next]_vars PROVE IInv'
  BY Zenon
<1>2. CASE UNCHANGED vars
  <2>1. UNCHANGED <<pc, slot, pool_, total_slots_, allocated, lost, server>>
    BY <1>2, Zenon DEF vars
  <2>2. Owned' = Owned /\ Free' = Free /\ \A S : At(S)' = At(S)
    BY <2>1, Zenon DEF Owned, Free, At
  <2>3. TypeOK' /\ SlotsExclusive'
    BY <1>1, <2>1, <2>2, Zenon DEF IInv, TypeOK, SlotsExclusive
  <2>4. Conservation' /\ SlotAccounting'
    BY <1>1, <2>1, <2>2, Zenon DEF IInv, Conservation, SlotAccounting
  <2>5. NoHandlerWaits' /\ NoLostWakeup'
    BY <1>1, <2>1, <2>2, Zenon DEF IInv, NoHandlerWaits, NoLostWakeup
  <2> QED
    BY <2>3, <2>4, <2>5, Zenon DEF IInv
<1>3. CASE Stop \/ Destroy
  BY <1>1, <1>3, ShutdownInv, Zenon
<1>4. ASSUME NEW h \in Handlers,
             \/ Receive(h) \/ EarlyReturn(h) \/ Begin(h)
             \/ AcquireGrow(h) \/ AcquireWait(h) \/ SpuriousWakeup(h) \/ WaitAgain(h)
      PROVE  IInv'
  BY <1>1, <1>4, GotoInv, Zenon
<1>5. ASSUME NEW h \in Handlers, AcquireReuse(h) \/ WaitTake(h)
      PROVE  IInv'
  BY <1>1, <1>5, PopSlotInv, Zenon DEF AcquireReuse, WaitTake
<1>6. ASSUME NEW h \in Handlers, CreateSlot(h)
      PROVE  IInv'
  BY <1>1, <1>6, CreateSlotInv, Zenon
<1>7. ASSUME NEW h \in Handlers, CreateThrows(h) \/ Notify(h)
      PROVE  IInv'
  BY <1>1, <1>7, NotifyInv, Zenon
<1>8. ASSUME NEW h \in Handlers, Release(h)
      PROVE  IInv'
  BY <1>1, <1>8, ReleaseInv, Zenon
<1>9. ASSUME NEW h \in Handlers, TransferThrows(h)
      PROVE  IInv'
  BY <1>1, <1>9, TransferThrowsInv, Zenon
<1>. QED
  BY <1>1, <1>2, <1>3, <1>4, <1>5, <1>6, <1>7, <1>8, <1>9, Zenon DEF Next, AcquireSlot, ReleaseSlot

-----------------------------------------------------------------------------
(* Theorems. *)

\* The invariant holds in every reachable state of the pool, whatever the number
\* of workers, the limit, the channels and the calls that throw.
THEOREM Invariance == Spec => []IInv
BY InitInv, NextInv, PTL DEF Spec

\* The pool's state is well typed; the unsigned total_slots_ is never decremented
\* below zero by the catch block of acquire_slot().
THEOREM TypeCorrect == Spec => []TypeOK
<1>1. IInv => TypeOK
  BY Zenon DEF IInv
<1>. QED
  BY <1>1, Invariance, PTL

\* No two GETs ever hold the same RdmaSlot, and no slot is both free and held.
THEOREM Exclusion == Spec => []SlotsExclusive
<1>1. IInv => SlotsExclusive
  BY Zenon DEF IInv
<1>. QED
  BY <1>1, Invariance, PTL

\* total_slots_ is exactly the number of slots that exist or are being built and
\* never exceeds max_concurrency.
THEOREM Accounting == Spec => []SlotAccounting
<1>1. IInv => SlotAccounting
  BY Zenon DEF IInv
<1>. QED
  BY <1>1, Invariance, PTL

\* With the thread pool of run() nobody ever sleeps in acquire_slot() unless a
\* slot has been lost.
THEOREM WaitUnreachable == Spec => []NoHandlerWaits
<1>1. IInv => NoHandlerWaits
  BY Zenon DEF IInv
<1>. QED
  BY <1>1, Invariance, PTL

\* Whenever a handler sleeps on pool_cv_, every free slot is already promised to
\* a woken handler or to a pending notify_one.
THEOREM WakeupsSuffice == Spec => []NoLostWakeup
<1>1. IInv => NoLostWakeup
  BY Zenon DEF IInv
<1>. QED
  BY <1>1, Invariance, PTL

\* If nothing throws between acquire_slot() and release_slot(), nor in
\* create_slot() after allocateChannelId(), every channel in use is free or held
\* by a running GET.
THEOREM NoSlotLeaks ==
    ASSUME ~TransferMayThrow, "buffer" \notin CreateThrowsAt
    PROVE  Spec => []EverySlotReleased
<1>1. IInv => EverySlotReleased
  BY Zenon DEF IInv, Conservation, Owned, EverySlotReleased
<1>. QED
  BY <1>1, Invariance, PTL

\* Under the same assumption the destructor returns every channel to cuObjServer.
THEOREM DestructorFreesAll ==
    ASSUME ~TransferMayThrow, "buffer" \notin CreateThrowsAt
    PROVE  Spec => []AllChannelsFreed
<1>1. IInv => AllChannelsFreed
  BY Zenon DEF IInv, Conservation, AllChannelsFreed
<1>. QED
  BY <1>1, Invariance, PTL
=============================================================================
