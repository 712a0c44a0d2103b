----------------------------- MODULE TimerWheel -----------------------------
(* The timer wheel of the traffic manager, odp_timer_wheel.c.  A wheel of  *)
(* one slot per tick, and above it wheels with longer slots whose timers   *)
(* are promoted to the wheel below when their slot comes up.  A slot holds *)
(* nothing, one timer or a list of blocks of timers.  What expires is      *)
(* appended to a ring, from which the traffic manager takes two timers in  *)
(* each turn of its loop.                                                  *)
(* Time is in ticks; a ring index is a position of a sequence; a block     *)
(* list is kept as links, as its blocks go back to a free list.            *)
EXTENDS Integers, Sequences, FiniteSets, SequencesExt

CONSTANTS Timers,       \* user contexts; each is inserted once
          NumSlots,     \* slots of the wheels 0, 1, ...
          Gear,         \* gear ratio: updates of the next wheel in a revolution
          CurBlk,       \* timers in a block of the current wheel
          GenBlk,       \* timers in a block of the other wheels
          RingEntries,  \* entries of the ring of expired timers
          InitBlks,     \* blocks allocated at first,
          GrowBlks,     \* and when they run out,
          NumBlks,      \* until malloc fails
          MaxStep,      \* ticks an update advances at most
          WakeMod,      \* 2^32: general slots keep so much of the wakeup time
          Starts,       \* ticks at which the wheels are started
          Rels,         \* distances of the timers in ticks
          MaxTicks,     \* bound: length of the run in ticks
          None

VARIABLES w,        \* the wheels
          left,     \* timers the loop of the traffic manager may still take
          due,      \* history: what was asked for a timer not yet returned
          got       \* history: how often each timer was returned

vars == <<w, left, due, got>>

Levels == DOMAIN NumSlots
Blocks == 1..NumBlks
EmptySlot == [one |-> None, list |-> 0]
-----------------------------------------------------------------------------
(* Shape of the wheels *)

TicksPerSlot[l \in Levels] ==
    IF l = 0 THEN 1 ELSE (NumSlots[l - 1] * TicksPerSlot[l - 1]) \div Gear
TicksPerRev(l) == NumSlots[l] * TicksPerSlot[l]

\* (slot_idx & gear_mask) == 0: the next wheel is due
AtGear(s, l) == s.idx[l] % (NumSlots[l] \div Gear) = 0

\* slot_idx and max_ticks after a slot has been served
Advance(s, l) ==
    IF s.idx[l] + 1 >= NumSlots[l]
    THEN [s EXCEPT !.idx[l] = 0, !.max[l] = TicksPerRev(l)]
    ELSE [s EXCEPT !.idx[l] = @ + 1, !.max[l] = @ + 1]
-----------------------------------------------------------------------------
(* Blocks *)

\* free_list_add: n new blocks in front of the free list
FreeListAdd(s, n) ==
    LET new == s.heap + 1..s.heap + n
    IN  [s EXCEPT !.blk = [b \in Blocks |->
                              IF b \notin new THEN @[b]
                              ELSE [next |-> IF b = s.heap + n THEN s.free ELSE b + 1,
                                    data |-> <<>>]],
                  !.free = s.heap + 1, !.nfree = @ + n, !.heap = @ + n]

\* timer_blk_alloc; the block is 0 if malloc fails
BlkAlloc(s) ==
    LET low == s.nfree <= 1
        t == IF low THEN FreeListAdd(s, GrowBlks) ELSE s
    IN  IF low /\ s.heap + GrowBlks > NumBlks THEN [s |-> s, b |-> 0]
        ELSE [s |-> [t EXCEPT !.free = t.blk[t.free].next, !.nfree = @ - 1,
                              !.blk[t.free] = [next |-> 0, data |-> <<>>]],
              b |-> t.free]

\* timer_blk_free: the contents stay
BlkFree(s, b) == [s EXCEPT !.blk[b].next = s.free, !.free = b, !.nfree = @ + 1]


\* The three cases of current_wheel_insert and general_wheel_insert.  A timer that found no
\* block is counted in failed.
SlotInsert(s, l, i, e) ==
    LET x == s.slot[l][i]
        room == Len(s.blk[x.list].data) < (IF l = 0 THEN CurBlk ELSE GenBlk)
        a == BlkAlloc(s)
        first == IF x.one # None THEN <<x.one, e>> ELSE <<e>>
    IN  IF x = EmptySlot THEN [s EXCEPT !.slot[l][i].one = e]
        ELSE IF x.one = None /\ room THEN [s EXCEPT !.blk[x.list].data = Append(@, e)]
        ELSE IF a.b = 0 THEN [a.s EXCEPT !.failed = @ \cup {e.ctx}]
        ELSE [a.s EXCEPT !.blk[a.b] = [next |-> x.list, data |-> first],
                         !.slot[l][i] = [one |-> None, list |-> a.b]]

\* _odp_int_timer_wheel_promote, and the choice of the slot in an insert
WheelInsert(s, l, wake, t) ==
    LET i == (s.idx[l] + (wake - s.ticks) \div TicksPerSlot[l]) % NumSlots[l]
    IN  SlotInsert(s, l, i, [ctx |-> t, wake32 |-> IF l = 0 THEN 0 ELSE wake % WakeMod])
-----------------------------------------------------------------------------
(* Expiry *)

\* expired_timers_append.  The slot is cleared even if the ring is full.
ExpiredAppend(s, x) ==
    IF Len(s.ring) < RingEntries - 1 THEN [s EXCEPT !.ring = Append(@, x)]
    ELSE [s EXCEPT !.dropped = Append(@, x)]

\* Faulty: the return code is that of the last tick of an update
CurrentTick_LastCarry(s) ==
    LET x == s.slot[0][s.idx[0]]
        t == IF x = EmptySlot THEN s ELSE ExpiredAppend(s, x)
    IN  Advance([t EXCEPT !.carry = AtGear(s, 0), !.ticks = @ + 1,
                          !.slot[0][s.idx[0]] = EmptySlot], 0)

\* One turn of the loop of timer_current_wheel_update; carry is its return code
CurrentTick(s) ==
    LET x == s.slot[0][s.idx[0]]
        t == IF x = EmptySlot THEN s ELSE ExpiredAppend(s, x)
    IN  Advance([t EXCEPT !.carry = @ \/ AtGear(s, 0), !.ticks = @ + 1,
                          !.slot[0][s.idx[0]] = EmptySlot], 0)

\* The wakeup time of an entry of a general slot: the high half is that of the current time,
\* or the next one; a time that has passed becomes the next tick
WakeTicks(s, e) ==
    LET wake == s.ticks - (s.ticks % WakeMod) + e.wake32
    IN  IF wake > s.ticks THEN wake
        ELSE IF s.ticks - wake <= WakeMod \div 2 THEN s.ticks + 1
        ELSE wake + WakeMod

\* timer_wheel_slot_promote, to wheel l
RECURSIVE PromoteList(_, _, _)
PromoteEntries(s, l, es) ==
    FoldLeft(LAMBDA t, e : WheelInsert(t, l, WakeTicks(s, e), e.ctx), s, es)
PromoteList(s, l, b) ==
    IF b = 0 THEN s
    ELSE PromoteList(BlkFree(PromoteEntries(s, l, s.blk[b].data), b), l, s.blk[b].next)
SlotPromote(s, l, x) ==
    IF x.one # None THEN PromoteEntries(s, l, <<x.one>>) ELSE PromoteList(s, l, x.list)

\* timer_general_wheel_update
GeneralUpdate(s, l) ==
    LET x == s.slot[l][s.idx[l]]
        t == IF x = EmptySlot THEN s ELSE SlotPromote(s, l - 1, x)
    IN  Advance([t EXCEPT !.carry = AtGear(s, l), !.slot[l][s.idx[l]] = EmptySlot], l)

\* timer_blk_list_search: the next timer of a list, or None; empty blocks are freed on the way
RECURSIVE ListSearch(_, _)
ListSearch(s, b) ==
    IF b = 0 THEN [s |-> s, ctx |-> None]
    ELSE IF s.blk[b].data # <<>>
    THEN [s |-> [s EXCEPT !.blk[b].data = Tail(@)], ctx |-> Head(s.blk[b].data).ctx]
    ELSE ListSearch(BlkFree(s, b), s.blk[b].next)

\* One turn of the loop of expired_timers_remove: a list stays in the ring until a search
\* finds it empty
ExpiredTurn(s) ==
    LET x == Head(s.ring)
        popped == [s EXCEPT !.ring = Tail(@)]
        r == ListSearch(s, x.list)
    IN  IF s.ring = <<>> THEN [s |-> s, ctx |-> None]
        ELSE IF x.one # None THEN [s |-> popped, ctx |-> x.one.ctx]
        ELSE IF r.ctx # None THEN r
        ELSE [s |-> [r.s EXCEPT !.ring = Tail(@)], ctx |-> None]
ExpiredRemove(s) == LET r == ExpiredTurn(s) IN IF r.ctx # None THEN r ELSE ExpiredTurn(r.s)
-----------------------------------------------------------------------------
(* Operations *)

\* _odp_timer_wheel_create and _odp_timer_wheel_start
Created == [ticks |-> 0, idx |-> [l \in Levels |-> 0], max |-> [l \in Levels |-> 0],
            slot |-> [l \in Levels |-> [i \in 0..NumSlots[l] - 1 |-> EmptySlot]],
            ring |-> <<>>, dropped |-> <<>>, failed |-> {}, carry |-> FALSE,
            blk |-> [b \in Blocks |-> [next |-> 0, data |-> <<>>]],
            free |-> 0, nfree |-> 0, heap |-> 0]
Started(s, now) ==
    LET i == [l \in Levels |-> (now \div TicksPerSlot[l]) % NumSlots[l]]
    IN  [s EXCEPT !.ticks = now, !.idx = i, !.max = [l \in Levels |-> i[l] + TicksPerRev(l)]]

Init ==
    /\ \E now \in Starts : w = Started(FreeListAdd(Created, InitBlks), now)
    /\ left = 0
    /\ due = [t \in Timers |-> None]
    /\ got = [t \in Timers |-> 0]

\* The timers of a slot or of an entry of the ring, for the history
RECURSIVE Listed(_, _)
Listed(s, b) == IF b = 0 THEN <<>> ELSE s.blk[b].data \o Listed(s, s.blk[b].next)
Held(s, x) ==
    LET es == IF x.one # None THEN <<x.one>> ELSE Listed(s, x.list)
    IN  {es[i].ctx : i \in DOMAIN es}

\* _odp_timer_wheel_curr_time_update, elapsed ticks after the last time.  The traffic manager
\* then takes two timers if there are any.
RECURSIVE TickTo(_, _), UpdateFrom(_, _)
TickTo(s, n) == IF n = 0 THEN s ELSE TickTo(CurrentTick(s), n - 1)
UpdateFrom(s, l) == IF s.carry /\ l \in Levels THEN UpdateFrom(GeneralUpdate(s, l), l + 1) ELSE s
Update(n) == UpdateFrom(TickTo([w EXCEPT !.carry = FALSE], n), 1)
CurrTimeUpdate(elapsed) ==
    LET n == IF elapsed < MaxStep THEN elapsed ELSE MaxStep
        served(t) == {k \in 0..n - 1 :
                          t \in Held(w, w.slot[0][(w.idx[0] + k) % NumSlots[0]])}
    IN  /\ left = 0 /\ w.ticks + n <= MaxTicks
        /\ w' = Update(n)
        /\ left' = IF w'.ring # <<>> THEN 2 ELSE 0
        /\ due' = [t \in Timers |-> IF served(t) = {} THEN due[t]
                                     ELSE [due[t] EXCEPT !.at = w.ticks + Min(served(t))]]
        /\ UNCHANGED got

\* _odp_timer_wheel_insert of a timer rel ticks ahead: the first wheel it is in reach of.  The
\* test of wakeup_time against current_ticks never fails, as the time is 1024 times larger.
Insert(t, rel) ==
    LET reach == {l \in Levels : rel < w.max[l]}
        l == Min(reach)
        refused == t \in w'.failed
    IN  /\ due[t] = None /\ got[t] = 0 /\ t \notin w.failed
        /\ reach # {}
        /\ w' = WheelInsert(w, l, w.ticks + rel, t)
        /\ due' = IF refused THEN due
                  ELSE [due EXCEPT ![t] = [wake |-> w.ticks + rel, wheel |-> l,
                                           inRev |-> rel < TicksPerRev(l), at |-> None]]
        /\ UNCHANGED <<left, got>>

\* _odp_timer_wheel_next_expired
Return(r) ==
    /\ left' = IF r.ctx = None THEN 0 ELSE left - 1
    /\ w' = r.s
    /\ got' = IF r.ctx = None THEN got ELSE [got EXCEPT ![r.ctx] = @ + 1]
    /\ due' = IF r.ctx = None THEN due ELSE [due EXCEPT ![r.ctx] = None]
NextExpired == left > 0 /\ Return(ExpiredRemove(w))

Next ==
    \/ \E elapsed \in 1..MaxStep : CurrTimeUpdate(elapsed)
    \/ \E t \in Timers, rel \in Rels : Insert(t, rel)
    \/ NextExpired

Spec == Init /\ [][Next]_vars
-----------------------------------------------------------------------------
(* Properties *)

\* The blocks of a list
RECURSIVE Chain(_, _)
Chain(b, n) == IF b = 0 \/ n = 0 THEN <<>> ELSE <<b>> \o Chain(w.blk[b].next, n - 1)

Positions == {<<l, i>> \in Levels \X (0..MaxTicks) : i < NumSlots[l]}
SlotAt(p) == w.slot[p[1]][p[2]]
Lists == {SlotAt(p).list : p \in Positions} \cup {w.ring[i].list : i \in DOMAIN w.ring}
         \cup {w.dropped[i].list : i \in DOMAIN w.dropped}

\* Every timer that was accepted is in one slot, in one entry of the ring, or was returned
\* once, unless it is one the counters of full rings and failed promotions stand for:
\* promotion through the wheels, the conversion of a slot to a list and the removal from a
\* list neither lose nor duplicate a timer
TimersAccounted ==
    \A t \in Timers :
        Cardinality({p \in Positions : t \in Held(w, SlotAt(p))})
        + Cardinality({i \in DOMAIN w.ring : t \in Held(w, w.ring[i])})
        + Cardinality({i \in DOMAIN w.dropped : t \in Held(w, w.dropped[i])})
        + Cardinality(w.failed \cap {t}) + got[t]
        = IF due[t] # None \/ t \in w.failed \/ got[t] > 0 THEN 1 ELSE 0

\* The free list is as long as its size says and shares no block with a list in use, and no
\* two lists share one; every block is in one of them
BlocksExact ==
    LET free == Chain(w.free, NumBlks + 1)
        used == [b \in Lists |-> ToSet(Chain(b, NumBlks + 1))]
    IN  /\ Len(free) = w.nfree /\ Cardinality(ToSet(free)) = w.nfree
        /\ ToSet(free) \cup UNION {used[b] : b \in Lists} = 1..w.heap
        /\ \A b \in Lists : used[b] \cap ToSet(free) = {}
        /\ \A b, c \in Lists : b # c => used[b] \cap used[c] = {}

\* A timer less than a revolution of its wheel ahead is not found expired before its tick, and
\* not later than the slots it passed through are long; one of the current wheel is exact
Late(l) == IF l = 0 THEN 0 ELSE 2 * TicksPerSlot[l]
Punctual ==
    \A t \in Timers :
        due[t] # None /\ due[t].inRev /\ t \notin w.failed =>
            IF due[t].at = None THEN w.ticks <= due[t].wake + Late(due[t].wheel)
            ELSE due[t].at - due[t].wake \in 0..Late(due[t].wheel)
=============================================================================
