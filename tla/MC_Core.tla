------------------------------- MODULE MC_Core -------------------------------
(* Small instances of the rings, the lock-free queue and the traffic manager with *)
(* its timer wheel, for safety.  which chooses the instance a behaviour is about. *)
(* The variables of RingMpmc stay in their initial state in the other instances,  *)
(* which share those that have the same name; a variable none of them has is 0.   *)
EXTENDS RingMpmc, TLC

CONSTANTS Tokens,
          Others,       \* threads that dequeue
          q1, q2, q3, node1, node2, root, None

VARIABLES which, tm, enq, done, taken, got,
          input, tm_pc,
          w, left, due,
          bar, first_enq, running, destroying, ring, head, tail, cnt, depth, request,
          serving, req, appended,
          node, enqCounter, deq, before, missed,
          rst_w_head, rst_w_tail, rst_r_head, rst_r_tail, rst_data,
          rst_pc, rst_op, rst_num, rst_head, rst_buf, rst_own

\* One token less than slots, as the restricted use of the ring asks for
Rst == INSTANCE RingMpmcRst WITH
    Size <- 4, CounterMod <- 8, Start <- 6,
    w_head <- rst_w_head, w_tail <- rst_w_tail, r_head <- rst_r_head, r_tail <- rst_r_tail,
    data <- rst_data, pc <- rst_pc, op <- rst_op, num <- rst_num, head <- rst_head,
    buf <- rst_buf, own <- rst_own

\* q1 and q2 feed node1; node1 and q3 feed node2, which feeds the root.  One queue and
\* both nodes have shapers.
Above == q1 :> node1 @@ q2 :> node1 @@ q3 :> node2 @@ node1 :> node2 @@ node2 :> root
Prio == q1 :> 0 @@ q2 :> 1 @@ q3 :> 0
Tree == INSTANCE TmTree WITH
    Queues <- {q1, q2, q3}, Nodes <- {node1, node2}, Root <- root, NumPrio <- 2,
    NextNode <- Above, Priority <- Prio, Shaped <- {node1, node2, q3}, Lens <- {1, 3},
    MaxPkts <- 3, EpochMod <- 2, pc <- tm_pc

\* One thread that enqueues and one that changes a profile
Input == INSTANCE TmInput WITH
    Enqueuers <- {"enq"}, Requesters <- {"req"}, RingSize <- 2, MaxEnq <- 4, MaxReq <- 2

\* Three wheels; a list of a general slot has two blocks, one of the current wheel a single
\* one.  The low half of the ticks wraps at 32.
Wheel == INSTANCE TimerWheel WITH
    Timers <- Tokens, NumSlots <- [l \in 0..2 |-> 4], Gear <- 2, CurBlk <- 3, GenBlk <- 2,
    RingEntries <- 2, InitBlks <- 2, GrowBlks <- 1, NumBlks <- 4, MaxStep <- 2, WakeMod <- 32,
    Starts <- {25}, Rels <- {1, 5, 9}, MaxTicks <- 38

Lf == INSTANCE QueueLf WITH
    Enqueuers <- Threads, Dequeuers <- Others, RingSize <- 3, EnqRetries <- 2,
    DeqRetries <- 2, MaxEnq <- 3

NoTree == input = 0 /\ tm_pc = 0
NoWheel == w = 0 /\ left = 0 /\ due = 0
NoInput == /\ bar = 0 /\ first_enq = 0 /\ running = 0 /\ destroying = 0 /\ ring = 0
           /\ head = 0 /\ tail = 0 /\ cnt = 0 /\ depth = 0 /\ request = 0 /\ serving = 0
           /\ req = 0 /\ appended = 0
NoLf == node = 0 /\ enqCounter = 0 /\ deq = 0 /\ before = 0 /\ missed = 0
NoTaken == enq = 0 /\ done = 0 /\ taken = 0

NoRst == /\ rst_w_head = 0 /\ rst_w_tail = 0 /\ rst_r_head = 0 /\ rst_r_tail = 0
         /\ rst_data = 0 /\ rst_pc = 0 /\ rst_op = 0 /\ rst_num = 0 /\ rst_head = 0
         /\ rst_buf = 0 /\ rst_own = 0
NoMpmc == Init /\ ring_data = [s \in 0..Size - 1 |-> CHOOSE d \in Data : TRUE]
NoRings == NoMpmc /\ NoRst

CoreInit ==
    \/ /\ which = "mpmc" /\ Init /\ NoRst /\ NoTree /\ NoWheel /\ NoInput /\ NoLf /\ NoTaken
       /\ tm = 0 /\ got = 0
    \/ /\ which = "rst" /\ Rst!Init /\ NoMpmc /\ NoTree /\ NoWheel /\ NoInput /\ NoLf /\ NoTaken
       /\ tm = 0 /\ got = 0
    \/ which = "tree" /\ NoRings /\ Tree!Init /\ NoWheel /\ NoInput /\ NoLf /\ NoTaken
    \/ /\ which = "wheel" /\ NoRings /\ Wheel!Init /\ NoTree /\ NoInput /\ NoLf /\ NoTaken
       /\ tm = 0
    \/ which = "input" /\ NoRings /\ Input!Init /\ NoTree /\ NoWheel /\ NoLf /\ got = 0
    \/ /\ which = "lf" /\ NoRings /\ Lf!Init /\ NoTree /\ NoWheel /\ NoInput
       /\ tm = 0 /\ got = 0

tree_vars == <<input, tm_pc>>
wheel_vars == <<w, left, due>>
input_vars == <<bar, first_enq, running, destroying, ring, head, tail, cnt, depth, request,
                serving, req, appended>>
lf_vars == <<node, enqCounter, deq, before, missed>>
taken_vars == <<enq, done, taken>>
rst_vars == <<rst_w_head, rst_w_tail, rst_r_head, rst_r_tail, rst_data,
              rst_pc, rst_op, rst_num, rst_head, rst_buf, rst_own>>
ring_vars == <<vars, rst_vars>>

CoreNext ==
    \/ /\ which = "mpmc" /\ Next
       /\ UNCHANGED <<which, rst_vars, tm, got, tree_vars, wheel_vars, input_vars, lf_vars,
                      taken_vars>>
    \/ /\ which = "rst" /\ Rst!Next
       /\ UNCHANGED <<which, vars, tm, got, tree_vars, wheel_vars, input_vars, lf_vars,
                      taken_vars>>
    \/ /\ which = "tree" /\ Tree!Next
       /\ UNCHANGED <<which, ring_vars, wheel_vars, input_vars, lf_vars, taken_vars>>
    \/ /\ which = "wheel" /\ Wheel!Next
       /\ UNCHANGED <<which, ring_vars, tm, tree_vars, input_vars, lf_vars, taken_vars>>
    \/ /\ which = "input" /\ Input!Next
       /\ UNCHANGED <<which, ring_vars, got, tree_vars, wheel_vars, lf_vars>>
    \/ /\ which = "lf" /\ Lf!Next
       /\ UNCHANGED <<which, ring_vars, tm, got, tree_vars, wheel_vars, input_vars>>

CoreSpec ==
    CoreInit /\ [][CoreNext]_<<which, ring_vars, tm, got, tree_vars, wheel_vars, input_vars,
                              lf_vars, taken_vars>>

Symmetry == Permutations(Threads) \cup Permutations(Others) \cup Permutations(Data)
            \cup Permutations(Tokens)
-----------------------------------------------------------------------------
(* The properties of RingMpmc, and those of the other instances *)

\* The rings keep the types of their state
TypesOK == /\ which = "mpmc" => TypeOK
           /\ which = "rst" => Rst!TypeOK

-----------------------------------------------------------------------------
(* Traffic manager *)


\* No shaper, scheduler or list keeps the descriptor of a packet that has left, and the
\* output of a scheduler is its best input
TreeExact == which = "tree" => Tree!NoStaleDesc /\ Tree!SchedulerExact


\* A timer expires when it is due, or later by as much as its wheel is coarse
Punctual == which = "wheel" => Wheel!Punctual

\* While a thread changes a profile the main loop does not touch the tree
RequestExclusive == which = "input" => Input!RequestExclusive
-----------------------------------------------------------------------------
(* Lock-free queue *)

\* An event whose enqueue succeeded is in one node until it is dequeued, events leave in the
\* order of their enqueues, and a dequeue without an event had a reason
LfFifo == which = "lf" => Lf!NothingLost /\ Lf!FifoKept /\ Lf!NullJustified
=============================================================================
