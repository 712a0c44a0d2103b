-------------------------------- MODULE Ipv4Id --------------------------------
(***************************************************************************)
(* IPv4 identifiers of outbound tunnels: _odp_ipsec_sa_alloc_ipv4_id and   *)
(* the ring of identifier blocks of platform/linux-generic/odp_ipsec_sad.c.*)
(*                                                                         *)
(* A thread numbers its packets from a block of its own, and exchanges it  *)
(* through a ring when it is used up.  A ring operation is one step (module*)
(* RingMpmc); its slots are chosen by the mask the caller passes.          *)
(***************************************************************************)
EXTENDS Integers, Bitwise

CONSTANTS Threads,
          MaxId,        \* UINT16_MAX
          BlockSize     \* IPV4_ID_BLOCK_SIZE

VARIABLES ring_data,    \* hot.ipv4_id_data
          head, tail,   \* of hot.ipv4_id_ring: items are tail + 1 .. head
          tl            \* per_thread: first_ipv4_id and next_ipv4_id

vars == <<ring_data, head, tail, tl>>

RingSize == MaxId \div BlockSize
RingMask == RingSize - 1
Slot(i) == i & RingMask

\* _odp_ipsec_sad_init_global: a block for all slots but one, and threads that have
\* used up their blocks
Init ==
    /\ ring_data = [s \in 0..RingSize - 1 |->
           LET writers == {i \in 0..RingSize - 2 : Slot(i + 1) = s}
           IN  IF writers = {} THEN 0
               ELSE BlockSize * CHOOSE i \in writers : \A j \in writers : j <= i]
    /\ head = RingSize - 1
    /\ tail = 0
    /\ tl = [t \in Threads |-> [first |-> 0, next |-> BlockSize, pc |-> "idle"]]

UsedUp(t) == tl[t].next = tl[t].first + BlockSize

\* Return the used block; the ring has RingMask + 1 slots and may be full.
Return(t) ==
    /\ tl[t].pc = "idle" /\ UsedUp(t)
    /\ tl' = [tl EXCEPT ![t].pc = "get"]
    /\ IF head - tail < RingMask + 1
       THEN /\ ring_data' = [ring_data EXCEPT ![Slot(head + 1)] = tl[t].first]
            /\ head' = head + 1
       ELSE UNCHANGED <<ring_data, head>>
    /\ UNCHANGED tail

\* Get a new one
Get(t) ==
    LET data == IF head = tail THEN tl[t].first ELSE ring_data[Slot(tail + 1)]
    IN  /\ tl[t].pc = "get"
        /\ tail' = IF head = tail THEN tail ELSE tail + 1
        /\ tl' = [tl EXCEPT ![t] = [first |-> data, next |-> data, pc |-> "idle"]]
        /\ UNCHANGED <<ring_data, head>>

\* Use the next identifier
Use(t) ==
    /\ tl[t].pc = "idle" /\ ~UsedUp(t)
    /\ tl' = [tl EXCEPT ![t].next = @ + 1]
    /\ UNCHANGED <<ring_data, head, tail>>

Next == \E t \in Threads : Return(t) \/ Get(t) \/ Use(t)

Spec == Init /\ [][Next]_vars

\* Comment of _odp_ipsec_sa_alloc_ipv4_id: an identifier "just should not be duplicated";
\* two threads that still have identifiers left do not draw them from the same block.
BlocksDisjoint ==
    \A t, u \in Threads :
        t # u /\ tl[t].pc = "idle" /\ tl[u].pc = "idle" /\ ~UsedUp(t) /\ ~UsedUp(u) =>
            tl[t].first # tl[u].first
=============================================================================
