----------------------------- MODULE PacketSegs -----------------------------
(***************************************************************************)
(* The packet operations of linux-dpdk/odp_packet.c that change the length *)
(* or the segments of a packet, and those that copy its bytes.             *)
(*                                                                         *)
(* A packet is a chain of mbufs of the DPDK library.  An mbuf is the       *)
(* offset of its data in the buffer and the data; bytes of the buffer      *)
(* outside the data are not kept, and are Junk when they become data       *)
(* again, as the API leaves their values open.  The head of the chain also *)
(* holds the number of segments and the packet length, which the code      *)
(* keeps up to date by hand.  A pool is the number of its free mbufs.      *)
(*                                                                         *)
(* want is not in the code: the bytes that each packet should hold by the  *)
(* documentation of the calls made so far.                                 *)
(***************************************************************************)
EXTENDS Integers, SequencesExt, FiniteSetsExt

CONSTANTS
    Handles,        \* packet variables of the application
    Pools,
    PoolSize,       \* mbufs in each pool
    BufLen,         \* buf_len of an mbuf, and seg_len of the pool
    Headroom,       \* RTE_PKTMBUF_HEADROOM
    MaxSegs,        \* RTE_MBUF_MAX_NB_SEGS
    Lens,           \* lengths the application uses
    Aligns,         \* alignments it asks for
    PlainResets,    \* whether it resets only packets whose chain is as allocated
    MaxOps          \* bound: calls made

VARIABLES pkt, free, lost, want, ops

vars == <<pkt, free, lost, want, ops>>

None == [segs |-> <<>>, nb |-> 0, plen |-> 0, pool |-> 0]
Junk == 0

Junks(n) == [i \in 1..n |-> Junk]
Seg(off, data) == [off |-> off, data |-> data]
DataLen(s) == Len(s.data)

\* The bytes of the segments, in the order of the chain.
Bytes(segs) == FoldLeft(LAMBDA acc, s : acc \o s.data, <<>>, segs)

Before(segs, i) == FoldLeft(LAMBDA acc, s : acc + DataLen(s), 0, SubSeq(segs, 1, i - 1))

-----------------------------------------------------------------------------
(* The mbuf library, as the code uses it. *)

HeadroomOf(pk) == pk.segs[1].off

TailroomOf(s) == BufLen - s.off - DataLen(s)

\* rte_pktmbuf_prepend
Prepend(pk, len) ==
    [pk EXCEPT !.segs[1] = Seg(@.off - len, Junks(len) \o @.data), !.plen = @ + len]

\* rte_pktmbuf_append
AppendData(pk, len) ==
    [pk EXCEPT !.segs[Len(pk.segs)].data = @ \o Junks(len), !.plen = @ + len]

\* rte_pktmbuf_adj
Adj(pk, len) ==
    [pk EXCEPT !.segs[1] = Seg(@.off + len, SubSeq(@.data, len + 1, Len(@.data))), !.plen = @ - len]

\* rte_pktmbuf_trim
Trim(pk, len) ==
    [pk EXCEPT !.segs[Len(pk.segs)].data = SubSeq(@, 1, Len(@) - len), !.plen = @ - len]

\* rte_pktmbuf_chain
CanChain(a, b) == a.nb + b.nb <= MaxSegs

Chain(a, b) ==
    [a EXCEPT !.segs = @ \o b.segs, !.nb = @ + b.nb, !.plen = @ + b.plen]

-----------------------------------------------------------------------------
(* Allocation. *)

NumSegments(len) == IF len > BufLen THEN (len + BufLen - 1) \div BufLen ELSE 1

\* packet_reset: the segments after the first keep their data offset, and those
\* that the length does not reach keep everything.
ResetSegs(segs, len) ==
    LET first == Min({len, BufLen - Headroom})
        left(i) == len - first - (i - 1) * BufLen
    IN  <<Seg(Headroom, Junks(first))>>
        \o [i \in 1..(Len(segs) - 1) |->
               IF left(i) > 0 THEN Seg(segs[i + 1].off, Junks(Min({left(i), BufLen})))
               ELSE segs[i + 1]]

PacketReset(pk, len) ==
    [pk EXCEPT !.segs = ResetSegs(@, len), !.plen = len, !.nb = NumSegments(Headroom + len)]

\* packet_alloc: fresh mbufs, the ones after the first with their data at offset 0.
CanAlloc(f, len) ==
    LET n == NumSegments(Headroom + len) IN len # 0 /\ (n = 1 \/ n <= MaxSegs) /\ f >= n

NewPacket(p, len) ==
    LET n == NumSegments(Headroom + len) IN
    PacketReset([segs |-> <<Seg(Headroom, <<>>)>> \o [i \in 1..(n - 1) |-> Seg(0, <<>>)],
                 nb |-> n, plen |-> 0, pool |-> p], len)

-----------------------------------------------------------------------------
(* Growing and shrinking at both ends.  The operators give the packet, the *)
(* mbufs taken from the pool (negative: returned), and the result.         *)

Result(pk, took, ok) == [pk |-> pk, took |-> took, gone |-> 0, ok |-> ok]
Failed(pk) == Result(pk, 0, FALSE)

\* odp_packet_extend_head.  When more than one new segment is needed the loop at
\* line 397 allocates until the pool is empty, keeps none of the segments but the
\* first, and fails.
ExtendHead(pk, f, len) ==
    LET add == len - HeadroomOf(pk)
        new == [segs |-> <<Seg(BufLen - add, Junks(add))>>, nb |-> 1, plen |-> add,
                pool |-> pk.pool]
        old == [pk EXCEPT !.segs[1] = Seg(0, Junks(@.off) \o @.data)]
    IN  CASE add <= 0 -> Result(Prepend(pk, len), 0, TRUE)
          [] add > 0 /\ f = 0 -> Failed(pk)
          [] add >= BufLen /\ f > 0 -> [Failed(pk) EXCEPT !.took = f - 1, !.gone = f - 1]
          [] add \in 1..(BufLen - 1) /\ f > 0 ->
                IF CanChain(new, pk)
                THEN Result([Chain(new, old) EXCEPT !.plen = @ + HeadroomOf(pk)], 1, TRUE)
                ELSE Failed(pk)

\* odp_packet_trunc_head: whole segments are freed, unless the length ends with the first.
TruncHead(pk, len) ==
    LET cut == {i \in 2..Len(pk.segs) : Before(pk.segs, i) <= len}
        n   == IF cut = {} THEN 1 ELSE Max(cut)
        left == len - Before(pk.segs, n)
    IN  CASE len >= pk.plen -> Failed(pk)
          [] len < pk.plen /\ len <= DataLen(pk.segs[1]) -> Result(Adj(pk, len), 0, TRUE)
          [] len < pk.plen /\ len > DataLen(pk.segs[1]) ->
                Result([pk EXCEPT !.segs = <<Seg(pk.segs[n].off + left,
                                                 SubSeq(pk.segs[n].data, left + 1,
                                                        DataLen(pk.segs[n])))>>
                                           \o SubSeq(pk.segs, n + 1, Len(pk.segs)),
                                  !.nb = @ - (n - 1), !.plen = @ - len],
                       -(n - 1), TRUE)

PushHead(pk, len) ==
    IF len > HeadroomOf(pk) THEN Failed(pk) ELSE Result(Prepend(pk, len), 0, TRUE)

PullHead(pk, len) ==
    IF len >= DataLen(pk.segs[1]) THEN Failed(pk) ELSE Result(Adj(pk, len), 0, TRUE)

PushTail(pk, len) ==
    IF len > TailroomOf(Last(pk.segs)) THEN Failed(pk) ELSE Result(AppendData(pk, len), 0, TRUE)

PullTail(pk, len) ==
    IF len >= DataLen(Last(pk.segs)) THEN Failed(pk) ELSE Result(Trim(pk, len), 0, TRUE)

\* odp_packet_extend_tail: the new segments start at offset 0, and the last one is
\* empty when the others take all of the new length.
NewTail(size) ==
    LET n == size \div BufLen + 1 IN
    [i \in 1..n |-> Seg(0, Junks(IF i < n THEN BufLen ELSE size % BufLen))]

ExtendTail(pk, f, len) ==
    LET room == TailroomOf(Last(pk.segs))
        size == len - room
        segs == NewTail(size)
        tail == [segs |-> segs, nb |-> Len(segs), plen |-> size, pool |-> pk.pool]
        full == [pk EXCEPT !.segs[Len(pk.segs)].data = @ \o Junks(room)]
    IN  CASE size <= 0 -> Result(AppendData(pk, len), 0, TRUE)
          [] size > 0 /\ (f < Len(segs) \/ ~CanChain(pk, tail)) -> Failed(pk)
          [] size > 0 /\ f >= Len(segs) /\ CanChain(pk, tail) ->
                Result([Chain(full, tail) EXCEPT !.plen = @ + (len - size)], Len(segs), TRUE)

\* odp_packet_trunc_tail: segments that become empty are freed from the end, except
\* the first; the loop ends when nothing is left to cut.
TruncTail(pk, len) ==
    LET keep == pk.plen - len
        n    == Max({i \in 1..pk.nb : Before(pk.segs, i) < keep \/ Before(pk.segs, i + 1) <= keep})
        rest == IF n = pk.nb THEN SubSeq(pk.segs, n + 1, Len(pk.segs)) ELSE <<>>
    IN  CASE len >= pk.plen -> Failed(pk)
          [] len < pk.plen /\ len < DataLen(Last(pk.segs)) -> Result(Trim(pk, len), 0, TRUE)
          [] len < pk.plen /\ len >= DataLen(Last(pk.segs)) ->
                Result([pk EXCEPT !.segs = Append(SubSeq(@, 1, n - 1),
                                                  Seg(@[n].off, SubSeq(@[n].data, 1,
                                                          Min({DataLen(@[n]), keep - Before(@, n)}))))
                                           \o rest,
                                  !.nb = n, !.plen = keep],
                       -(pk.nb - n), TRUE)

-----------------------------------------------------------------------------
(* Copying bytes. *)

\* odp_packet_offset: the segment that holds an offset, the place in it, and the
\* bytes from there to its end.
Offset(segs, o) ==
    LET i == Min({j \in 1..Len(segs) : Before(segs, j + 1) > o})
    IN  [seg |-> i, at |-> o - Before(segs, i), len |-> Before(segs, i + 1) - o]

\* The loop of odp_packet_copy_from_pkt: pieces that lie in one segment of both
\* packets.  When the packets are the same, each piece is read after the ones
\* before it have been written.
RECURSIVE CopyLoop(_, _, _, _, _, _)
CopyLoop(dst, dOff, src, sOff, len, same) ==
    IF len = 0 THEN dst
    ELSE LET from  == IF same THEN dst ELSE src
             d     == Offset(dst, dOff)
             s     == Offset(from, sOff)
             n     == Min({len, d.len, s.len})
             piece == SubSeq(from[s.seg].data, s.at + 1, s.at + n)
         IN  CopyLoop([dst EXCEPT ![d.seg].data =
                           SubSeq(@, 1, d.at) \o piece \o SubSeq(@, d.at + n + 1, Len(@))],
                      dOff + n, src, sOff + n, len - n, same)

CopyBytes(dst, dOff, src, sOff, len) ==
    [dst EXCEPT !.segs = CopyLoop(@, dOff, src.segs, sOff, len, FALSE)]

\* odp_packet_copy_part
CanCopyPart(pk, f, off, len) ==
    off < pk.plen /\ off + len <= pk.plen /\ CanAlloc(f, len)

CopyPart(pk, p, off, len) == CopyBytes(NewPacket(p, len), 0, pk, off, len)

\* odp_packet_copy_from_pkt with one packet (odp_packet_copy_data and
\* odp_packet_move_data): through a copy when it moves bytes of a range up into
\* the same range, which needs mbufs of the pool for the time of the call.
MoveData(pk, f, dOff, sOff, len) ==
    LET overlap == \/ dOff <= sOff /\ dOff + len >= sOff
                   \/ sOff <= dOff /\ sOff + len >= dOff
    IN  CASE dOff + len > pk.plen \/ sOff + len > pk.plen -> Failed(pk)
          [] dOff + len <= pk.plen /\ sOff + len <= pk.plen /\ overlap /\ sOff < dOff ->
                IF CanCopyPart(pk, f, sOff, len)
                THEN Result(CopyBytes(pk, dOff, CopyPart(pk, pk.pool, sOff, len), 0, len), 0, TRUE)
                ELSE Failed(pk)
          [] dOff + len <= pk.plen /\ sOff + len <= pk.plen /\ ~(overlap /\ sOff < dOff) ->
                Result([pk EXCEPT !.segs = CopyLoop(@, dOff, @, sOff, len, TRUE)], 0, TRUE)

\* odp_packet_add_data and odp_packet_rem_data: a new packet takes the place of the old.
AddData(pk, f, off, len) ==
    LET new == NewPacket(pk.pool, pk.plen + len) IN
    IF off > pk.plen \/ ~CanAlloc(f, pk.plen + len) THEN Failed(pk)
    ELSE Result(CopyBytes(CopyBytes(new, 0, pk, 0, off), off + len, pk, off, pk.plen - off),
                Len(new.segs) - Len(pk.segs), TRUE)

RemData(pk, f, off, len) ==
    LET new == NewPacket(pk.pool, pk.plen - len) IN
    IF off + len >= pk.plen \/ ~CanAlloc(f, pk.plen - len) THEN Failed(pk)
    ELSE Result(CopyBytes(CopyBytes(new, 0, pk, 0, off), off, pk, off + len, pk.plen - off - len),
                Len(new.segs) - Len(pk.segs), TRUE)

\* odp_packet_align: the data moves down by a shift, after room for it was made in
\* front.  Buffers start at an aligned address.
AlignShift(pk, off, len, align) ==
    LET there == off < Len(Bytes(pk.segs))
        o     == Offset(pk.segs, off)
        addr  == IF there THEN pk.segs[o.seg].off + o.at ELSE 0
        sLen  == IF there THEN o.len ELSE 0
        short == IF sLen >= len THEN 0 ELSE len - sLen
    IN  short + ((addr - short) % align)

AlignFits(pk, off, len) ==
    \/ off < Len(Bytes(pk.segs)) /\ Offset(pk.segs, off).len >= len
    \/ len <= DataLen(pk.segs[1])

\* The rest of odp_packet_align, with the result ext of making room.
AlignMove(ext, f, shift) ==
    LET moved == MoveData(ext.pk, f - ext.took, 0, shift, ext.pk.plen - shift)
        cut   == TruncTail(moved.pk, shift)
    IN  IF ext.ok THEN [cut EXCEPT !.took = @ + ext.took] ELSE ext

AlignPkt(pk, f, off, len, align) ==
    IF ~AlignFits(pk, off, len) THEN Failed(pk)
    ELSE IF AlignShift(pk, off, len, align) = 0 THEN Result(pk, 0, TRUE)
    ELSE AlignMove(ExtendHead(pk, f, AlignShift(pk, off, len, align)), f,
                   AlignShift(pk, off, len, align))

-----------------------------------------------------------------------------
(* Calls on one packet.  data is what the packet should hold after a success. *)

Live(h) == pkt[h] # None
FreeOf(h) == free[pkt[h].pool]

Call == ops < MaxOps /\ ops' = ops + 1

Apply(h, r, data) ==
    /\ Call
    /\ pkt' = [pkt EXCEPT ![h] = r.pk]
    /\ free' = [free EXCEPT ![pkt[h].pool] = @ - r.took]
    /\ lost' = [lost EXCEPT ![pkt[h].pool] = @ + r.gone]
    /\ want' = IF r.ok THEN [want EXCEPT ![h] = data] ELSE want

UpTo(s, n) == SubSeq(s, 1, n)
After(s, n) == SubSeq(s, n + 1, Len(s))
Splice(s, o, t) == UpTo(s, o) \o t \o After(s, o + Len(t))

Init ==
    /\ pkt = [h \in Handles |-> None]
    /\ free = PoolSize
    /\ lost = [p \in Pools |-> 0]
    /\ want = [h \in Handles |-> <<>>]
    /\ ops = 0

odp_packet_push_head(h, n) ==
    Live(h) /\ Apply(h, PushHead(pkt[h], n), Junks(n) \o want[h])

odp_packet_pull_head(h, n) ==
    Live(h) /\ Apply(h, PullHead(pkt[h], n), After(want[h], n))

odp_packet_extend_head(h, n) ==
    Live(h) /\ Apply(h, ExtendHead(pkt[h], FreeOf(h), n), Junks(n) \o want[h])

odp_packet_trunc_head(h, n) ==
    Live(h) /\ Apply(h, TruncHead(pkt[h], n), After(want[h], n))

odp_packet_push_tail(h, n) ==
    Live(h) /\ Apply(h, PushTail(pkt[h], n), want[h] \o Junks(n))

odp_packet_pull_tail(h, n) ==
    Live(h) /\ Apply(h, PullTail(pkt[h], n), UpTo(want[h], Len(want[h]) - n))

odp_packet_extend_tail(h, n) ==
    Live(h) /\ Apply(h, ExtendTail(pkt[h], FreeOf(h), n), want[h] \o Junks(n))

odp_packet_trunc_tail(h, n) ==
    Live(h) /\ Apply(h, TruncTail(pkt[h], n), UpTo(want[h], Len(want[h]) - n))

odp_packet_add_data(h, o, n) ==
    /\ Live(h)
    /\ Apply(h, AddData(pkt[h], FreeOf(h), o, n),
             UpTo(want[h], o) \o Junks(n) \o After(want[h], o))

odp_packet_rem_data(h, o, n) ==
    /\ Live(h)
    /\ Apply(h, RemData(pkt[h], FreeOf(h), o, n), UpTo(want[h], o) \o After(want[h], o + n))

odp_packet_align(h, o, n, align) ==
    Live(h) /\ Apply(h, AlignPkt(pkt[h], FreeOf(h), o, n, align), want[h])

odp_packet_move_data(h, d, o, n) ==
    /\ Live(h)
    /\ Apply(h, MoveData(pkt[h], FreeOf(h), d, o, n),
             Splice(want[h], d, SubSeq(want[h], o + 1, o + n)))

\* odp_packet_copy_from_mem, for the whole packet: byte i of packet h is Byte(h, i).
Byte(h, i) == h * 100 + i
Fill(h, n) == [i \in 1..n |-> Byte(h, i)]

odp_packet_copy_from_mem(h) ==
    /\ Live(h)
    /\ Apply(h, Result(CopyBytes(pkt[h], 0, [segs |-> <<Seg(0, Fill(h, pkt[h].plen))>>], 0,
                                 pkt[h].plen), 0, TRUE),
             Fill(h, Len(want[h])))

ResetMaxLen(pk) == pk.nb * BufLen - Headroom

\* odp_packet_reset.  PlainResets keeps the application from resetting a packet to
\* fewer segments, which stay in the chain, or one whose later segments do not
\* start at offset 0, whose data then ends behind the buffer.
odp_packet_reset(h, n) ==
    /\ Live(h)
    /\ \/ ~PlainResets
       \/ n > ResetMaxLen(pkt[h])
       \/ /\ NumSegments(Headroom + n) = Len(pkt[h].segs)
          /\ \A i \in 2..Len(pkt[h].segs) : pkt[h].segs[i].off = 0
    /\ Apply(h, IF n > ResetMaxLen(pkt[h]) THEN Failed(pkt[h])
                ELSE Result(PacketReset(pkt[h], n), 0, TRUE),
             Junks(n))

odp_packet_free(h) ==
    Live(h) /\ Apply(h, Result(None, -Len(pkt[h].segs), TRUE), <<>>)

-----------------------------------------------------------------------------
(* Calls on two packets. *)

\* A new packet for handle h of pool p, or none; the others stay as they are.
Make(h, p, ok, new, data) ==
    /\ Call
    /\ pkt[h] = None
    /\ pkt' = IF ok THEN [pkt EXCEPT ![h] = new] ELSE pkt
    /\ free' = IF ok THEN [free EXCEPT ![p] = @ - Len(new.segs)] ELSE free
    /\ want' = IF ok THEN [want EXCEPT ![h] = data] ELSE want
    /\ UNCHANGED lost

odp_packet_alloc(h, p, n) == Make(h, p, CanAlloc(free[p], n), NewPacket(p, n), Junks(n))

\* odp_packet_copy, and odp_packet_copy_part when it is not the whole packet.
odp_packet_copy_part(h, g, p, o, n) ==
    /\ Live(h)
    /\ Make(g, p, CanCopyPart(pkt[h], free[p], o, n), CopyPart(pkt[h], p, o, n),
            SubSeq(want[h], o + 1, o + n))

\* odp_packet_ref: a copy without its first bytes.  The copy is freed when the
\* offset is not in the packet.
odp_packet_ref(h, g, o) ==
    /\ Live(h)
    /\ LET ok   == CanAlloc(FreeOf(h), pkt[h].plen)
           copy == CopyPart(pkt[h], pkt[h].pool, 0, pkt[h].plen)
       IN  Make(g, pkt[h].pool, ok /\ o < pkt[h].plen, TruncHead(copy, o).pk, After(want[h], o))

\* odp_packet_split
odp_packet_split(h, g, n) ==
    /\ Live(h) /\ pkt[g] = None
    /\ Call
    /\ LET rest == pkt[h].plen - n
           ok   == n < pkt[h].plen /\ CanCopyPart(pkt[h], FreeOf(h), n, rest)
           tail == CopyPart(pkt[h], pkt[h].pool, n, rest)
           cut  == TruncTail(pkt[h], rest)
       IN  IF ok
           THEN /\ pkt' = [pkt EXCEPT ![h] = cut.pk, ![g] = tail]
                /\ free' = [free EXCEPT ![pkt[h].pool] = @ - Len(tail.segs) - cut.took]
                /\ want' = [want EXCEPT ![h] = UpTo(@, n), ![g] = After(want[h], n)]
                /\ UNCHANGED lost
           ELSE UNCHANGED <<pkt, free, lost, want>>

\* odp_packet_concat: by a chain, through a copy of src when it is from another
\* pool; or, when the chain would be too long, into a copy of dst.
Joined(dst, src, took, back, ok) ==
    [dst |-> dst, src |-> src, took |-> took, back |-> back, ok |-> ok]

ConcatByCopy(dst, src, f, ext) ==
    IF ext.ok
    THEN Joined(CopyBytes(ext.pk, dst.plen, src, 0, src.plen), None,
                NumSegments(Headroom + dst.plen) + ext.took - Len(dst.segs), Len(src.segs), TRUE)
    ELSE Joined(dst, src, 0, 0, FALSE)

ConcatCopying(dst, src, f) ==
    IF ~CanAlloc(f, dst.plen) THEN Joined(dst, src, 0, 0, FALSE)
    ELSE ConcatByCopy(dst, src, f,
                      ExtendTail(CopyPart(dst, dst.pool, 0, dst.plen),
                                 f - NumSegments(Headroom + dst.plen), src.plen))

Concat(dst, src, f) ==
    LET new == CopyPart(src, dst.pool, 0, src.plen) IN
    CASE dst.pool = src.pool /\ CanChain(dst, src) -> Joined(Chain(dst, src), None, 0, 0, TRUE)
      [] dst.pool = src.pool /\ ~CanChain(dst, src) -> ConcatCopying(dst, src, f)
      [] dst.pool # src.pool /\ ~CanAlloc(f, src.plen) -> Joined(dst, src, 0, 0, FALSE)
      [] dst.pool # src.pool /\ CanAlloc(f, src.plen) ->
            IF CanChain(dst, new)
            THEN Joined(Chain(dst, new), None, Len(new.segs), Len(src.segs), TRUE)
            ELSE ConcatCopying(dst, src, f)

odp_packet_concat(h, g) ==
    /\ Live(h) /\ Live(g) /\ h # g
    /\ Call
    /\ LET r == Concat(pkt[h], pkt[g], FreeOf(h))
       IN  /\ pkt' = [pkt EXCEPT ![h] = r.dst, ![g] = r.src]
           /\ free' = [p \in Pools |-> free[p] - (IF p = pkt[h].pool THEN r.took ELSE 0)
                                               + (IF p = pkt[g].pool THEN r.back ELSE 0)]
           /\ want' = IF r.ok THEN [want EXCEPT ![h] = @ \o want[g], ![g] = <<>>] ELSE want
           /\ UNCHANGED lost

\* odp_packet_ref_pkt: a copy without its first bytes is joined to the end of g.
odp_packet_ref_pkt(h, g, o) ==
    /\ Live(h) /\ Live(g) /\ h # g
    /\ Call
    /\ LET q    == pkt[h].pool
           copy == CopyPart(pkt[h], q, 0, pkt[h].plen)
           new  == TruncHead(copy, o).pk
           left == [free EXCEPT ![q] = @ - Len(new.segs)]
           r    == Concat(pkt[g], new, left[pkt[g].pool])
       IN  IF CanAlloc(FreeOf(h), pkt[h].plen) /\ o < pkt[h].plen /\ r.ok
           THEN /\ pkt' = [pkt EXCEPT ![g] = r.dst]
                /\ free' = [p \in Pools |-> left[p] - (IF p = pkt[g].pool THEN r.took ELSE 0)
                                                    + (IF p = q THEN r.back ELSE 0)]
                /\ want' = [want EXCEPT ![g] = @ \o After(want[h], o)]
                /\ UNCHANGED lost
           ELSE UNCHANGED <<pkt, free, lost, want>>

\* odp_packet_copy_from_pkt between two packets.
odp_packet_copy_from_pkt(h, d, g, o, n) ==
    /\ Live(h) /\ Live(g) /\ h # g
    /\ Apply(h, IF d + n > pkt[h].plen \/ o + n > pkt[g].plen THEN Failed(pkt[h])
                ELSE Result(CopyBytes(pkt[h], d, pkt[g], o, n), 0, TRUE),
             Splice(want[h], d, SubSeq(want[g], o + 1, o + n)))

-----------------------------------------------------------------------------
Offsets == {0} \cup Lens

OnOne(h) ==
    \/ odp_packet_copy_from_mem(h) \/ odp_packet_free(h)
    \/ \E n \in Lens :
          \/ odp_packet_push_head(h, n) \/ odp_packet_pull_head(h, n)
          \/ odp_packet_extend_head(h, n) \/ odp_packet_trunc_head(h, n)
          \/ odp_packet_push_tail(h, n) \/ odp_packet_pull_tail(h, n)
          \/ odp_packet_extend_tail(h, n) \/ odp_packet_trunc_tail(h, n)
          \/ odp_packet_reset(h, n)
          \/ \E p \in Pools : odp_packet_alloc(h, p, n)
          \/ \E o \in Offsets :
                \/ odp_packet_add_data(h, o, n) \/ odp_packet_rem_data(h, o, n)
                \/ \E a \in Aligns : odp_packet_align(h, o, n, a)
                \/ \E d \in Offsets : odp_packet_move_data(h, d, o, n)

OnTwo(h, g) ==
    \/ odp_packet_concat(h, g)
    \/ \E o \in Offsets : odp_packet_ref(h, g, o) \/ odp_packet_ref_pkt(h, g, o)
    \/ \E n \in Lens :
          \/ odp_packet_split(h, g, n)
          \/ \E o \in Offsets :
                \/ \E p \in Pools : odp_packet_copy_part(h, g, p, o, n)
                \/ \E d \in Offsets : odp_packet_copy_from_pkt(h, d, g, o, n)

Next == \E h, g \in Handles : OnOne(h) \/ OnTwo(h, g)

Spec == Init /\ [][Next]_vars

-----------------------------------------------------------------------------
TypeOK ==
    /\ \A h \in Handles : pkt[h].nb \in Nat /\ pkt[h].plen \in Nat
    /\ \A p \in Pools : free[p] \in 0..PoolSize[p] /\ lost[p] \in 0..PoolSize[p]
    /\ ops \in 0..MaxOps

\* A packet holds the bytes that the calls made on it say it holds, whichever
\* segments and copies they went through; its length and number of segments, kept
\* apart from the chain, agree with it; and all data lies inside its buffer.
ContentsExact ==
    \A h \in Handles :
        LET b == Bytes(pkt[h].segs) IN
        /\ pkt[h].plen = Len(want[h]) /\ Len(b) = Len(want[h])
        /\ pkt[h].nb = Len(pkt[h].segs)
        /\ \A i \in 1..Len(b) : want[h][i] \in {Junk, b[i]}
        /\ \A i \in 1..Len(pkt[h].segs) : pkt[h].segs[i].off \in 0..BufLen
                                          /\ TailroomOf(pkt[h].segs[i]) >= 0

\* Every mbuf is in the pool or in one packet, also after calls that failed half
\* way; only those lost by odp_packet_extend_head's loop are in neither.
PoolExact ==
    \A p \in Pools :
        free[p] + lost[p] + MapThenSumSet(LAMBDA h : Len(pkt[h].segs),
                                          {h \in Handles : pkt[h].pool = p}) = PoolSize[p]

=============================================================================
