---------------------------- MODULE IpsecLifetime ----------------------------
(***************************************************************************)
(* Lifetime limits and success counters of an IPsec SA:                    *)
(* _odp_ipsec_sa_lifetime_update, _odp_ipsec_sa_stats_precheck and         *)
(* _odp_ipsec_sa_stats_pkts of platform/linux-generic/odp_ipsec_sad.c with *)
(* the paths of odp_ipsec.c that call them.                                *)
(*                                                                         *)
(* Threads draw packets and bytes from the SA in advance, a quota at a     *)
(* time, and compare the SA's counters with the limits only then.  The     *)
(* number of successes is computed back from the same counters.            *)
(***************************************************************************)
EXTENDS Integers, FiniteSetsExt, Functions

CONSTANTS Threads,
          PktPrealloc,  \* SA_LIFE_PACKETS_PREALLOC
          BytePrealloc, \* SA_LIFE_BYTES_PREALLOC
          Lens,         \* packet lengths
          Limits,       \* hard limits of the SA, packets and bytes; 0 is no limit
          MaxPkts       \* bound: packets processed

VARIABLES hard,
          packets, bytes,           \* hot.packets and hot.bytes
          post_pkts, post_bytes,    \* stats.post_lifetime_err_*
          tl,                       \* ipsec_sa_thread_local: quotas and lifetime_status
          thr,                      \* threads and their packets
          done, ok, refused         \* history: packets, what succeeded, and what the
                                    \* crypto operation of an outbound burst refused

svars == <<packets, bytes, post_pkts, post_bytes>>
vars == <<hard, svars, tl, thr, done, ok, refused>>

Idle == [pc |-> "idle", len |-> 0, inbound |-> FALSE]

\* init_sa_thread_local and the counters of odp_ipsec_sa_create
Init ==
    /\ hard \in Limits
    /\ packets = 0 /\ bytes = 0
    /\ post_pkts = 0 /\ post_bytes = 0
    /\ tl = [t \in Threads |-> [pq |-> 0, bq |-> 0, expired |-> FALSE]]
    /\ thr = [t \in Threads |-> Idle]
    /\ done = 0
    /\ ok = [pkts |-> 0, bytes |-> 0]
    /\ refused = [pkts |-> 0, bytes |-> 0]

\* A packet up to the lifetime update.  Only inbound packets pass the precheck, which
\* drops them without a trace in these counters.
Packet(t) ==
    /\ thr[t].pc = "idle" /\ done < MaxPkts
    /\ \E len \in Lens, inbound \in BOOLEAN :
           /\ ~(inbound /\ tl[t].expired)
           /\ thr' = [thr EXCEPT ![t] = [pc |-> "packet", len |-> len, inbound |-> inbound]]
    /\ done' = done + 1
    /\ UNCHANGED <<hard, svars, tl, ok, refused>>


\* The packet quota: a fetch-add of the SA's counter when it is used up.  (The code stores
\* the new quota once, with the packet taken off: nothing reads it in between but statistics.)
PktDraw(t) ==
    /\ thr[t].pc = "packet" /\ tl[t].pq = 0
    /\ packets' = packets + PktPrealloc
    /\ tl' = [tl EXCEPT ![t].pq = PktPrealloc,
                        ![t].expired = @ \/ (hard.pkts > 0 /\ packets' >= hard.pkts)]
    /\ UNCHANGED <<hard, bytes, post_pkts, post_bytes, thr, done, ok, refused>>

PktUse(t) ==
    /\ thr[t].pc = "packet" /\ tl[t].pq > 0
    /\ tl' = [tl EXCEPT ![t].pq = @ - 1]
    /\ thr' = [thr EXCEPT ![t].pc = "byte"]
    /\ UNCHANGED <<hard, svars, done, ok, refused>>

\* The byte quota: a draw is larger by the length of the packet, and what was left is kept.
ByteDraw(t) ==
    LET draw == thr[t].len + BytePrealloc
    IN  /\ thr[t].pc = "byte" /\ tl[t].bq < thr[t].len
        /\ bytes' = bytes + draw
        /\ tl' = [tl EXCEPT ![t].bq = @ + draw,
                            ![t].expired = @ \/ (hard.bytes > 0 /\ bytes' >= hard.bytes)]
        /\ UNCHANGED <<hard, packets, post_pkts, post_bytes, thr, done, ok, refused>>

ByteUse(t) ==
    /\ thr[t].pc = "byte" /\ tl[t].bq >= thr[t].len
    /\ tl' = [tl EXCEPT ![t].bq = @ - thr[t].len]
    /\ thr' = [thr EXCEPT ![t].pc = IF tl[t].expired THEN "error" ELSE "update"]
    /\ UNCHANGED <<hard, svars, done, ok, refused>>

Plus(n, len) == [pkts |-> n.pkts + 1, bytes |-> n.bytes + len]

\* What is left of the packet succeeds, or fails after the lifetime was updated: in the
\* crypto operation of an outbound packet, or in ipsec_in_finalize_packet.
Success(t) ==
    /\ thr[t].pc = "update"
    /\ ok' = Plus(ok, thr[t].len)
    /\ thr' = [thr EXCEPT ![t] = Idle]
    /\ UNCHANGED <<hard, svars, tl, done, refused>>

Failure(t) ==
    /\ thr[t].pc = "update"
    /\ thr' = [thr EXCEPT ![t].pc = "error"]
    /\ UNCHANGED <<hard, svars, tl, done, ok, refused>>

\* odp_crypto_op takes no more of an outbound burst: ipsec_out_finalize finds the error that
\* ipsec_do_crypto_burst has set and skips the later accounting.
Refused(t) ==
    /\ thr[t].pc = "update" /\ ~thr[t].inbound
    /\ refused' = Plus(refused, thr[t].len)
    /\ thr' = [thr EXCEPT ![t] = Idle]
    /\ UNCHANGED <<hard, svars, tl, done, ok>>

\* update_post_lifetime_stats, two atomic additions
ErrPkts(t) ==
    /\ thr[t].pc = "error"
    /\ post_pkts' = post_pkts + 1
    /\ thr' = [thr EXCEPT ![t].pc = "errbytes"]
    /\ UNCHANGED <<hard, packets, bytes, post_bytes, tl, done, ok, refused>>

ErrBytes(t) ==
    /\ thr[t].pc = "errbytes"
    /\ post_bytes' = post_bytes + thr[t].len
    /\ thr' = [thr EXCEPT ![t] = Idle]
    /\ UNCHANGED <<hard, packets, bytes, post_pkts, tl, done, ok, refused>>

Next == \E t \in Threads :
    \/ Packet(t) \/ PktDraw(t) \/ PktUse(t) \/ ByteDraw(t) \/ ByteUse(t)
    \/ Success(t) \/ Failure(t) \/ Refused(t) \/ ErrPkts(t) \/ ErrBytes(t)

Spec == Init /\ [][Next]_vars

-----------------------------------------------------------------------------
\* _odp_ipsec_sa_stats_pkts
StatsSuccess == packets - post_pkts - MapThenSumSet(LAMBDA t : tl[t].pq, Threads)
StatsSuccessBytes == bytes - post_bytes - MapThenSumSet(LAMBDA t : tl[t].bq, Threads)

\* The counters computed back from lifetimes, quotas and later errors are exactly the
\* packets and bytes that succeeded, whenever no packet is being processed, but for the
\* outbound packets the crypto operation refused, which they count as successes.
StatsExact ==
    (\A t \in Threads : thr[t].pc = "idle") =>
        /\ StatsSuccess = ok.pkts + refused.pkts
        /\ StatsSuccessBytes = ok.bytes + refused.bytes

\* Drawing in advance never lets an SA live longer: packets and bytes that succeed stay
\* below the hard limits, whatever quotas the threads hold.
HardLimitHolds ==
    /\ hard.pkts > 0 => ok.pkts < hard.pkts
    /\ hard.bytes > 0 => ok.bytes < hard.bytes
=============================================================================
