----------------------------- MODULE IpsecReplay -----------------------------
(***************************************************************************)
(* Anti-replay of inbound IPsec packets: ipsec_compute_esn of              *)
(* platform/linux-generic/odp_ipsec.c and the window functions of          *)
(* odp_ipsec_sad.c.                                                        *)
(*                                                                         *)
(* A packet carries the low part of its sequence number.  The window is    *)
(* either one 64-bit word, a bit mask above the top number, that threads   *)
(* replace by CAS, or an array of buckets of bits behind a lock.  The      *)
(* network reorders and repeats packets.                                   *)
(***************************************************************************)
EXTENDS Integers, FiniteSets

CONSTANTS SeqMod,       \* 2^32: modulus of the number a packet carries
          MinWin,       \* IPSEC_AR_WIN_SIZE_MIN, the number of mask bits as well
          BucketSize,   \* IPSEC_AR_WIN_BUCKET_SIZE
          Configs       \* SAs: antireplay_ws, esn; bounds: threads, highest number sent

VARIABLES conf,         \* the SA
          top, mask,    \* hot.in.wintop_seq: its lower and upper half, or all of it in top
          bucket_arr,
          thr,          \* threads and the packet each one processes
          accepted,     \* history: numbers of the packets accepted
          replayed      \* history: one of them was accepted again

vars == <<conf, top, mask, bucket_arr, thr, accepted, replayed>>

\* ipsec_antireplay_init
WinSize == IF conf.ws < MinWin THEN MinWin ELSE conf.ws


NumBuckets == (WinSize - 1) \div BucketSize + 2

\* _odp_ipsec_sa_replay_update chooses the window in one word
OneWord == ~conf.esn /\ WinSize = MinWin

Idle == [pc |-> "idle", seq |-> 0, top |-> 0, mask |-> {}]

Init ==
    /\ conf \in Configs
    /\ top = 0
    /\ mask = {}
    /\ bucket_arr = [b \in 0..NumBuckets - 1 |-> {}]
    /\ thr = [t \in 1..conf.threads |-> Idle]
    /\ accepted = {}
    /\ replayed = FALSE

-----------------------------------------------------------------------------
\* ipsec_compute_esn: the high part is a guess from the window.  winbot_l wraps.
ComputeEsn(seq) ==
    LET low == top % SeqMod
        high == top \div SeqMod
        winbot_l == (low - WinSize + 1) % SeqMod
        guess == IF low >= WinSize - 1
                 THEN IF seq < winbot_l THEN high + 1 ELSE high
                 ELSE IF seq >= winbot_l THEN high - 1 ELSE high
    IN  guess * SeqMod + seq

\* ipsec_in_esp and ipsec_in_ah parse the packet, and _odp_ipsec_sa_replay_precheck drops
\* it early when it is left of the window; a guess below zero is a very large number.
\* The integrity check covers the high part, so a wrong guess fails it.
Receive(t) ==
    /\ thr[t].pc = "idle"
    /\ \E seq \in 1..conf.sent :
           LET est == IF conf.esn THEN ComputeEsn(seq % SeqMod) ELSE seq
               drop == est + WinSize \in 0..top \/ est # seq
           IN  thr' = [thr EXCEPT ![t] = [Idle EXCEPT
                   !.pc = IF drop THEN "rejected" ELSE "load", !.seq = seq, !.top = top]]
    /\ UNCHANGED <<conf, top, mask, bucket_arr, accepted, replayed>>

Accept(t) ==
    /\ thr' = [thr EXCEPT ![t] = Idle]
    /\ accepted' = accepted \cup {thr[t].seq}
    /\ replayed' = (replayed \/ thr[t].seq \in accepted)

\* ipsec_wslarge_replay_update, all of it behind hot.in.lock
BucketOf(seq) == (seq \div BucketSize) % NumBuckets

UpdateLarge(t) ==
    LET seq == thr[t].seq
        last == top \div BucketSize
        diff == seq \div BucketSize - last
        cleared == {(n + last + 1) % NumBuckets :
                       n \in 0..(IF diff > NumBuckets THEN NumBuckets ELSE diff) - 1}
        arr == IF seq > top
               THEN [b \in DOMAIN bucket_arr |-> IF b \in cleared THEN {} ELSE bucket_arr[b]]
               ELSE bucket_arr
        seen == seq % BucketSize \in arr[BucketOf(seq)]
    IN  /\ thr[t].pc = "load" /\ ~OneWord
        /\ IF seq + WinSize <= top
           THEN /\ thr' = [thr EXCEPT ![t].pc = "rejected"]
                /\ UNCHANGED <<top, bucket_arr, accepted, replayed>>
           ELSE /\ top' = IF seq > top THEN seq ELSE top
                /\ bucket_arr' = [arr EXCEPT ![BucketOf(seq)] = @ \cup {seq % BucketSize}]
                /\ IF seen
                   THEN /\ thr' = [thr EXCEPT ![t].pc = "rejected"]
                        /\ UNCHANGED <<accepted, replayed>>
                   ELSE Accept(t)
        /\ UNCHANGED <<conf, mask>>

\* ipsec_ws32_replay_update: the load of the word
LoadWord(t) ==
    /\ thr[t].pc = "load" /\ OneWord
    /\ thr' = [thr EXCEPT ![t] = [@ EXCEPT !.pc = "cas", !.top = top, !.mask = mask]]
    /\ UNCHANGED <<conf, top, mask, bucket_arr, accepted, replayed>>

Shift(m, n) == {b + n : b \in m} \cap (0..MinWin - 1)

\* The word that results, with 32-bit sums; "stale" and "seen" packets are rejected.
NewWord(seq, w) ==
    CASE (seq + MinWin) % SeqMod <= w.top -> [verdict |-> "stale", top |-> w.top, mask |-> w.mask]
      [] OTHER ->
         CASE seq >= (w.top + MinWin) % SeqMod -> [verdict |-> "new", top |-> seq, mask |-> {0}]
           [] OTHER ->
              CASE seq > w.top -> [verdict |-> "new", top |-> seq,
                                   mask |-> Shift(w.mask, seq - w.top) \cup {0}]
                [] w.top - seq \in w.mask -> [verdict |-> "seen", top |-> w.top, mask |-> w.mask]
                [] OTHER -> [verdict |-> "new", top |-> w.top, mask |-> w.mask \cup {w.top - seq}]

\* Faulty form: the word is stored whatever it is now.
CasWord_Store(t) ==
    LET new == NewWord(thr[t].seq, thr[t])
    IN  /\ thr[t].pc = "cas"
        /\ IF new.verdict # "new"
           THEN /\ thr' = [thr EXCEPT ![t].pc = "rejected"]
                /\ UNCHANGED <<top, mask, accepted, replayed>>
           ELSE /\ top' = new.top /\ mask' = new.mask
                /\ Accept(t)
        /\ UNCHANGED <<conf, bucket_arr>>

\* A CAS that fails loads the word again.
CasWord(t) ==
    LET new == NewWord(thr[t].seq, thr[t])
    IN  /\ thr[t].pc = "cas"
        /\ IF new.verdict # "new"
           THEN /\ thr' = [thr EXCEPT ![t].pc = "rejected"]
                /\ UNCHANGED <<top, mask, accepted, replayed>>
           ELSE IF thr[t].top = top /\ thr[t].mask = mask
           THEN /\ top' = new.top /\ mask' = new.mask
                /\ Accept(t)
           ELSE /\ thr' = [thr EXCEPT ![t] = [@ EXCEPT !.top = top, !.mask = mask]]
                /\ UNCHANGED <<top, mask, accepted, replayed>>
        /\ UNCHANGED <<conf, bucket_arr>>

Done(t) ==
    /\ thr[t].pc = "rejected"
    /\ thr' = [thr EXCEPT ![t] = Idle]
    /\ UNCHANGED <<conf, top, mask, bucket_arr, accepted, replayed>>

Next == \E t \in 1..conf.threads :
    Receive(t) \/ UpdateLarge(t) \/ LoadWord(t) \/ CasWord(t) \/ Done(t)

Spec == Init /\ [][Next]_vars

-----------------------------------------------------------------------------
\* Types; a bit mask stays within its word.
TypeOK ==
    /\ conf \in Configs
    /\ top \in 0..conf.sent
    /\ mask \subseteq 0..MinWin - 1
    /\ bucket_arr \in [0..NumBuckets - 1 -> SUBSET (0..BucketSize - 1)]
    /\ accepted \subseteq 1..conf.sent

\* No packet is accepted twice, however threads interleave and whatever the order and
\* number of the copies that arrive.
NoReplay == ~replayed

\* The sums of ipsec_ws32_replay_update wrap for the last numbers of the space.
NearWrap(seq) == OneWord /\ seq + MinWin >= SeqMod

\* A packet whose number the window can know about is turned away only for a reason:
\* it was accepted before, or a number a whole window higher was.  With extended numbers
\* the guess of the high part is right up to a distance of the number space.
RejectedForReason ==
    \A t \in DOMAIN thr : thr[t].pc = "rejected" =>
        \/ thr[t].seq \in accepted
        \/ \E n \in accepted : n >= thr[t].seq + WinSize
        \/ NearWrap(thr[t].seq)
        \/ conf.esn /\ thr[t].seq > thr[t].top + SeqMod - WinSize

=============================================================================
