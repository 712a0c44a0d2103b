------------------------------ MODULE CryptoDpdk ------------------------------
(***************************************************************************)
(* Bursts of crypto operations of platform/linux-dpdk/odp_crypto.c:        *)
(* odp_crypto_int with op_alloc, op_prepare, op_enq_deq, dev_enq_deq and   *)
(* op_finish, run by threads that may share the queue pairs of a device.   *)
(*                                                                         *)
(* An operation is known by its thread and its place in the burst.  Its    *)
(* parameters are the device of its session (0 for a session without       *)
(* algorithms), null_crypto_enable of the session, null_crypto of the      *)
(* packet, and whether the packet cannot be prepared for the device.       *)
(***************************************************************************)
EXTENDS Integers, Sequences, SequencesExt

CONSTANTS Threads,      \* thread identifiers 0, 1, ...
          Devices,
          NumQpairs,    \* queue pairs of a device when they are shared
          OpPool,       \* size of crypto_op_pool
          Confs,        \* [shared, refuses]: queue pairs are shared between threads; a
                        \* device may refuse a part of a burst
          Bursts,       \* the bursts: sequences of [dev, enable, null, bad]
          MaxCalls      \* bound: calls of odp_crypto_op by a thread

VARIABLES conf,
          locked,       \* global->lock
          pool,         \* operations left in crypto_op_pool
          qp,           \* queue pairs: operations enqueued and not dequeued
          thr,          \* threads in odp_crypto_int
          calls

vars == <<conf, locked, pool, qp, thr, calls>>

Idle == [pc |-> "idle", param |-> <<>>, status |-> <<>>, idx |-> 1, done |-> 0,
         burst |-> <<>>, deq |-> <<>>]

Qpairs == IF conf.shared THEN 0..NumQpairs - 1 ELSE Threads
Qpair(t) == IF conf.shared THEN t % NumQpairs ELSE t

Init ==
    /\ conf \in Confs
    /\ locked = FALSE
    /\ pool = OpPool
    /\ qp = [d \in Devices, q \in Qpairs |-> <<>>]
    /\ thr = [t \in Threads |-> Idle]
    /\ calls = [t \in Threads |-> 0]

\* op_alloc: all operations of the burst, or else a single one, or none
Allocated(num) == IF pool >= num THEN num ELSE IF pool >= 1 THEN 1 ELSE 0

\* op_prepare.  The null_crypto flag tested is the one of the first packet.
Prepared(param, n) ==
    CASE param[n].dev = 0                      -> "S_NOP"
      [] param[n].enable /\ param[1].null      -> "S_NOP"
      [] param[n].bad                          -> "S_ERROR_LIN"
      [] OTHER                                 -> "S_OK"

Call(t) ==
    /\ thr[t].pc = "idle" /\ calls[t] < MaxCalls
    /\ \E b \in Bursts :
           LET num == Allocated(Len(b))
           IN  /\ num > 0
               /\ pool' = pool - num
               /\ thr' = [thr EXCEPT ![t] =
                      [Idle EXCEPT !.pc = "loop", !.param = SubSeq(b, 1, num),
                                   !.status = [n \in 1..num |-> Prepared(b, n)]]]
    /\ calls' = [calls EXCEPT ![t] = @ + 1]
    /\ UNCHANGED <<conf, locked, qp>>

\* op_enq_deq
Skip(t) ==
    /\ thr[t].pc = "loop" /\ thr[t].done < Len(thr[t].param)
    /\ thr[t].status[thr[t].idx] # "S_OK"
    /\ thr' = [thr EXCEPT ![t].idx = @ + 1, ![t].done = @ + 1]
    /\ UNCHANGED <<conf, locked, pool, qp, calls>>

BuildBurst(t) ==
    LET s == thr[t]
        ops == {n \in s.idx..Len(s.param) :
                    s.param[n].dev = s.param[s.idx].dev /\ s.status[n] = "S_OK"}
    IN  /\ s.pc = "loop" /\ s.done < Len(s.param) /\ s.status[s.idx] = "S_OK"
        /\ thr' = [thr EXCEPT ![t].pc = "lock", ![t].idx = @ + 1,
                              ![t].burst = SetToSortSeq(ops, <), ![t].deq = <<>>,
                              ![t].status = [n \in DOMAIN @ |->
                                                 IF n \in ops THEN "S_DEV" ELSE @[n]]]
        /\ UNCHANGED <<conf, locked, pool, qp, calls>>

\* Faulty form: the lock of shared queue pairs is not taken.
Lock_None(t) ==
    /\ thr[t].pc = "lock"
    /\ thr' = [thr EXCEPT ![t].pc = "enqueue"]
    /\ UNCHANGED <<conf, locked, pool, qp, calls>>

\* dev_enq_deq: the lock is held from the enqueue to the end of the dequeue.
Lock(t) ==
    /\ thr[t].pc = "lock"
    /\ conf.shared => ~locked
    /\ locked' = (locked \/ conf.shared)
    /\ thr' = [thr EXCEPT ![t].pc = "enqueue"]
    /\ UNCHANGED <<conf, pool, qp, calls>>

Unlocked == IF conf.shared THEN FALSE ELSE locked

Dev(t) == thr[t].param[thr[t].burst[1]].dev

\* What was not taken fails, and the lock is released before the rest is dequeued.
Enqueue(t) ==
    LET s == thr[t]
    IN  /\ s.pc = "enqueue"
        /\ \E rc \in IF conf.refuses THEN 0..Len(s.burst) ELSE {Len(s.burst)} :
               /\ qp' = [qp EXCEPT ![Dev(t), Qpair(t)] =
                                       @ \o [i \in 1..rc |-> <<t, s.burst[i]>>]]
               /\ locked' = IF rc < Len(s.burst) THEN Unlocked ELSE locked
               /\ thr' = [thr EXCEPT
                      ![t].pc = IF rc = 0 THEN "loop" ELSE "dequeue",
                      ![t].done = IF rc = 0 THEN @ + Len(s.burst) ELSE @,
                      ![t].deq = [i \in 1..rc |-> <<>>],
                      ![t].status = [n \in DOMAIN @ |->
                          IF \E i \in rc + 1..Len(s.burst) : s.burst[i] = n
                          THEN "S_ERROR" ELSE @[n]]]
        /\ UNCHANGED <<conf, pool, calls>>

\* One operation at a time; deq holds what the slots of deq_op were given.
Dequeue(t) ==
    LET s == thr[t]
        q == qp[Dev(t), Qpair(t)]
        slot == CHOOSE i \in DOMAIN s.deq : s.deq[i] = <<>> /\ \A j \in 1..i - 1 : s.deq[j] # <<>>
        last == slot = Len(s.deq)
    IN  /\ s.pc = "dequeue" /\ q # <<>>
        /\ qp' = [qp EXCEPT ![Dev(t), Qpair(t)] = Tail(@)]
        /\ thr' = [thr EXCEPT ![t].deq[slot] = Head(q),
                              ![t].pc = IF last THEN "loop" ELSE @,
                              ![t].done = IF last THEN @ + Len(s.burst) ELSE @]
        /\ locked' = IF last THEN Unlocked ELSE locked
        /\ UNCHANGED <<conf, pool, calls>>

\* op_finish and the return of the operations to the pool
Finish(t) ==
    /\ thr[t].pc = "loop" /\ thr[t].done >= Len(thr[t].param)
    /\ pool' = pool + Len(thr[t].param)
    /\ thr' = [thr EXCEPT ![t].pc = "return"]
    /\ UNCHANGED <<conf, locked, qp, calls>>

Return(t) ==
    /\ thr[t].pc = "return"
    /\ thr' = [thr EXCEPT ![t] = Idle]
    /\ UNCHANGED <<conf, locked, pool, qp, calls>>

Next == \E t \in Threads :
    \/ Call(t) \/ Skip(t) \/ BuildBurst(t) \/ Lock(t) \/ Enqueue(t) \/ Dequeue(t)
    \/ Finish(t) \/ Return(t)

Work(t) == \/ Skip(t) \/ BuildBurst(t) \/ Lock(t) \/ Enqueue(t) \/ Dequeue(t)
           \/ Finish(t) \/ Return(t)

Spec == Init /\ [][Next]_vars

-----------------------------------------------------------------------------
\* The result op_finish stores in a packet
Result(status) ==
    CASE status = "S_DEV"       -> "processed"
      [] status = "S_NOP"       -> "nop"
      [] status = "S_ERROR_LIN" -> "data_size"
      [] OTHER                  -> "other"

\* What the parameters of a packet ask for
Asked(p) ==
    CASE p.dev = 0            -> "nop"
      [] p.enable /\ p.null   -> "nop"
      [] p.bad                -> "data_size"
      [] OTHER                -> "processed"

\* Every packet of a burst ends with the result its own parameters ask for; only a device
\* that refuses operations makes another error of it (op_finish: "other error before
\* cryptodev enqueue").
OwnResult ==
    \A t \in Threads : thr[t].pc = "return" =>
        \A n \in DOMAIN thr[t].param :
            \/ Result(thr[t].status[n]) = Asked(thr[t].param[n])
            \/ conf.refuses /\ thr[t].status[n] = "S_ERROR"

\* A burst gets back the operations it enqueued, in their order, although another thread
\* enqueues to the same queue pair: the assertions at the end of dev_enq_deq.
SameOps ==
    \A t \in Threads : \A i \in DOMAIN thr[t].deq :
        thr[t].deq[i] # <<>> => thr[t].deq[i] = <<t, thr[t].burst[i]>>

\* A call of odp_crypto_op returns: nobody waits for ever for the lock of the queue pairs
\* or for an operation another thread has dequeued.  (A spinlock is not fair: the others
\* make MaxCalls calls at most.)
CallReturns == \A t \in Threads : thr[t].pc # "idle" ~> thr[t].pc = "idle"

FairSpec == Spec /\ \A t \in Threads : WF_vars(Work(t))
=============================================================================
