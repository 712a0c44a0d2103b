------------------------------ MODULE MC_Services ------------------------------
(* Small instances of the IPsec modules, the crypto operations, the timers and    *)
(* the initialization, for safety.  which chooses the instance a behaviour is     *)
(* about.  Instances share the variables that have the same name; a variable the  *)
(* instance does not have is 0.                                                   *)
EXTENDS Integers, Sequences, TLC

CONSTANTS Ctls, Workers, t1, t2, e1, e2, q1, q2, None

VARIABLES which, thr, conf,
          sync, sa, freelist, ctl, wrk, notified, created,
          top, mask, bucket_arr, accepted, replayed,
          hard, packets, bytes, post_pkts, post_bytes, tl, done, ok, refused,
          locked, pool, qp, calls,
          app, has, queued, periodic, tm, rte, free, cb, owner, live,
          now, tb, queue, cancelled, scan, hdr, dest, due, resets,
          glob, up, eal, loc, count

\* Two SAs, one found by SPI and destination and one by SPI only
Sa == INSTANCE IpsecSa WITH
    NumSa <- 2, Modes <- {TRUE, FALSE}, MaxCreate <- 2, Pkts <- {[spi |-> 1, dst |-> 1]},
    Params <- {[lookup |-> "dst", spi |-> 1, dst |-> 1], [lookup |-> "spi", spi |-> 1, dst |-> 1]}

\* Windows of one word and of buckets, with and without extended sequence numbers
Replay == INSTANCE IpsecReplay WITH
    SeqMod <- 8, MinWin <- 3, BucketSize <- 2,
    Configs <- {[ws |-> 1, esn |-> FALSE, sent |-> 7, threads |-> 2],
                [ws |-> 5, esn |-> FALSE, sent |-> 9, threads |-> 1],
                [ws |-> 2, esn |-> TRUE, sent |-> 11, threads |-> 1],
                [ws |-> 4, esn |-> TRUE, sent |-> 8, threads |-> 2]}

\* A limit on packets, and one on bytes
Lifetime == INSTANCE IpsecLifetime WITH
    Threads <- Workers, PktPrealloc <- 2, BytePrealloc <- 3, Lens <- {1, 3}, MaxPkts <- 5,
    Limits <- {[pkts |-> 4, bytes |-> 0], [pkts |-> 0, bytes |-> 10]}

Op(dev, enable, null, bad) == [dev |-> dev, enable |-> enable, null |-> null, bad |-> bad]
OnDev == Op(1, FALSE, FALSE, FALSE)
OnOther == Op(2, FALSE, FALSE, FALSE)
NoDev == Op(0, FALSE, FALSE, FALSE)
Unusable == Op(1, FALSE, FALSE, TRUE)
Null == Op(1, TRUE, TRUE, FALSE)

\* Bursts of which op_enq_deq submits every operation, with operations that need no device or
\* cannot be done
Crypto == INSTANCE CryptoDpdk WITH
    Threads <- {0, 1}, Devices <- {1, 2}, NumQpairs <- 1, OpPool <- 5, MaxCalls <- 2,
    Confs <- {[shared |-> TRUE, refuses |-> FALSE], [shared |-> FALSE, refuses |-> TRUE]},
    Bursts <- {<<OnDev, OnDev>>, <<OnDev, NoDev, OnDev>>, <<OnDev, OnOther, OnDev>>,
               <<Unusable, OnOther, OnDev>>, <<Null, Null>>}

\* Two timers that two threads use while a third one polls
Dpdk == INSTANCE TimerDpdk WITH
    Timers <- {t1, t2}, Events <- {e1, e2}, Pollers <- {"poller"}, PoolTypes <- BOOLEAN,
    Apps <- Workers

\* One timer, two threads that use it and two that scan the pool; the queue of the timer
\* changes when it is allocated again
Generic == INSTANCE TimerGeneric WITH
    Timers <- {t1}, Events <- {e1}, Queues <- {q1, q2}, Periodic <- BOOLEAN,
    Apps <- Workers, Scanners <- Ctls, MinRel <- 1, Period <- 1, MaxTime <- 2

\* Every module may fail in the global part; those that can in the local one
Boot == INSTANCE InitTerm WITH
    Threads <- Workers, LocalFails <- {"thread", "pktio", "queue", "sched"}, TermFails <- {"sched", "ishm"},
    MaxCalls <- 4

NoSas == /\ sync = 0 /\ sa = 0 /\ freelist = 0 /\ ctl = 0 /\ wrk = 0 /\ notified = 0
         /\ created = 0
NoReplays == top = 0 /\ mask = 0 /\ bucket_arr = 0 /\ accepted = 0 /\ replayed = 0
NoLifetimes == /\ hard = 0 /\ packets = 0 /\ bytes = 0 /\ post_pkts = 0 /\ post_bytes = 0
               /\ tl = 0 /\ done = 0 /\ ok = 0 /\ refused = 0
NoCrypto == locked = 0 /\ pool = 0 /\ qp = 0
NoDpdk == tm = 0 /\ rte = 0 /\ free = 0 /\ cb = 0 /\ owner = 0 /\ live = 0
NoGeneric == /\ now = 0 /\ tb = 0 /\ queue = 0 /\ cancelled = 0 /\ scan = 0 /\ hdr = 0
             /\ dest = 0 /\ due = 0 /\ resets = 0
NoTimer == NoDpdk /\ NoGeneric /\ app = 0 /\ has = 0 /\ queued = 0 /\ periodic = 0
NoBoot == glob = 0 /\ up = 0 /\ eal = 0 /\ loc = 0 /\ count = 0
NoIpsec == NoSas /\ NoReplays /\ NoLifetimes
NoOther == NoIpsec /\ NoCrypto /\ thr = 0 /\ conf = 0

Init ==
    \/ /\ which = "sa" /\ Sa!Init /\ NoReplays /\ NoLifetimes /\ NoCrypto
       /\ thr = 0 /\ conf = 0 /\ calls = 0 /\ NoTimer /\ NoBoot
    \/ /\ which = "replay" /\ Replay!Init /\ NoSas /\ NoLifetimes /\ NoCrypto
       /\ calls = 0 /\ NoTimer /\ NoBoot
    \/ /\ which = "lifetime" /\ Lifetime!Init /\ NoSas /\ NoReplays /\ NoCrypto
       /\ conf = 0 /\ calls = 0 /\ NoTimer /\ NoBoot
    \/ which = "crypto" /\ Crypto!Init /\ NoIpsec /\ NoTimer /\ NoBoot
    \/ which = "dpdk" /\ Dpdk!Init /\ NoGeneric /\ NoOther /\ calls = 0 /\ NoBoot
    \/ which = "generic" /\ Generic!Init /\ NoDpdk /\ NoOther /\ calls = 0 /\ NoBoot
    \/ which = "boot" /\ Boot!Init /\ NoOther /\ NoTimer

sa_vars == <<sync, sa, freelist, ctl, wrk, notified, created>>
replay_vars == <<top, mask, bucket_arr, accepted, replayed>>
lifetime_vars == <<hard, packets, bytes, post_pkts, post_bytes, tl, done, ok, refused>>
crypto_vars == <<locked, pool, qp>>
ipsec_vars == <<sa_vars, replay_vars, lifetime_vars>>
dpdk_vars == <<tm, rte, free, cb, owner, live>>
generic_vars == <<now, tb, queue, cancelled, scan, hdr, dest, due, resets>>
timer_vars == <<app, has, queued, periodic>>
boot_vars == <<glob, up, eal, loc, count>>
NoTimers == UNCHANGED <<dpdk_vars, generic_vars, timer_vars>>

Next ==
    \/ /\ which = "sa" /\ Sa!Next /\ NoTimers
       /\ UNCHANGED <<which, thr, conf, calls, replay_vars, lifetime_vars, crypto_vars, boot_vars>>
    \/ /\ which = "replay" /\ Replay!Next /\ NoTimers
       /\ UNCHANGED <<which, calls, sa_vars, lifetime_vars, crypto_vars, boot_vars>>
    \/ /\ which = "lifetime" /\ Lifetime!Next /\ NoTimers
       /\ UNCHANGED <<which, conf, calls, sa_vars, replay_vars, crypto_vars, boot_vars>>
    \/ /\ which = "crypto" /\ Crypto!Next /\ NoTimers
       /\ UNCHANGED <<which, ipsec_vars, boot_vars>>
    \/ /\ which = "dpdk" /\ Dpdk!Next
       /\ UNCHANGED <<which, thr, conf, calls, generic_vars, ipsec_vars, crypto_vars, boot_vars>>
    \/ /\ which = "generic" /\ Generic!Next
       /\ UNCHANGED <<which, thr, conf, calls, dpdk_vars, ipsec_vars, crypto_vars, boot_vars>>
    \/ /\ which = "boot" /\ Boot!Next /\ NoTimers
       /\ UNCHANGED <<which, thr, conf, ipsec_vars, crypto_vars>>

Spec ==
    Init /\ [][Next]_<<which, thr, conf, calls, ipsec_vars, crypto_vars, dpdk_vars,
                      generic_vars, timer_vars, boot_vars>>

Symmetry == Permutations(Ctls) \cup Permutations(Workers)
-----------------------------------------------------------------------------
(* Security associations *)

\* An SA a packet is processed with is not destroyed or reused meanwhile, an SA is on the
\* free list or in one hand, and the destroy of one whose disable has completed succeeds:
\* the use count in the state word tells users, disablers and creators apart
SaLifecycle == which = "sa" => /\ Sa!TypeOK /\ Sa!UsedSaLives /\ Sa!FreeListExact
                               /\ Sa!DestroyNeverRefused

\* A lookup finds an SA that matches the packet, was active all along and is the best match
LookupComplete == which = "sa" => Sa!LookupComplete
-----------------------------------------------------------------------------
(* Anti-replay window *)

\* No sequence number is accepted twice, whatever copies arrive and however threads
\* interleave in the update of the window
NoReplay == which = "replay" => Replay!NoReplay

-----------------------------------------------------------------------------
(* Lifetimes and statistics *)

-----------------------------------------------------------------------------
(* Crypto operations *)

\* Every packet of a burst gets the result of its own operation, and what a burst takes back
\* from a shared queue pair are the operations it put there
OwnResult == which = "crypto" => Crypto!OwnResult /\ Crypto!SameOps
-----------------------------------------------------------------------------
(* Timers, on DPDK and those of linux-generic *)

\* A timeout event is with the application, in a timer or in a queue, and in one of them:
\* expiry, cancels, restarts and acknowledgements neither lose nor duplicate it, although
\* linux-generic reads a timer in parts
EventInOnePlace == /\ which = "dpdk" => Dpdk!TypeOK /\ Dpdk!EventInOnePlace
                   /\ which = "generic" => Generic!EventInOnePlace

\* A ticking timer will expire, its DPDK timer is pending or its callback runs; and the
\* callback finds it ticking: cancels, restarts and frees that race with an expiry stop the
\* DPDK timer first or find that it expired
TickingIsPending == which = "dpdk" => Dpdk!TickingIsPending /\ Dpdk!CallbackFindsTicking

\* A timeout carries the expiration the timer was last set to and goes to the queue the
\* timer had then, and a cancelled periodic timer is set at most once more
AsLastSet == which = "generic" => /\ Generic!LastExpiration /\ Generic!RightQueue
                                  /\ Generic!CancelHolds
-----------------------------------------------------------------------------
(* Initialization *)

=============================================================================
