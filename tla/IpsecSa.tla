------------------------------- MODULE IpsecSa -------------------------------
(***************************************************************************)
(* Life of the IPsec security associations (SAs) of                        *)
(* platform/linux-generic/odp_ipsec_sad.c, and the inbound packet path of  *)
(* odp_ipsec.c that looks them up.                                         *)
(*                                                                         *)
(* One word per SA holds its state and a use count.  A lookup takes a use  *)
(* of every SA it inspects, so that the control plane cannot destroy it    *)
(* meanwhile.  Disabling an SA forbids new uses; the SA may be destroyed   *)
(* when the last one ends.  In synchronous mode disable waits for that     *)
(* moment, otherwise a status event in the SA's queue announces it.        *)
(*                                                                         *)
(* A CAS loop on the state word is one step: it takes effect in its last   *)
(* CAS, and fails on its last load.                                        *)
(***************************************************************************)
EXTENDS Integers, Sequences, FiniteSets, SequencesExt

CONSTANTS NumSa,        \* max_num_sa
          Ctls,         \* application threads that create and destroy SAs
          Workers,      \* threads that process inbound packets
          Params,       \* SA parameters: lookup mode, SPI and destination
          Pkts,         \* packets: SPI and destination
          Modes,        \* values of sync to start with
          MaxCreate     \* bound: SAs created in a run

VARIABLES sync,         \* ipsec_config: inbound_mode is ODP_IPSEC_OP_MODE_SYNC
          sa,           \* ipsec_sa_tbl->ipsec_sa
          freelist,     \* sa_freelist.head and the next_sa links behind it
          ctl, wrk,     \* the threads
          notified,     \* SAs whose status event is in the queue
          created       \* SAs created so far; names the life an SA is in

vars == <<sync, sa, freelist, ctl, wrk, notified, created>>

Idx == 0..NumSa - 1
NoSa == -1

\* The state word: a mode in the two upper bits and a use count below
Active(n) == [mode |-> "active", uses |-> n]
Disable(n) == [mode |-> "disable", uses |-> n]
Free == [mode |-> "free", uses |-> 0]

IdleCtl == [pc |-> "idle", sa |-> NoSa]
IdleWrk == [pc |-> "idle", pkt |-> CHOOSE p \in Pkts : TRUE, i |-> 0, best |-> NoSa,
            sa |-> NoSa, given |-> FALSE, queue |-> FALSE, life |-> 0, seen |-> {}]

Init ==
    /\ sync \in Modes
    /\ sa = [i \in Idx |-> [state |-> Free, param |-> CHOOSE p \in Params : TRUE,
                            queue |-> FALSE, session |-> FALSE, life |-> 0]]
    /\ freelist = [i \in 1..NumSa |-> i - 1]
    /\ ctl = [c \in Ctls |-> IdleCtl]
    /\ wrk = [w \in Workers |-> IdleWrk]
    /\ notified = {}
    /\ created = 0

-----------------------------------------------------------------------------
(* Control plane *)

\* ipsec_sa_reserve under the free list lock
Create(c) ==
    /\ ctl[c].pc = "idle"
    /\ created < MaxCreate
    /\ freelist # <<>>
    /\ ctl' = [ctl EXCEPT ![c] = [pc |-> "fill", sa |-> Head(freelist)]]
    /\ freelist' = Tail(freelist)
    /\ created' = created + 1
    /\ sa' = [sa EXCEPT ![Head(freelist)].life = created']
    /\ UNCHANGED <<sync, wrk, notified>>

\* The fields are written and the crypto session created while the state is still free;
\* ipsec_sa_publish makes the SA visible.
CreatePublish(c) ==
    /\ ctl[c].pc = "fill"
    /\ \E p \in Params :
           sa' = [sa EXCEPT ![ctl[c].sa] = [@ EXCEPT !.state = Active(0), !.param = p,
                                                     !.queue = ~sync, !.session = TRUE]]
    /\ ctl' = [ctl EXCEPT ![c].pc = "own"]
    /\ notified' = notified \ {ctl[c].sa}
    /\ UNCHANGED <<sync, freelist, wrk, created>>

\* ipsec_sa_release under the free list lock
Release(s) ==
    /\ freelist' = <<s>> \o freelist
    /\ sa' = [sa EXCEPT ![s].state = Free, ![s].session = FALSE]

\* Bad parameters or no crypto session
CreateFail(c) ==
    /\ ctl[c].pc = "fill"
    /\ Release(ctl[c].sa)
    /\ ctl' = [ctl EXCEPT ![c] = IdleCtl]
    /\ UNCHANGED <<sync, wrk, notified, created>>

\* odp_ipsec_sa_disable up to the CAS.  The application does not call it while it
\* passes the SA to an operation itself.
DisableSa(c) ==
    LET s == ctl[c].sa
        old == sa[s].state
    IN  /\ ctl[c].pc = "own"
        /\ \A w \in Workers : ~(wrk[w].given /\ wrk[w].sa = s)
        /\ old.mode = "active"
        /\ sa' = [sa EXCEPT ![s].state = Disable(old.uses)]
        /\ IF sa[s].queue
           THEN /\ notified' = IF old = Active(0) THEN notified \cup {s} ELSE notified
                /\ ctl' = [ctl EXCEPT ![c].pc = "event"]
           ELSE /\ ctl' = [ctl EXCEPT ![c].pc = "spin"]
                /\ UNCHANGED notified
        /\ UNCHANGED <<sync, freelist, wrk, created>>

\* Synchronous mode: disable returns when no use is left
DisableReturn(c) ==
    /\ ctl[c].pc = "spin"
    /\ sa[ctl[c].sa].state = Disable(0)
    /\ ctl' = [ctl EXCEPT ![c].pc = "disabled"]
    /\ UNCHANGED <<sync, sa, freelist, wrk, notified, created>>

\* Otherwise the application waits for the status event
GetEvent(c) ==
    /\ ctl[c].pc = "event"
    /\ ctl[c].sa \in notified
    /\ ctl' = [ctl EXCEPT ![c].pc = "disabled"]
    /\ UNCHANGED <<sync, sa, freelist, wrk, notified, created>>

\* Faulty form: uses are not asked about.
Destroy_InUse(c) ==
    LET s == ctl[c].sa
    IN  /\ ctl[c].pc \in {"spin", "event", "disabled"}
        /\ Release(s) /\ ctl' = [ctl EXCEPT ![c] = IdleCtl]
        /\ UNCHANGED <<sync, wrk, notified, created>>

\* odp_ipsec_sa_destroy; it refuses an SA that still has a use.
Destroy(c) ==
    LET s == ctl[c].sa
    IN  /\ ctl[c].pc = "disabled"
        /\ IF sa[s].state = Disable(0)
           THEN Release(s) /\ ctl' = [ctl EXCEPT ![c] = IdleCtl]
           ELSE ctl' = [ctl EXCEPT ![c].pc = "refused"] /\ UNCHANGED <<sa, freelist>>
        /\ UNCHANGED <<sync, wrk, notified, created>>

-----------------------------------------------------------------------------
(* Packet processing *)

\* ipsec_sa_lock can take a use
Lockable(s) == sa[s].state.mode = "active"

\* ipsec_sa_unlock returns whether the value its CAS replaced, not the one it stored,
\* is the state of a disabled SA without uses.
LastUse(old) == old = Disable(0)

\* _odp_ipsec_sa_unuse of every SA of S
Unuse(S) ==
    /\ sa' = [s \in Idx |-> IF s \in S THEN [sa[s] EXCEPT !.state.uses = @ - 1] ELSE sa[s]]
    /\ notified' = notified \cup {s \in S : LastUse(sa[s].state) /\ sa[s].queue}

Matches(s, p) == sa[s].param.spi = p.spi
DstMatch(s, p) == sa[s].param.lookup = "dst" /\ Matches(s, p) /\ sa[s].param.dst = p.dst
SpiMatch(s, p) == sa[s].param.lookup = "spi" /\ Matches(s, p)

\* SAs that have been published and not disabled since a lookup of p began
ActiveFor(p, match(_, _)) == {s \in Idx : sa[s].state.mode = "active" /\ match(s, p)}
Lives(S) == {<<s, sa[s].life>> : s \in S}

\* odp_ipsec_in, odp_ipsec_in_enq or _odp_ipsec_try_inline on a packet without an SA
StartLookup(w) ==
    /\ wrk[w].pc = "idle"
    /\ \E p \in Pkts :
           wrk' = [wrk EXCEPT ![w] = [IdleWrk EXCEPT
               !.pc = "scan", !.pkt = p,
               !.seen = Lives(ActiveFor(p, DstMatch) \cup ActiveFor(p, SpiMatch))]]
    /\ UNCHANGED <<sync, sa, freelist, ctl, notified, created>>

\* The same calls with the SA as a parameter take no use.
StartGiven(w) ==
    /\ wrk[w].pc = "idle"
    /\ \E c \in Ctls, p \in Pkts :
           /\ ctl[c].pc = "own"
           /\ wrk' = [wrk EXCEPT ![w] = [IdleWrk EXCEPT
                  !.pc = "process", !.pkt = p, !.sa = ctl[c].sa, !.given = TRUE,
                  !.life = sa[ctl[c].sa].life]]
    /\ UNCHANGED <<sync, sa, freelist, ctl, notified, created>>

\* _odp_ipsec_sa_lookup: the lock of the next SA
LookupLock(w) ==
    LET i == wrk[w].i
    IN  /\ wrk[w].pc = "scan" /\ i < NumSa
        /\ IF Lockable(i)
           THEN /\ sa' = [sa EXCEPT ![i].state.uses = @ + 1]
                /\ wrk' = [wrk EXCEPT ![w].pc = "inspect", ![w].life = sa[i].life]
           ELSE /\ wrk' = [wrk EXCEPT ![w].i = i + 1]
                /\ UNCHANGED sa
        /\ UNCHANGED <<sync, freelist, ctl, notified, created>>

\* Faulty form: the use of the best SA so far is not given back.
LookupInspect_KeepBest(w) ==
    LET i == wrk[w].i
        p == wrk[w].pkt
    IN  /\ wrk[w].pc = "inspect"
        /\ IF DstMatch(i, p)
           THEN /\ wrk' = [wrk EXCEPT ![w].pc = "process", ![w].sa = i]
                /\ UNCHANGED <<sa, notified>>
           ELSE IF wrk[w].best = NoSa /\ SpiMatch(i, p)
           THEN /\ wrk' = [wrk EXCEPT ![w].pc = "scan", ![w].i = i + 1, ![w].life = 0, ![w].best = i]
                /\ UNCHANGED <<sa, notified>>
           ELSE /\ wrk' = [wrk EXCEPT ![w].pc = "scan", ![w].i = i + 1, ![w].life = 0]
                /\ Unuse({i})
        /\ UNCHANGED <<sync, freelist, ctl, created>>

\* A match on SPI and destination wins at once; the first one on SPI alone is kept as
\* the best so far; any other SA is given back.
LookupInspect(w) ==
    LET i == wrk[w].i
        p == wrk[w].pkt
        best == wrk[w].best
    IN  /\ wrk[w].pc = "inspect"
        /\ IF DstMatch(i, p)
           THEN /\ wrk' = [wrk EXCEPT ![w].pc = "process", ![w].sa = i]
                /\ Unuse({best} \ {NoSa})
           ELSE IF best = NoSa /\ SpiMatch(i, p)
           THEN /\ wrk' = [wrk EXCEPT ![w].pc = "scan", ![w].i = i + 1, ![w].life = 0, ![w].best = i]
                /\ UNCHANGED <<sa, notified>>
           ELSE /\ wrk' = [wrk EXCEPT ![w].pc = "scan", ![w].i = i + 1, ![w].life = 0]
                /\ Unuse({i})
        /\ UNCHANGED <<sync, freelist, ctl, created>>

\* Faulty form: the scan ends at the first match on the SPI.
LookupEnd_Best(w) ==
    LET best == wrk[w].best
    IN  /\ wrk[w].pc = "scan" /\ (wrk[w].i = NumSa \/ best # NoSa)
        /\ wrk' = [wrk EXCEPT ![w] = IF best = NoSa THEN [@ EXCEPT !.pc = "missed"]
                                     ELSE [@ EXCEPT !.pc = "process", !.sa = best,
                                                    !.life = sa[best].life]]
        /\ UNCHANGED <<sync, sa, freelist, ctl, notified, created>>

\* No SA: the packet is returned with an error and goes to no SA queue.
LookupEnd(w) ==
    LET best == wrk[w].best
    IN  /\ wrk[w].pc = "scan" /\ wrk[w].i = NumSa
        /\ wrk' = [wrk EXCEPT ![w] = IF best = NoSa THEN [@ EXCEPT !.pc = "missed"]
                                     ELSE [@ EXCEPT !.pc = "process", !.sa = best,
                                                    !.life = sa[best].life]]
        /\ UNCHANGED <<sync, sa, freelist, ctl, notified, created>>

Missed(w) ==
    /\ wrk[w].pc = "missed"
    /\ wrk' = [wrk EXCEPT ![w] = IdleWrk]
    /\ UNCHANGED <<sync, sa, freelist, ctl, notified, created>>

\* Crypto and replay window work on the SA, and ipsec_in_finalize reads its queue;
\* then finish_packet_proc, or try_inline, gives the use back.
Finish(w) ==
    /\ wrk[w].pc = "process"
    /\ Unuse(IF wrk[w].given THEN {} ELSE {wrk[w].sa})
    /\ wrk' = [wrk EXCEPT ![w].pc = "result", ![w].queue = sa[wrk[w].sa].queue]
    /\ UNCHANGED <<sync, freelist, ctl, created>>

\* The result is enqueued after that: at once, or by the packet input in inline mode.
Result(w) ==
    /\ wrk[w].pc = "result"
    /\ wrk' = [wrk EXCEPT ![w] = IdleWrk]
    /\ UNCHANGED <<sync, sa, freelist, ctl, notified, created>>

-----------------------------------------------------------------------------
Control(c) ==
    \/ Create(c) \/ CreatePublish(c) \/ CreateFail(c)
    \/ DisableSa(c) \/ DisableReturn(c) \/ GetEvent(c) \/ Destroy(c)

Step(w) ==
    \/ LookupLock(w) \/ LookupInspect(w) \/ LookupEnd(w) \/ Missed(w)
    \/ Finish(w) \/ Result(w)

Next ==
    \/ \E c \in Ctls : Control(c)
    \/ \E w \in Workers : StartLookup(w) \/ StartGiven(w) \/ Step(w)

Spec == Init /\ [][Next]_vars

-----------------------------------------------------------------------------
States == [mode : {"active", "disable", "free"}, uses : 0..Cardinality(Workers)]

\* Types of the state; a use count is never negative and an SA that is free has none.
TypeOK ==
    /\ sa \in [Idx -> [state : States, param : Params, queue : BOOLEAN, session : BOOLEAN,
                       life : 0..MaxCreate]]
    /\ freelist \in BoundedSeq(Idx, NumSa)
    /\ ctl \in [Ctls -> [pc : {"idle", "fill", "own", "spin", "event", "disabled", "refused"},
                         sa : Idx \cup {NoSa}]]
    /\ \A w \in Workers :
           /\ wrk[w].pc \in {"idle", "scan", "inspect", "missed", "process", "result"}
           /\ {wrk[w].sa, wrk[w].best} \subseteq Idx \cup {NoSa}
    /\ \A i \in Idx : sa[i].state.mode = "free" => sa[i].state.uses = 0

\* The SA a worker inspects, keeps as the best match or processes a packet with is not
\* destroyed meanwhile: it still has its crypto session, and is in the life the worker
\* found it in.  (ipsec_sa_lock, ipsec_sa_unlock and the test of odp_ipsec_sa_destroy.)
UsedSaLives ==
    \A w \in Workers :
        /\ wrk[w].pc = "inspect" => sa[wrk[w].i].session /\ sa[wrk[w].i].life = wrk[w].life
        /\ wrk[w].pc = "process" => sa[wrk[w].sa].session /\ sa[wrk[w].sa].life = wrk[w].life
        /\ wrk[w].pc \in {"scan", "inspect"} /\ wrk[w].best # NoSa => sa[wrk[w].best].session

\* An SA that is on the free list is in no other hand, and is there once: an SA cannot
\* be given to two creators although create releases on its error path and destroy too.
FreeListExact ==
    /\ IsInjective(freelist)
    /\ \A i \in Idx :
           \/ i \in Range(freelist) /\ sa[i].state = Free /\ \A c \in Ctls : ctl[c].sa # i
           \/ i \notin Range(freelist) /\ Cardinality({c \in Ctls : ctl[c].sa = i}) = 1

\* Disable has returned, or its status event has arrived, only when the SA can be
\* destroyed: odp_ipsec_sa_destroy never refuses an application that waited for it.
DestroyNeverRefused == \A c \in Ctls : ctl[c].pc # "refused"

\* SAs that could have been found during the whole lookup of a worker
Throughout(w) ==
    {s \in Idx : sa[s].state.mode = "active" /\ <<s, sa[s].life>> \in wrk[w].seen}

\* The scan of the table finds what was there during all of it: a lookup that fails had
\* no match throughout, and one that settles for a match on SPI alone had no match on
\* the destination throughout.
LookupComplete ==
    \A w \in Workers :
        LET p == wrk[w].pkt
        IN  /\ wrk[w].pc = "missed" =>
                   \A s \in Throughout(w) : ~DstMatch(s, p) /\ ~SpiMatch(s, p)
            /\ wrk[w].pc = "process" /\ ~wrk[w].given /\ SpiMatch(wrk[w].sa, p) =>
                   \A s \in Throughout(w) : ~DstMatch(s, p)

\* Disable terminates: the uses it waits for end, and no lookup takes a new one.
DisableEnds == \A c \in Ctls : (ctl[c].pc = "spin") ~> (ctl[c].pc # "spin")

\* API documentation of odp_ipsec_sa_disable: in asynchronous mode a status event says
\* when the SA can be destroyed, so the application that waits for it gets it.
StatusEventComes == \A c \in Ctls : (ctl[c].pc = "event") ~> (ctl[c].pc # "event")

\* Threads run, and the application collects events and destroys what it disabled.
FairSpec ==
    /\ Spec
    /\ \A w \in Workers : WF_vars(Step(w))
    /\ \A c \in Ctls : WF_vars(DisableReturn(c) \/ GetEvent(c))
=============================================================================
