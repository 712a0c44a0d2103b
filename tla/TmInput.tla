------------------------------- MODULE TmInput -------------------------------
(***************************************************************************)
(* How threads hand packets and configuration changes to the thread of a   *)
(* traffic manager: platform/linux-generic/odp_traffic_mngr.c.             *)
(*                                                                         *)
(* - tm_enqueue: the barrier the first packet starts the TM thread with,   *)
(*   the ring of input work items, whose room is tested before its lock is *)
(*   taken and whose counter changes after the lock is released, and the   *)
(*   packet counts that are raised last;                                   *)
(* - signal_request, check_for_request and signal_request_done: the main   *)
(*   loop stands still while another thread changes a profile;             *)
(* - odp_tm_destroy: the main loop ends.                                   *)
(*                                                                         *)
(* A packet the TM thread takes leaves at once (TmTree models its way).    *)
(***************************************************************************)
EXTENDS Integers, Sequences, SequencesExt

CONSTANTS Enqueuers,    \* threads that call odp_tm_enq
          Requesters,   \* threads that change profiles
          RingSize,     \* INPUT_WORK_RING_SIZE
          MaxEnq, MaxReq  \* bounds: calls of a thread

VARIABLES bar,          \* tm_group_barrier
          first_enq, running, destroying,
          ring, head, tail, cnt,          \* input_work_queue
          depth,        \* pkt_cnt of the queue counts
          request, serving, done,         \* the three counters of a request
          tm, enq, req,                   \* the threads
          appended, taken                 \* history: packets put in and taken out

vars == <<bar, first_enq, running, destroying, ring, head, tail, cnt, depth, request,
          serving, done, tm, enq, req, appended, taken>>

queueVars == <<ring, head, tail, cnt, appended, taken>>
reqVars == <<request, serving, done, req>>

Init ==
    /\ bar = 0 /\ first_enq = FALSE /\ running = FALSE /\ destroying = FALSE
    /\ ring = [i \in 0..RingSize - 1 |-> <<>>]
    /\ head = 0 /\ tail = 0 /\ cnt = 0 /\ depth = 0
    /\ request = 0 /\ serving = 0 /\ done = 0
    /\ tm = [pc |-> "start", wasless |-> TRUE, num |-> 0]
    /\ enq = [e \in Enqueuers |-> [pc |-> "idle", wasless |-> TRUE, n |-> 0]]
    /\ req = [r \in Requesters |-> [pc |-> "idle", num |-> 0, n |-> 0]]
    /\ appended = <<>> /\ taken = <<>>

-----------------------------------------------------------------------------
(* odp_barrier_wait with a count of 2.  The increment and the wrap are one step: the module  *)
(* Barrier has them apart. *)
Arrive == bar' = (bar + 1) % 4
WasLess == bar < 2
Passed(wasless, last) == last \/ (bar < 2) # wasless

\* The thread that wraps the counter around does not wait
Waiting == IF bar = 3 THEN "passed" ELSE "barrier"

-----------------------------------------------------------------------------
(* odp_tm_enq *)

\* tm_enqueue reads first_enq, ...
Enq(e) ==
    /\ enq[e].pc = "idle" /\ enq[e].n < MaxEnq /\ ~destroying
    /\ enq' = [enq EXCEPT ![e].pc = IF first_enq THEN "room" ELSE "arrive", ![e].n = @ + 1]
    /\ UNCHANGED <<bar, first_enq, running, destroying, queueVars, depth, reqVars, tm>>

\* ... enters the barrier, ...
EnqArrive(e) ==
    /\ enq[e].pc = "arrive"
    /\ Arrive
    /\ enq' = [enq EXCEPT ![e].pc = Waiting, ![e].wasless = WasLess]
    /\ UNCHANGED <<first_enq, running, destroying, queueVars, depth, reqVars, tm>>

\* ... and sets first_enq when it is through
EnqPass(e) ==
    /\ enq[e].pc \in {"barrier", "passed"}
    /\ Passed(enq[e].wasless, enq[e].pc = "passed")
    /\ first_enq' = TRUE
    /\ enq' = [enq EXCEPT ![e].pc = "room"]
    /\ UNCHANGED <<bar, running, destroying, queueVars, depth, reqVars, tm>>

\* random_early_discard may drop the packet; its thresholds are not modelled
EnqDrop(e) ==
    /\ enq[e].pc = "room"
    /\ enq' = [enq EXCEPT ![e].pc = "idle"]
    /\ UNCHANGED <<bar, first_enq, running, destroying, queueVars, depth, reqVars, tm>>

\* input_work_queue_append: no room, ...
EnqRoom(e) ==
    /\ enq[e].pc = "room"
    /\ enq' = [enq EXCEPT ![e].pc = IF cnt < RingSize THEN "append" ELSE "idle"]
    /\ UNCHANGED <<bar, first_enq, running, destroying, queueVars, depth, reqVars, tm>>

\* ... the item is written under the lock, ...
EnqAppend(e) ==
    /\ enq[e].pc = "append"
    /\ ring' = [ring EXCEPT ![tail] = <<e, enq[e].n>>]
    /\ tail' = (tail + 1) % RingSize
    /\ appended' = Append(appended, <<e, enq[e].n>>)
    /\ enq' = [enq EXCEPT ![e].pc = "inc"]
    /\ UNCHANGED <<bar, first_enq, running, destroying, head, cnt, taken, depth, reqVars, tm>>

\* ... and counted after it
EnqInc(e) ==
    /\ enq[e].pc = "inc"
    /\ cnt' = cnt + 1
    /\ enq' = [enq EXCEPT ![e].pc = "depth"]
    /\ UNCHANGED <<bar, first_enq, running, destroying, ring, head, tail, appended, taken, depth,
                   reqVars, tm>>

\* tm_queue_cnts_increment
EnqDepth(e) ==
    /\ enq[e].pc = "depth"
    /\ depth' = depth + 1
    /\ enq' = [enq EXCEPT ![e].pc = "idle"]
    /\ UNCHANGED <<bar, first_enq, running, destroying, queueVars, reqVars, tm>>

EnqStep(e) ==
    EnqArrive(e) \/ EnqPass(e) \/ EnqRoom(e) \/ EnqAppend(e) \/ EnqInc(e) \/ EnqDepth(e)

-----------------------------------------------------------------------------
(* Changes of a profile while the main loop runs *)

Request(r) ==
    /\ req[r].pc = "idle" /\ req[r].n < MaxReq /\ running
    /\ request' = request + 1
    /\ req' = [req EXCEPT ![r] = [pc |-> "wait", num |-> request + 1, n |-> @.n + 1]]
    /\ UNCHANGED <<bar, first_enq, running, destroying, queueVars, depth, serving, done, tm, enq>>

RequestServed(r) ==
    /\ req[r].pc = "wait" /\ serving = req[r].num
    /\ req' = [req EXCEPT ![r].pc = "update"]
    /\ UNCHANGED <<bar, first_enq, running, destroying, queueVars, depth, request, serving, done,
                   tm, enq>>

RequestDone(r) ==
    /\ req[r].pc = "update"
    /\ done' = done + 1
    /\ req' = [req EXCEPT ![r].pc = "idle"]
    /\ UNCHANGED <<bar, first_enq, running, destroying, queueVars, depth, request, serving, tm, enq>>

ReqStep(r) == RequestServed(r) \/ RequestDone(r)

\* odp_tm_destroy, once the main loop runs
Destroy ==
    /\ running /\ ~destroying
    /\ destroying' = TRUE
    /\ UNCHANGED <<bar, first_enq, running, queueVars, depth, reqVars, tm, enq>>

-----------------------------------------------------------------------------
(* tm_system_thread *)

MainStart ==
    /\ tm.pc = "start"
    /\ Arrive
    /\ tm' = [tm EXCEPT !.pc = Waiting, !.wasless = WasLess]
    /\ UNCHANGED <<first_enq, running, destroying, queueVars, depth, reqVars, enq>>

StartPass ==
    /\ tm.pc \in {"barrier", "passed"} /\ Passed(tm.wasless, tm.pc = "passed")
    /\ running' = TRUE
    /\ tm' = [tm EXCEPT !.pc = "request"]
    /\ UNCHANGED <<bar, first_enq, destroying, queueVars, depth, reqVars, enq>>

\* Faulty: the main loop goes on without waiting for the requester
CheckForRequest_NoWait ==
    /\ tm.pc = "request"
    /\ serving' = IF serving = request THEN serving ELSE serving + 1
    /\ tm' = [tm EXCEPT !.pc = "work", !.num = request]
    /\ UNCHANGED <<bar, first_enq, running, destroying, queueVars, depth, request, done, req, enq>>

CheckForRequest ==
    /\ tm.pc = "request"
    /\ IF serving = request
       THEN tm' = [tm EXCEPT !.pc = "work"] /\ UNCHANGED serving
       ELSE /\ serving' = serving + 1
            /\ tm' = [tm EXCEPT !.pc = "serve", !.num = request]
    /\ UNCHANGED <<bar, first_enq, running, destroying, queueVars, depth, request, done, req, enq>>


Served ==
    /\ tm.pc = "serve" /\ done = tm.num
    /\ tm' = [tm EXCEPT !.pc = "work"]
    /\ UNCHANGED <<bar, first_enq, running, destroying, queueVars, depth, reqVars, enq>>

Work ==
    /\ tm.pc = "work"
    /\ tm' = [tm EXCEPT !.pc = IF cnt # 0 THEN "take" ELSE "end"]
    /\ UNCHANGED <<bar, first_enq, running, destroying, queueVars, depth, reqVars, enq>>

\* input_work_queue_remove: the item is read under the lock, ...
Take ==
    /\ tm.pc = "take"
    /\ taken' = Append(taken, ring[head])
    /\ head' = (head + 1) % RingSize
    /\ tm' = [tm EXCEPT !.pc = "dec"]
    /\ UNCHANGED <<bar, first_enq, running, destroying, ring, tail, cnt, appended, depth, reqVars,
                   enq>>

\* ... and counted after it
Dec ==
    /\ tm.pc = "dec"
    /\ cnt' = cnt - 1
    /\ tm' = [tm EXCEPT !.pc = "consume"]
    /\ UNCHANGED <<bar, first_enq, running, destroying, ring, head, tail, appended, taken, depth,
                   reqVars, enq>>

\* The packet is sent: tm_queue_cnts_decrement
Consume ==
    /\ tm.pc = "consume"
    /\ depth' = depth - 1
    /\ tm' = [tm EXCEPT !.pc = "end"]
    /\ UNCHANGED <<bar, first_enq, running, destroying, queueVars, reqVars, enq>>

LoopEnd ==
    /\ tm.pc = "end"
    /\ tm' = [tm EXCEPT !.pc = IF destroying THEN "exit" ELSE "request"]
    /\ UNCHANGED <<bar, first_enq, running, destroying, queueVars, depth, reqVars, enq>>

TmStep ==
    \/ MainStart \/ StartPass \/ CheckForRequest \/ Served
    \/ Work \/ Take \/ Dec \/ Consume \/ LoopEnd

Next ==
    \/ \E e \in Enqueuers :
           \/ Enq(e) \/ EnqArrive(e) \/ EnqPass(e) \/ EnqDrop(e)
           \/ EnqRoom(e) \/ EnqAppend(e) \/ EnqInc(e) \/ EnqDepth(e)
    \/ \E r \in Requesters : Request(r) \/ RequestServed(r) \/ RequestDone(r)
    \/ Destroy
    \/ MainStart \/ StartPass \/ CheckForRequest \/ Served
    \/ Work \/ Take \/ Dec \/ Consume \/ LoopEnd

Spec == Init /\ [][Next]_vars

\* Every thread runs
FairSpec ==
    /\ Spec
    /\ WF_vars(TmStep)
    /\ \A e \in Enqueuers : WF_vars(EnqStep(e))
    /\ \A r \in Requesters : WF_vars(ReqStep(r))

-----------------------------------------------------------------------------
\* The TM thread gets the packets that were accepted, each once and in their order: the ring
\* is not overrun, although room is tested outside the lock (input_work_queue_append and
\* input_work_queue_remove).
TakenAreAppended == IsPrefix(taken, appended)

\* While a thread changes a profile it was served for, the main loop touches neither the
\* tree nor the input queue (check_for_request).
RequestExclusive ==
    \A r \in Requesters : req[r].pc = "update" => tm.pc = "serve"

\* Every call returns: odp_tm_enq passes the start barrier, and a profile change is served
\* as long as the system is not destroyed.
CallsReturn ==
    /\ \A e \in Enqueuers : enq[e].pc # "idle" ~> enq[e].pc = "idle"
    /\ \A r \in Requesters : req[r].pc # "idle" ~> req[r].pc = "idle" \/ destroying
=============================================================================
