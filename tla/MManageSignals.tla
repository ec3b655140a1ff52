--------------------------- MODULE MManageSignals ---------------------------
(***************************************************************************)
(* How the memory manager of working/ takes its signals (mmanage.c).  One  *)
(* handler, sighandler, is installed for SIGUSR1, SIGUSR2 and SIGINT with  *)
(* an empty mask, so that each signal is blocked only in its own handler   *)
(* and the handlers of the others interrupt it.  They share the variable   *)
(* signal_number with each other and with the main loop.  page_fault is    *)
(* one step here; Paging has the detail.                                   *)
(*                                                                         *)
(* Some names differ from those of Lifecycle so that ManagerProofs can be  *)
(* about both.                                                             *)
(***************************************************************************)
EXTENDS Integers, Sequences, FiniteSets

CONSTANTS UserSignals,   \* what users send, of "USR2" and "INT" in the code
          ClientFaults   \* whether a client runs and faults

Signals == {"USR1"} \union UserSignals

ASSUME SignalsAssumption == "USR1" \notin UserSignals /\ ClientFaults \in BOOLEAN

VARIABLES
  pending,        \* signals sent and not yet delivered; they do not queue
  stack,          \* the handlers that are active, the running one last
  signal_number,  \* the global of that name, "none" for 0
  main,           \* where signal_proccessing_loop is
  woken,          \* a handler has run since pause() was entered
  mapped,         \* the shared memory is mapped into the manager
  crashed,        \* the manager touched memory it had unmapped
  adm_sema,       \* adm.sema
  caller          \* the client runs or waits in sem_wait

loop == <<main, woken, mapped>>
svars == <<pending, stack, signal_number, loop, crashed, adm_sema, caller>>

\* A handler's frame: its signal, its next statement, and whether another
\* handler was entered between its store to signal_number and its test of it.
Frame(s) == [sig |-> s, at |-> "store", hit |-> FALSE]

Depth == Len(stack)
Top   == stack[Depth]
Active == {stack[i].sig : i \in 1 .. Depth}

Alive == main # "exited" /\ ~crashed
MainRuns == Alive /\ stack = <<>>

Continue(at) == stack' = [stack EXCEPT ![Depth].at = at]

SignalsInit ==
  /\ pending = {} /\ stack = <<>> /\ signal_number = "none"
  /\ main = "reset" /\ woken = FALSE /\ mapped = TRUE /\ crashed = FALSE
  /\ adm_sema = 0 /\ caller = "run"

-----------------------------------------------------------------------------
(* The processes that send signals *)

\* vmem_read or vmem_write finds its page absent and calls kill.
SendUsr1 ==
  /\ ClientFaults /\ caller = "run" /\ Alive
  /\ caller' = "wait"
  /\ pending' = pending \union {"USR1"}
  /\ UNCHANGED <<stack, signal_number, loop, crashed, adm_sema>>

\* sem_wait returns.
SemWaitReturns ==
  /\ caller = "wait" /\ adm_sema > 0
  /\ adm_sema' = adm_sema - 1
  /\ caller' = "run"
  /\ UNCHANGED <<pending, stack, signal_number, loop, crashed>>

\* dump() of vmaccess.c, or a user at the terminal.
UserSignal == \E s \in UserSignals :
  /\ Alive
  /\ pending' = pending \union {s}
  /\ UNCHANGED <<stack, signal_number, loop, crashed, adm_sema, caller>>

-----------------------------------------------------------------------------
(* sighandler, interrupted by the signals it does not block *)

MarkHit(st) == IF st # <<>> /\ st[Len(st)].at = "test"
                 THEN [st EXCEPT ![Len(st)].hit = TRUE] ELSE st

NotBlocked(s) == s \notin Active

Deliver(s) ==
  /\ Alive /\ s \in pending /\ NotBlocked(s)
  /\ pending' = pending \ {s}
  /\ stack' = Append(MarkHit(stack), Frame(s))
  /\ woken' = (woken \/ main = "paused")
  /\ UNCHANGED <<signal_number, main, mapped, crashed, adm_sema, caller>>

HandlerAt(at) == Alive /\ stack # <<>> /\ Top.at = at

\* (Faulty: a signal that has not been taken care of is not overwritten.)
StoreIfNone ==
  /\ HandlerAt("store")
  /\ signal_number' = IF signal_number = "none" THEN Top.sig ELSE signal_number
  /\ Continue("test")
  /\ UNCHANGED <<pending, loop, crashed, adm_sema, caller>>

\* signal_number = signo.
StoreNumber ==
  /\ HandlerAt("store")
  /\ signal_number' = Top.sig
  /\ Continue("test")
  /\ UNCHANGED <<pending, loop, crashed, adm_sema, caller>>

\* (Faulty: every signal is taken for a page fault.)
NoTest ==
  /\ HandlerAt("test")
  /\ Continue("notice")
  /\ UNCHANGED <<pending, signal_number, loop, crashed, adm_sema, caller>>

\* case_page_fault: is it SIGUSR1?
TestNumber ==
  /\ HandlerAt("test")
  /\ Continue(IF signal_number = "USR1" THEN "notice" ELSE "skip")
  /\ UNCHANGED <<pending, signal_number, loop, crashed, adm_sema, caller>>

\* (Faulty: noticed without its reset.)
NoticeOnly ==
  /\ HandlerAt("notice")
  /\ Continue("fault")
  /\ UNCHANGED <<pending, signal_number, loop, crashed, adm_sema, caller>>

\* noticed: signal_number = 0.
NoticeFault ==
  /\ HandlerAt("notice")
  /\ signal_number' = "none"
  /\ Continue("fault")
  /\ UNCHANGED <<pending, loop, crashed, adm_sema, caller>>

\* (Faulty: page_fault without its sem_post.)
FaultWithoutPost ==
  /\ HandlerAt("fault")
  /\ crashed' = ~mapped
  /\ Continue("done")
  /\ UNCHANGED <<pending, signal_number, loop, adm_sema, caller>>

\* page_fault, which works on the shared memory and ends with sem_post.
PageFault ==
  /\ HandlerAt("fault")
  /\ crashed' = ~mapped
  /\ adm_sema' = IF mapped THEN adm_sema + 1 ELSE adm_sema
  /\ Continue("done")
  /\ UNCHANGED <<pending, signal_number, loop, caller>>

Return ==
  /\ HandlerAt("skip") \/ HandlerAt("done")
  /\ stack' = SubSeq(stack, 1, Depth - 1)
  /\ UNCHANGED <<pending, signal_number, loop, crashed, adm_sema, caller>>

-----------------------------------------------------------------------------
(* signal_proccessing_loop *)

\* signal_number = 0 at the top of the loop.
ResetNumber ==
  /\ MainRuns /\ main = "reset"
  /\ signal_number' = "none"
  /\ main' = "pause"
  /\ UNCHANGED <<pending, stack, woken, mapped, crashed, adm_sema, caller>>

\* pause() is entered; signals handled before this do not end it.
EnterPause ==
  /\ MainRuns /\ main = "pause"
  /\ main' = "paused"
  /\ woken' = FALSE
  /\ UNCHANGED <<pending, stack, signal_number, mapped, crashed, adm_sema, caller>>

\* (Faulty: the loop resets signal_number after pause() instead of before.)
ResetAfterPause ==
  /\ MainRuns /\ main = "paused" /\ woken
  /\ main' = "isUsr2"
  /\ signal_number' = "none"
  /\ UNCHANGED <<pending, stack, woken, mapped, crashed, adm_sema, caller>>

\* pause() returns once a handler has run.
LeavePause ==
  /\ MainRuns /\ main = "paused" /\ woken
  /\ main' = "isUsr2"
  /\ UNCHANGED <<pending, stack, signal_number, woken, mapped, crashed, adm_sema,
                 caller>>

IsUsr2 ==
  /\ MainRuns /\ main = "isUsr2"
  /\ main' = IF signal_number = "USR2" THEN "dump" ELSE "isInt"
  /\ UNCHANGED <<pending, stack, signal_number, woken, mapped, crashed, adm_sema,
                 caller>>

\* noticed and dump_vmem_structure.
Dump ==
  /\ MainRuns /\ main = "dump"
  /\ signal_number' = "none"
  /\ main' = "reset"
  /\ UNCHANGED <<pending, stack, woken, mapped, crashed, adm_sema, caller>>

IsInt ==
  /\ MainRuns /\ main = "isInt"
  /\ main' = IF signal_number = "INT" THEN "quit" ELSE "reset"
  /\ UNCHANGED <<pending, stack, signal_number, woken, mapped, crashed, adm_sema,
                 caller>>

\* noticed, and munmap, the first statement of cleanup.
Quit ==
  /\ MainRuns /\ main = "quit"
  /\ signal_number' = "none"
  /\ mapped' = FALSE
  /\ main' = "close"
  /\ UNCHANGED <<pending, stack, woken, crashed, adm_sema, caller>>

\* The rest of cleanup, break and exit.
BreakAndExit ==
  /\ MainRuns /\ main = "close"
  /\ main' = "exited"
  /\ UNCHANGED <<pending, stack, signal_number, woken, mapped, crashed, adm_sema,
                 caller>>

-----------------------------------------------------------------------------

Handler == StoreNumber \/ TestNumber \/ NoticeFault \/ PageFault \/ Return

Loop == \/ ResetNumber \/ EnterPause \/ LeavePause \/ IsUsr2 \/ Dump
        \/ IsInt \/ Quit \/ BreakAndExit

SignalsNext == SendUsr1 \/ SemWaitReturns \/ UserSignal \/ Handler \/ Loop
        \/ \E s \in Signals : Deliver(s)

SignalsSpec == SignalsInit /\ [][SignalsNext]_svars

HandlerOf(s) == stack # <<>> /\ Top.sig = s /\ Handler

\* The manager and the client are scheduled, and the kernel delivers every
\* signal that is not blocked.  Users need not send any, and do not send them
\* so fast that an interrupted handler or the main loop never runs again.
Fairness == /\ \A s \in Signals : WF_svars(Deliver(s)) /\ SF_svars(HandlerOf(s))
            /\ SF_svars(Loop)
            /\ WF_svars(SemWaitReturns)

FairSignalsSpec == SignalsSpec /\ Fairness

-----------------------------------------------------------------------------
(* Properties *)

\* "checks if a SIGUSR1 was caught and calls page_fault()" (mmanage.h:58);
\* "page fault has to be processed inside sig_handler" (mmanage.c:150): a
\* handler that caught SIGUSR1 does not skip the page fault.
CaughtFaultIsProcessed ==
  \A i \in 1 .. Depth : stack[i].sig = "USR1" => stack[i].at # "skip"

\* A page fault is skipped in one way only: another handler was entered
\* between the store to signal_number and its test (mmanage.c:149-156).
SkippedOnlyWhenHit ==
  \A i \in 1 .. Depth :
    stack[i].sig = "USR1" /\ stack[i].at = "skip" => stack[i].hit

\* The value SIGUSR1 of signal_number belongs to a SIGUSR1 handler that has
\* stored and not yet cleared it, interrupted at most by handlers that are
\* about to overwrite it: the main loop and the other signals' handlers never
\* take it for theirs, so no fault is served twice or by the wrong handler.
FaultNumberHasOwner ==
  signal_number = "USR1" =>
    \E i \in 1 .. Depth :
      /\ stack[i].sig = "USR1" /\ stack[i].at \in {"test", "notice"}
      /\ \A j \in i + 1 .. Depth : stack[j].at = "store"

\* Faults that have been signalled and not yet answered or dropped.
Unanswered == (IF "USR1" \in pending THEN 1 ELSE 0) + adm_sema +
  Cardinality({i \in 1 .. Depth : stack[i].sig = "USR1" /\
                    stack[i].at \in {"store", "test", "notice", "fault"}})

\* A client is never answered twice, in whatever order the handlers nest.
NoSurplusAnswer == Unanswered <= (IF caller = "wait" THEN 1 ELSE 0)

FaultIsSkipped ==
  \E i \in 1 .. Depth : stack[i].sig = "USR1" /\ stack[i].at = "skip"

\* A client whose fault is under way is served unless the fault is skipped or the manager
\* quits or crashes: no order of handlers delays it forever.
FaultIsServed ==
  caller = "wait" /\ Unanswered > 0
    ~> caller = "run" \/ ~Alive \/ FaultIsSkipped

\* The manager sleeps in pause() and only one signal is there to be handled.
Asleep(s)       == main = "paused" /\ ~woken /\ stack = <<>> /\ pending = {s}
OtherSignals(s) == ~(pending \union Active \subseteq {s})

\* A SIGINT that arrives while the manager sleeps in pause() makes it quit, and
\* a SIGUSR2 makes it dump, unless another signal interferes with signal_number
\* before it does.
SleepingManagerObeys ==
  /\ Asleep("INT") ~> main = "exited" \/ OtherSignals("INT")
  /\ Asleep("USR2") ~> main = "dump" \/ OtherSignals("USR2")
=============================================================================
