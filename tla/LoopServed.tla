----------------------------- MODULE LoopServed -----------------------------
(***************************************************************************)
(* The memory manager of Aufgabe3/ (mmanage.c, vmaccess.c), from which     *)
(* working/ was made.  Its handler only stores the signal's number, and    *)
(* the main loop serves the page fault; its semaphore starts at 1; its     *)
(* free frames are numbered from 1.                                        *)
(*                                                                         *)
(* What lies beside the arrays follows from the structs of vmem.h, for     *)
(* VMEM_PAGESIZE = 1: framepage[NFrames] is data[0], data[-1] is           *)
(* framepage[NFrames - 1], entries[-1] is pf_count and the bitmap, and the *)
(* frame NFrames lies behind the struct, still on its memory page.  A      *)
(* client stores any int, so that what it writes beside data may be taken  *)
(* for the number of a page there is, or of none.                          *)
(***************************************************************************)
EXTENDS Integers, FiniteSets

CONSTANTS NPages, NFrames,
          Values,          \* the ints that are written, page numbers or not
          Algos,           \* the builds looked at: "FIFO", "CLOCK", "CLOCK2"
          MaxEvents        \* bound on the client's calls and the users' signals,
                           \* where one counts twice after an early access

VOID_IDX == -1
Pages   == 0 .. NPages - 1
Frames  == 0 .. NFrames - 1
Entries == Pages \union {VOID_IDX}     \* entries[-1] included
Ints    == Entries \union Values
OldValue == 0                          \* everywhere in the page file at first
CountMod == 16                         \* as many bits of pf_count as there are flags

ASSUME LoopServedAssumption ==
  /\ NPages \in Nat \ {0} /\ NFrames \in Nat \ {0}
  /\ Values \subseteq Int /\ Algos \subseteq {"FIFO", "CLOCK", "CLOCK2"}
  /\ MaxEvents \in Nat

VARIABLES
  algo,
  flags, frame,                         \* pt.entries; frame also of entries[-1]
  framepage,                            \* pt.framepage
  data,                                 \* data, of the frame NFrames as well
  size, next_alloc_idx, pf_count,       \* adm
  req_pageno, sema,
  pagefile, filepos,                    \* the page file, and where it stands
  pending, signal_number,               \* signals sent, and the last one caught
  main, woken,                          \* the main loop, "astray" when it has left
                                        \* the arrays; pause() has to return
  req_page, new_frame, page_unloaded,   \* page_fault's locals
  pc, request, result,                  \* the client
  events,                               \* (history) for MaxEvents
  lost,                                 \* (history) page faults nobody serves
  ahead                                 \* (history) an access came too early

table   == <<flags, frame, framepage>>
adm     == <<size, next_alloc_idx, pf_count>>
file    == <<pagefile, filepos>>
signals == <<pending, signal_number, woken, lost>>
locals  == <<req_page, new_frame, page_unloaded>>
client  == <<pc, request, result>>
history == <<events, ahead>>
vars == <<algo, table, data, adm, req_pageno, sema, file, signals, main, locals,
          client, history>>

NoRequest == [op |-> "none", page |-> 0, val |-> VOID_IDX]
Calls == [op : {"read"}, page : Pages, val : {VOID_IDX}] \union
         [op : {"write"}, page : Pages, val : Values]

Present(p) == "PRESENT" \in flags[p]

InitialSema == 1

Init ==
  /\ algo \in Algos
  /\ flags = [p \in Pages |-> {}]
  /\ frame = [e \in Entries |-> IF e = VOID_IDX THEN 0 ELSE VOID_IDX]
  /\ framepage = [f \in Frames |-> VOID_IDX]
  /\ data = [f \in 0 .. NFrames |-> IF f = NFrames THEN 0 ELSE VOID_IDX]
  /\ size = 0 /\ next_alloc_idx = 0 /\ pf_count = 0
  /\ req_pageno = VOID_IDX /\ sema = InitialSema
  /\ pagefile = [p \in 0 .. NPages |-> OldValue] /\ filepos = NPages
  /\ pending = {} /\ signal_number = "none"
  /\ main = "reset" /\ woken = FALSE
  /\ req_page = VOID_IDX /\ new_frame = VOID_IDX /\ page_unloaded = VOID_IDX
  /\ pc = "idle" /\ request = NoRequest /\ result = VOID_IDX
  /\ events = 0 /\ lost = 0 /\ ahead = FALSE

-----------------------------------------------------------------------------
(* The arrays and what lies beside them *)

PageOn(f) == IF f = NFrames THEN data[0] ELSE framepage[f]

Content(f) == IF f = VOID_IDX THEN framepage[NFrames - 1] ELSE data[f]

\* v is stored through frame f.
PutContent(f, v) ==
  /\ data' = IF f = VOID_IDX THEN data ELSE [data EXCEPT ![f] = v]
  /\ framepage' = IF f = VOID_IDX THEN [framepage EXCEPT ![NFrames - 1] = v]
                                  ELSE framepage

\* Two of the flags, for entries[-1] two bits of pf_count.
IsUsed(e)  == IF e = VOID_IDX THEN (pf_count \div 4) % 2 = 1 ELSE "USED" \in flags[e]
IsUsed1(e) == IF e = VOID_IDX THEN (pf_count \div 8) % 2 = 1 ELSE "USED1" \in flags[e]

ClearUsed(e) ==
  /\ flags' = IF e = VOID_IDX THEN flags ELSE [flags EXCEPT ![e] = @ \ {"USED"}]
  /\ pf_count' = IF e = VOID_IDX THEN pf_count - 4 ELSE pf_count

ClearUsed1(e) ==
  /\ flags' = IF e = VOID_IDX THEN flags ELSE [flags EXCEPT ![e] = @ \ {"USED1"}]
  /\ pf_count' = IF e = VOID_IDX THEN pf_count - 8 ELSE pf_count

-----------------------------------------------------------------------------
(* vmem_read and vmem_write *)

NewEvent == /\ events' = events + (IF ahead THEN 2 ELSE 1)
            /\ events' <= MaxEvents

BeginAccess == \E r \in Calls :
  /\ pc = "idle" /\ main # "astray"
  /\ NewEvent
  /\ request' = r /\ result' = VOID_IDX /\ req_pageno' = r.page
  /\ pc' = "check"
  /\ UNCHANGED <<algo, table, data, adm, sema, file, signals, main, locals, ahead>>

CheckPresent ==
  /\ pc = "check"
  /\ pc' = IF Present(request.page) THEN "mark" ELSE "kill"
  /\ UNCHANGED <<algo, table, data, adm, req_pageno, sema, file, signals, main,
                 locals, request, result, history>>

\* kill(mmanage_pid, SIGUSR1); a SIGUSR1 that is pending already takes it in.
RaiseFault ==
  /\ pc = "kill"
  /\ pc' = "wait"
  /\ IF main = "exited" THEN UNCHANGED pending ELSE pending' = pending \union {"USR1"}
  /\ lost' = IF "USR1" \in pending \/ main = "exited" THEN lost + 1 ELSE lost
  /\ UNCHANGED <<algo, table, data, adm, req_pageno, sema, file, signal_number,
                 woken, main, locals, request, result, history>>

\* In update_pt and fetch_page the page is marked as present before its data
\* has come.
Loaded(p) == Present(p) /\ ~(main = "fetch" /\ p = req_page)

\* sem_wait returns, whoever the post was for.
AwaitPage ==
  /\ pc = "wait" /\ sema > 0
  /\ sema' = sema - 1
  /\ pc' = "mark"
  /\ ahead' = (ahead \/ ~Loaded(request.page))
  /\ UNCHANGED <<algo, table, data, adm, req_pageno, file, signals, main, locals,
                 request, result, events>>

\* countUsed.
Mark == LET p == request.page
            again == IF "USED" \in flags[p] THEN {"USED1"} ELSE {}
        IN /\ pc = "mark"
           /\ flags' = [flags EXCEPT ![p] = @ \union {"USED"} \union again]
           /\ pc' = "transfer"
           /\ UNCHANGED <<algo, frame, framepage, data, adm, req_pageno, sema, file,
                          signals, main, locals, request, result, history>>

\* read_page or write_page.
Transfer ==
  LET f == frame[request.page]
  IN /\ pc = "transfer"
     /\ IF request.op = "write"
          THEN PutContent(f, request.val) /\ UNCHANGED result
          ELSE result' = Content(f) /\ UNCHANGED <<data, framepage>>
     /\ pc' = "idle" /\ request' = NoRequest
     /\ UNCHANGED <<algo, flags, frame, adm, req_pageno, sema, file, signals, main,
                    locals, history>>

-----------------------------------------------------------------------------
(* Signals: save_sig_no is the handler of all three *)

\* dump() of vmaccess.c, or a user.
UserSignal == \E s \in {"USR2", "INT"} :
  /\ main \notin {"exited", "astray"}
  /\ NewEvent
  /\ pending' = pending \union {s}
  /\ UNCHANGED <<algo, table, data, adm, req_pageno, sema, file, signal_number,
                 woken, lost, main, locals, client, ahead>>

\* The main loop is going to look at a number that is stored now.
Listens == main = "paused" \/ main = "is usr1"

\* The number stored is one the main loop is going to look at.
Heard == main = "is usr1" \/ (main = "paused" /\ woken)

\* A page fault is lost if its number is overwritten before the loop has looked
\* at it, or stored when the loop does not look any more.
Deliver(s) ==
  /\ s \in pending /\ main # "exited"
  /\ pending' = pending \ {s}
  /\ signal_number' = s
  /\ woken' = (woken \/ main = "paused")
  /\ lost' = lost + (IF Heard /\ signal_number = "USR1" THEN 1 ELSE 0)
                  + (IF s = "USR1" /\ ~Listens THEN 1 ELSE 0)
  /\ UNCHANGED <<algo, table, data, adm, req_pageno, sema, file,
                 main, locals, client, history>>

-----------------------------------------------------------------------------
(* signal_proccessing_loop *)

LoopGoes(from, to) ==
  /\ main = from /\ main' = to
  /\ UNCHANGED <<algo, table, data, adm, req_pageno, sema, file, pending,
                 lost, locals, client, history>>

ResetNumber == /\ LoopGoes("reset", "pause")
               /\ signal_number' = "none" /\ UNCHANGED woken

EnterPause == /\ LoopGoes("pause", "paused")
              /\ woken' = FALSE /\ UNCHANGED signal_number

LeavePause == /\ woken /\ LoopGoes("paused", "is usr1")
              /\ UNCHANGED <<signal_number, woken>>

IsUsr1 == /\ LoopGoes("is usr1", IF signal_number = "USR1" THEN "notice" ELSE "is usr2")
          /\ UNCHANGED <<signal_number, woken>>

\* noticed, and then page_fault.
NoticeFault == /\ LoopGoes("notice", "fault")
               /\ signal_number' = "none" /\ UNCHANGED woken

\* noticed and dump_vmem_structure, if it is SIGUSR2.
IsUsr2 ==
  /\ LoopGoes("is usr2", IF signal_number = "USR2" THEN "reset" ELSE "is int")
  /\ signal_number' = IF signal_number = "USR2" THEN "none" ELSE signal_number
  /\ UNCHANGED woken

\* noticed, cleanup and exit, if it is SIGINT; save_sig_no(0) otherwise.
IsInt ==
  /\ LoopGoes("is int", IF signal_number = "INT" THEN "exited" ELSE "reset")
  /\ signal_number' = "none"
  /\ UNCHANGED woken

-----------------------------------------------------------------------------
(* page_fault, called by the main loop *)

\* The page to serve is noted down.
EnterFault ==
  /\ main = "fault"
  /\ req_page' = req_pageno
  /\ pf_count' = (pf_count + 1) % CountMod
  /\ main' = "search"
  /\ UNCHANGED <<algo, table, data, size, next_alloc_idx, req_pageno, sema, file,
                 signals, new_frame, page_unloaded, client, history>>

\* A frame is found; if none is free any more its page is saved.
TakeFrame(f, occupied) ==
  /\ new_frame' = f
  /\ page_unloaded' = PageOn(f)
  /\ main' = IF occupied >= NFrames THEN "store" ELSE "update"

\* find_remove_frame: size is counted up before it is taken for the frame.
TakeFreeFrame ==
  /\ main = "search" /\ size < NFrames
  /\ size' = size + 1
  /\ TakeFrame(size + 1, size + 1)
  /\ UNCHANGED <<algo, table, data, next_alloc_idx, pf_count, req_pageno, sema,
                 file, signals, req_page, client, history>>

\* increment_alloc_idx.
Incremented == IF next_alloc_idx = NFrames - 1 THEN 0 ELSE next_alloc_idx + 1

Victim == framepage[next_alloc_idx]
IsSpared == algo # "FIFO" /\ IsUsed(Victim)

\* What was written beside data is taken for a page number, and entries is read
\* or written far outside.  The model ends here.
LeaveArrays ==
  /\ \/ main = "search" /\ size >= NFrames /\ algo # "FIFO" /\ Victim \notin Entries
     \/ main = "store" /\ page_unloaded \notin Entries
     \/ main = "update" /\ PageOn(new_frame) \notin Entries
  /\ main' = "astray"
  /\ UNCHANGED <<algo, table, data, adm, req_pageno, sema, file, signals, locals,
                 client, history>>

\* A pass of the loops of find_remove_clock and find_remove_clock2.
PassFrame ==
  /\ main = "search" /\ size >= NFrames /\ Victim \in Entries /\ IsSpared
  /\ IF algo = "CLOCK2" /\ IsUsed1(Victim) THEN ClearUsed1(Victim)
                                           ELSE ClearUsed(Victim)
  /\ next_alloc_idx' = Incremented
  /\ UNCHANGED <<algo, frame, framepage, data, size, req_pageno, sema, file, signals,
                 main, locals, client, history>>

TakeVictim ==
  /\ main = "search" /\ size >= NFrames
  /\ algo = "FIFO" \/ Victim \in Entries
  /\ ~IsSpared
  /\ TakeFrame(next_alloc_idx, size)
  /\ next_alloc_idx' = Incremented
  /\ UNCHANGED <<algo, table, data, size, pf_count, req_pageno, sema, file, signals,
                 req_page, client, history>>

\* (Faulty: only a page with the DIRTY bit is saved; nobody sets it.)
StoreDirty ==
  /\ main = "store" /\ page_unloaded \in Entries
  /\ main' = "update"
  /\ IF page_unloaded \in Pages /\ "DIRTY" \notin flags[page_unloaded]
       THEN UNCHANGED file
       ELSE /\ pagefile' = [pagefile EXCEPT ![filepos] = Content(frame[page_unloaded])]
            /\ filepos' = filepos + 1
  /\ UNCHANGED <<algo, table, data, adm, req_pageno, sema, signals, locals, client,
                 history>>

\* store_page, whether the page was changed or not.  For page -1 fseek fails,
\* and what entries[-1] points to is written where the file stands.
StorePage ==
  LET at == IF page_unloaded = VOID_IDX THEN filepos ELSE page_unloaded
  IN /\ main = "store" /\ page_unloaded \in Entries
     /\ pagefile' = [pagefile EXCEPT ![at] = Content(frame[page_unloaded])]
     /\ filepos' = at + 1
     /\ main' = "update"
     /\ UNCHANGED <<algo, table, data, adm, req_pageno, sema, signals, locals, client,
                    history>>

\* (Faulty: the page does not get its frame.)
UpdateFlagsOnly ==
  LET old == PageOn(new_frame)
  IN /\ main = "update" /\ old \in Entries
     /\ flags' = [[p \in Pages |-> IF p = old THEN {} ELSE flags[p]]
                    EXCEPT ![req_pageno] = @ \union {"PRESENT"}]
     /\ frame' = [frame EXCEPT ![old] = VOID_IDX]
     /\ pf_count' = IF old = VOID_IDX THEN 0 ELSE pf_count
     /\ IF new_frame = NFrames
          THEN data' = [data EXCEPT ![0] = req_pageno] /\ UNCHANGED framepage
          ELSE framepage' = [framepage EXCEPT ![new_frame] = req_pageno]
               /\ UNCHANGED data
     /\ main' = "fetch"
     /\ UNCHANGED <<algo, size, next_alloc_idx, req_pageno, sema, file, signals,
                    locals, client, history>>

\* update_pt: update_unload of the page on the frame, update_load of the page
\* that is requested now.
UpdatePt ==
  LET old == PageOn(new_frame)
  IN /\ main = "update" /\ old \in Entries
     /\ flags' = [[p \in Pages |-> IF p = old THEN {} ELSE flags[p]]
                    EXCEPT ![req_pageno] = @ \union {"PRESENT"}]
     /\ frame' = [[frame EXCEPT ![old] = VOID_IDX] EXCEPT ![req_pageno] = new_frame]
     /\ pf_count' = IF old = VOID_IDX THEN 0 ELSE pf_count
     /\ IF new_frame = NFrames
          THEN data' = [data EXCEPT ![0] = req_pageno] /\ UNCHANGED framepage
          ELSE framepage' = [framepage EXCEPT ![new_frame] = req_pageno]
               /\ UNCHANGED data
     /\ main' = "fetch"
     /\ UNCHANGED <<algo, size, next_alloc_idx, req_pageno, sema, file, signals,
                    locals, client, history>>

\* fetch_page of the page noted down.
FetchPage ==
  /\ main = "fetch"
  /\ PutContent(frame[req_page], pagefile[req_page])
  /\ filepos' = req_page + 1
  /\ main' = "post"
  /\ UNCHANGED <<algo, flags, frame, adm, req_pageno, sema, pagefile, signals,
                 locals, client, history>>

\* (Faulty: the process is not freed.)
LogOnly ==
  /\ main = "post"
  /\ main' = "reset"
  /\ req_page' = VOID_IDX /\ new_frame' = VOID_IDX /\ page_unloaded' = VOID_IDX
  /\ UNCHANGED <<algo, table, data, adm, req_pageno, sema, file, signals, client, history>>

PostSema ==
  /\ main = "post"
  /\ sema' = sema + 1
  /\ main' = "reset"
  /\ req_page' = VOID_IDX /\ new_frame' = VOID_IDX /\ page_unloaded' = VOID_IDX
  /\ UNCHANGED <<algo, table, data, adm, req_pageno, file, signals, client, history>>

-----------------------------------------------------------------------------

Proceed == CheckPresent \/ RaiseFault \/ AwaitPage \/ Mark \/ Transfer

Loop == \/ ResetNumber \/ EnterPause \/ LeavePause \/ IsUsr1 \/ NoticeFault
        \/ IsUsr2 \/ IsInt

Fault == \/ EnterFault \/ TakeFreeFrame \/ PassFrame \/ TakeVictim \/ StorePage
         \/ UpdatePt \/ FetchPage \/ PostSema \/ LeaveArrays

Next == \/ BeginAccess \/ Proceed \/ UserSignal \/ Loop \/ Fault
        \/ \E s \in {"USR1", "USR2", "INT"} : Deliver(s)

Spec == Init /\ [][Next]_vars

-----------------------------------------------------------------------------
(* Properties *)

\* Where the client, and where the main loop with its page_fault may be.
ClientPoints == {"idle", "check", "kill", "wait", "mark", "transfer"}
LoopPoints   == {"reset", "pause", "paused", "is usr1", "is usr2", "is int", "notice",
                 "fault", "search", "store", "update", "fetch", "post", "astray",
                 "exited"}

\* Every variable has its type.
TypeOK ==
  /\ algo \in Algos
  /\ flags \in [Pages -> SUBSET {"PRESENT", "USED", "USED1"}]
  /\ frame \in [Entries -> VOID_IDX .. NFrames]
  /\ framepage \in [Frames -> Ints]
  /\ data \in [0 .. NFrames -> Ints]
  /\ size \in 0 .. NFrames /\ next_alloc_idx \in Frames
  /\ pf_count \in 0 .. CountMod - 1 /\ req_pageno \in Entries /\ sema \in Nat
  /\ pagefile \in [0 .. NPages -> Ints] /\ filepos \in 0 .. NPages + 1
  /\ pending \subseteq {"USR1", "USR2", "INT"}
  /\ signal_number \in {"none", "USR1", "USR2", "INT"}
  /\ main \in LoopPoints
  /\ woken \in BOOLEAN
  /\ req_page \in Entries /\ new_frame \in VOID_IDX .. NFrames
  /\ page_unloaded \in Ints
  /\ pc \in ClientPoints
  /\ request \in Calls \union {NoRequest} /\ result \in Ints
  /\ events \in 0 .. MaxEvents
  /\ lost \in Nat /\ ahead \in BOOLEAN

\* Nobody checks an index of Aufgabe3/, and several leave their array by one: the
\* frames NFrames and -1, and page -1.  They do no worse as long as no access
\* comes too early, for only then does what a client writes get into framepage
\* (vmaccess.c:115), whose ints index entries (mmanage.c:143, 303, 313).
IndexesStayNear == main = "astray" => ahead

\* Page faults that have been signalled and that the loop serves or will serve.
Sent   == IF "USR1" \in pending THEN 1 ELSE 0
Stored == IF Heard /\ signal_number = "USR1" THEN 1 ELSE 0
Served == IF main \in {"notice", "fault", "search", "store", "update", "fetch",
                       "astray", "post"}
            THEN 1 ELSE 0
UnderWay == Sent + Stored + Served

\* The loop loses page faults: those that come while it does not sleep, or that
\* are overwritten (mmanage.c:93-117).  The books balance: there is one post
\* more than the client needs, the one from sem_init (mmanage.c:369), until one
\* fault is lost, none after that, and one too few after two.
FaultsAreAccountedFor ==
  main # "exited" =>
    sema + UnderWay + lost = 1 + (IF pc = "wait" THEN 1 ELSE 0)

FlatView == [p \in Pages |-> IF Loaded(p) THEN Content(frame[p]) ELSE pagefile[p]]

FlatRequest == [c \in {"client"} |->
  [op |-> request.op, addr |-> request.page, val |-> request.val]]

Flat == INSTANCE FlatMemory WITH
  Clients <- {"client"}, Addresses <- Pages, Values <- Ints, NoValue <- VOID_IDX,
  mem <- FlatView, request <- FlatRequest, result <- [c \in {"client"} |-> result]

\* Page -1 is saved: when the last free frame is taken and when frame 0 is.
SavesVoid == main = "store" /\ page_unloaded = VOID_IDX /\ main' = "update"

\* As long as no access comes too early, the client sees an ordinary array,
\* although the frames are 1 to NFrames at first and 0 to NFrames later, and
\* framepage[NFrames] is data[0]: only when page -1 is saved does a page of
\* the file change that nobody wrote.
FlatButForVoid == Flat!Init /\ [][ahead' \/ SavesVoid \/ Flat!Next]_(Flat!memvars)
=============================================================================
