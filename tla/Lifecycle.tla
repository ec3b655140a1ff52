------------------------------ MODULE Lifecycle ------------------------------
(***************************************************************************)
(* Starting, ending and restarting the memory manager of working/          *)
(* (mmanage.c) and a process that uses it (vmaccess.c).  They meet in a    *)
(* shared memory object, which has a name until someone unlinks it and     *)
(* lives on, name or not, as long as it is mapped.  Only a manager that    *)
(* gets through cleanup() unlinks it; one that is killed, or exits on an   *)
(* error of the page file, leaves it to its successor as it is.            *)
(*                                                                         *)
(* The page table is the set of the pages that are present, and with each  *)
(* page goes the run of the manager whose page file its data comes from.   *)
(* Paging has the paging itself, MManageSignals the races of SIGINT with a *)
(* page fault: here SIGINT ends a manager that is in pause().              *)
(***************************************************************************)
EXTENDS Integers, FiniteSets

CONSTANTS NPages,
          NFrames,   \* as many pages are in memory at most
          MaxRuns,   \* bound on how often the manager is started
          MaxUsers   \* bound on how many processes use the memory, one by one

ASSUME LifecycleAssumption ==
  {NPages, NFrames, MaxRuns, MaxUsers} \subseteq Nat \ {0}

VOID_IDX == -1
Pages   == 0 .. NPages - 1
Runs    == 1 .. MaxRuns
NoRun   == 0     \* no manager; also the pid 0 of an object never initialised
Objects == {1, 2}
NoObject == 0

VARIABLES
  name,        \* the object that SHMKEY names, or NoObject
  pid,         \* adm.mmanage_pid of each object, as a run of the manager
  req_pageno,  \* adm.req_pageno of each object
  sema,        \* adm.sema of each object
  present,     \* the pages whose PRESENT bit is set, of each object
  origin,      \* for each object and page, the run its data comes from
  run,         \* the current or last run of the manager
  pagefile,    \* the run that wrote the page file
  mm,          \* where the manager is, "off" if there is none
  back,        \* where its signal handler returns to
  leaving,     \* the page the handler throws out, or VOID_IDX
  req_page,    \* page_fault's copy of req_pageno
  vmem,        \* the object that is mapped into the manager
  usr1,        \* SIGUSR1 is pending for the manager
  lastExit,    \* how the last manager ended
  client,      \* where the client is, "off" if there is none
  page,        \* the page the client asks for
  cvmem,       \* the object that is mapped into the client
  signalled,   \* the run the client's SIGUSR1 went to
  users,       \* (history) how many clients there were
  accident,    \* (history) the first mishap since the manager was started
  orderly      \* (history) the client came after the manager, and left before
               \* it, since the manager was last started without a client

objects == <<pid, req_pageno, sema, present, origin>>
handler == <<back, leaving, req_page>>
user    == <<client, page, cvmem, signalled, users>>
vars == <<name, objects, run, pagefile, mm, handler, vmem, usr1, lastExit, user,
          accident, orderly>>

Init ==
  /\ name = NoObject
  /\ pid = [o \in Objects |-> NoRun]
  /\ req_pageno = [o \in Objects |-> 0]
  /\ sema = [o \in Objects |-> 0]
  /\ present = [o \in Objects |-> {}]
  /\ origin = [o \in Objects |-> [p \in Pages |-> NoRun]]
  /\ run = NoRun /\ pagefile = NoRun
  /\ mm = "off" /\ back = "off" /\ leaving = VOID_IDX /\ req_page = VOID_IDX
  /\ vmem = NoObject /\ usr1 = FALSE /\ lastExit = "none"
  /\ client = "off" /\ page = 0 /\ cvmem = NoObject /\ signalled = NoRun
  /\ users = 0 /\ accident = "none" /\ orderly = TRUE

Mishap(what) == accident' = IF accident = "none" THEN what ELSE accident

-----------------------------------------------------------------------------
(* main of mmanage.c up to the main loop *)

\* The manager goes on, and nothing else changes but what the action says.
GoesOn(from, to) ==
  /\ mm = from /\ mm' = to
  /\ UNCHANGED <<run, handler, usr1, lastExit, user, accident, orderly>>

Start ==
  /\ mm = "off" /\ run < MaxRuns
  /\ run' = run + 1
  /\ mm' = "pagefile"
  /\ orderly' = (client = "off") /\ accident' = "none"
  /\ UNCHANGED <<name, objects, pagefile, handler, vmem, usr1, lastExit, user>>

\* init_pagefile writes the file anew.
InitPagefile == /\ GoesOn("pagefile", "logfile")
                /\ pagefile' = run
                /\ UNCHANGED <<name, objects, vmem>>

OpenLogfile == /\ GoesOn("logfile", "open")
               /\ UNCHANGED <<name, objects, pagefile, vmem>>

\* shm_open with O_CREAT: an object that was left behind is taken as it is, a
\* new one is filled with zeros, and page 0 is then what req_pageno says.
OpenShared ==
  /\ GoesOn("open", "pid")
  /\ \/ /\ name # NoObject
        /\ vmem' = name
        /\ UNCHANGED <<name, objects>>
     \/ /\ name = NoObject
        /\ \E o \in Objects \ {cvmem} :
             /\ name' = o /\ vmem' = o
             /\ pid' = [pid EXCEPT ![o] = NoRun]
             /\ req_pageno' = [req_pageno EXCEPT ![o] = 0]
             /\ sema' = [sema EXCEPT ![o] = 0]
             /\ present' = [present EXCEPT ![o] = {}]
             /\ origin' = [origin EXCEPT ![o] = [p \in Pages |-> NoRun]]
  /\ UNCHANGED pagefile

\* vmem_init: mmanage_pid and the fields after it.
PublishPid == /\ GoesOn("pid", "sema")
              /\ pid' = [pid EXCEPT ![vmem] = run]
              /\ req_pageno' = [req_pageno EXCEPT ![vmem] = VOID_IDX]
              /\ UNCHANGED <<name, sema, present, origin, pagefile, vmem>>

\* (Faulty: the semaphore of an object that was left behind is kept.)
KeepSema == /\ GoesOn("sema", "table")
            /\ UNCHANGED <<name, objects, pagefile, vmem>>

\* vmem_init: sem_init.
InitSema == /\ GoesOn("sema", "table")
            /\ sema' = [sema EXCEPT ![vmem] = 0]
            /\ UNCHANGED <<name, pid, req_pageno, present, origin, pagefile, vmem>>

\* (Faulty: the page table of an object that was left behind is kept.)
KeepTable == /\ GoesOn("table", "data")
             /\ UNCHANGED <<name, objects, pagefile, vmem>>

\* vmem_init: the page table.
InitTable == /\ GoesOn("table", "data")
             /\ present' = [present EXCEPT ![vmem] = {}]
             /\ UNCHANGED <<name, pid, req_pageno, sema, origin, pagefile, vmem>>

\* vmem_init: the data.
InitData == /\ GoesOn("data", "sigaction usr1")
            /\ origin' = [origin EXCEPT ![vmem] = [p \in Pages |-> NoRun]]
            /\ UNCHANGED <<name, pid, req_pageno, sema, present, pagefile, vmem>>

\* main: sigaction for SIGUSR1, and then for SIGUSR2 and SIGINT.
InstallUsr1 == /\ GoesOn("sigaction usr1", "sigaction int")
               /\ UNCHANGED <<name, objects, pagefile, vmem>>

InstallInt == /\ GoesOn("sigaction int", "loop")
              /\ UNCHANGED <<name, objects, pagefile, vmem>>

Starting == {"pagefile", "logfile", "open", "pid", "sema", "table", "data",
             "sigaction usr1"}

-----------------------------------------------------------------------------
(* How a manager ends *)

\* page_fault's locals are gone.
HandlerReturns == back' = "off" /\ leaving' = VOID_IDX /\ req_page' = VOID_IDX

Ends(how) ==
  /\ mm' = "off" /\ lastExit' = how
  /\ vmem' = NoObject /\ usr1' = FALSE
  /\ HandlerReturns
  /\ orderly' = (orderly /\ client = "off")
  /\ UNCHANGED <<name, objects, run, pagefile, user>>

\* An error while it starts, SIGINT before its handler is there, kill -9.
Killed == mm # "off" /\ Ends("killed") /\ UNCHANGED accident

\* SIGUSR1 before its handler is there.
DiesOfSignal == /\ usr1 /\ mm \in Starting
                /\ Ends("killed")
                /\ Mishap("manager killed by SIGUSR1")

\* noticed and cleanup, one statement at a time.
QuitLoop == /\ mm = "loop"
            /\ mm' = "munmap"
            /\ orderly' = (orderly /\ client = "off")
            /\ UNCHANGED <<name, objects, run, pagefile, handler, vmem, usr1,
                           lastExit, user, accident>>

Unmap == /\ GoesOn("munmap", "shm_unlink")
         /\ vmem' = NoObject
         /\ UNCHANGED <<name, objects, pagefile>>

\* (Faulty: cleanup does not unlink the object.)
KeepName == /\ GoesOn("shm_unlink", "fclose")
            /\ UNCHANGED <<name, objects, pagefile, vmem>>

Unlink == /\ GoesOn("shm_unlink", "fclose")
          /\ name' = NoObject
          /\ UNCHANGED <<objects, pagefile, vmem>>

CloseAndExit == mm = "fclose" /\ Ends("clean") /\ UNCHANGED accident

-----------------------------------------------------------------------------
(* page_fault, in the handler of SIGUSR1 *)

CanHandle == mm \in {"sigaction int", "loop", "munmap", "shm_unlink", "fclose"}

\* The manager works in the handler, and nothing else changes but what the
\* action says.
Serves(from, to) ==
  /\ mm = from /\ mm' = to
  /\ UNCHANGED <<name, pid, run, pagefile, vmem, lastExit, user, orderly>>

\* The handler needs the shared memory, and takes a copy of the request.
EnterFault ==
  /\ usr1 /\ CanHandle /\ vmem # NoObject
  /\ usr1' = FALSE /\ back' = mm /\ req_page' = req_pageno[vmem]
  /\ Serves(mm, "store")
  /\ IF Cardinality(present[vmem]) < NFrames THEN leaving' = VOID_IDX
                                            ELSE leaving' \in present[vmem]
  /\ UNCHANGED <<req_pageno, sema, present, origin, accident>>

CrashInFault == /\ usr1 /\ CanHandle /\ vmem = NoObject
                /\ Ends("killed")
                /\ Mishap("manager touched unmapped memory")

\* store_page.
StorePage == /\ Serves("store", "update")
             /\ UNCHANGED <<objects, handler, usr1, accident>>

\* update_pt, of the page that is requested now, whose frame still holds another
\* page; without a request it writes beside the table.
UpdatePt ==
  /\ Serves("update", "fetch")
  /\ present' = [present EXCEPT ![vmem] =
                   (@ \ {leaving}) \union ({req_pageno[vmem]} \intersect Pages)]
  /\ IF req_pageno[vmem] = VOID_IDX THEN Mishap("page -1 was served")
                                    ELSE UNCHANGED accident
  /\ origin' = [origin EXCEPT ![vmem] =
                  [p \in Pages |-> IF p = req_pageno[vmem] THEN NoRun ELSE @[p]]]
  /\ UNCHANGED <<req_pageno, sema, handler, usr1>>

\* fetch_page, of the page that was requested when page_fault began; a page that
\* has no frame is read beside them.
FetchPage ==
  /\ Serves("fetch", "post")
  /\ IF req_page \in present[vmem]
       THEN origin' = [origin EXCEPT ![vmem] = [@ EXCEPT ![req_page] = pagefile]]
            /\ UNCHANGED accident
       ELSE Mishap("page was fetched beside the frames") /\ UNCHANGED origin
  /\ UNCHANGED <<req_pageno, sema, present, handler, usr1>>

\* (Faulty: the handler gives up instead of the process.)
HandlerGivesUp ==
  /\ mm = "fetch" \/ (mm = "store" /\ leaving # VOID_IDX)
  /\ mm' = back /\ HandlerReturns
  /\ UNCHANGED <<name, objects, run, pagefile, vmem, usr1, lastExit, user, accident,
                 orderly>>

\* fread or fwrite falls short: exit(EXIT_FAILURE) in the middle of the fault.
PagefileFails ==
  /\ mm = "fetch" \/ (mm = "store" /\ leaving # VOID_IDX)
  /\ Ends("killed") /\ UNCHANGED accident

\* sem_post, and the end of the handler.
PostSema == /\ Serves("post", back)
            /\ sema' = [sema EXCEPT ![vmem] = @ + 1]
            /\ HandlerReturns
            /\ UNCHANGED <<req_pageno, present, origin, usr1, accident>>

-----------------------------------------------------------------------------
(* The client *)

ClientDoes(from, to) ==
  /\ client = from /\ client' = to
  /\ UNCHANGED <<name, pid, present, origin, run, pagefile, mm, handler, vmem,
                 lastExit, users>>

\* vm_init.  Without an object ftruncate fails and the process exits.
Connect ==
  /\ name # NoObject /\ users < MaxUsers
  /\ client = "off" /\ client' = "run"
  /\ users' = users + 1
  /\ cvmem' = name
  /\ orderly' = (orderly /\ mm = "loop")
  /\ UNCHANGED <<name, objects, run, pagefile, mm, handler, vmem, lastExit, page,
                 signalled, usr1, accident>>

\* vmem_read and vmem_write as far as the request.
BeginAccess == \E p \in Pages :
  /\ ClientDoes("run", "check")
  /\ page' = p
  /\ req_pageno' = [req_pageno EXCEPT ![cvmem] = p]
  /\ UNCHANGED <<sema, cvmem, signalled, usr1, accident, orderly>>

CheckPresent ==
  /\ ClientDoes("check", IF page \in present[cvmem] THEN "access" ELSE "kill")
  /\ UNCHANGED <<req_pageno, sema, page, cvmem, signalled, usr1, accident, orderly>>

\* kill(mmanage_pid, SIGUSR1): nobody notices if there is no such process.
RaiseFault ==
  /\ ClientDoes("kill", "wait") /\ pid[cvmem] # NoRun
  /\ usr1' = (usr1 \/ (pid[cvmem] = run /\ mm # "off"))
  /\ signalled' = pid[cvmem]
  /\ UNCHANGED <<req_pageno, sema, page, cvmem, accident, orderly>>

ClientGone == page' = 0 /\ cvmem' = NoObject /\ signalled' = NoRun

\* kill(0, SIGUSR1) goes to the client's own process group.
KillsItself ==
  /\ ClientDoes("kill", "off") /\ pid[cvmem] = NoRun
  /\ ClientGone
  /\ Mishap("client killed itself")
  /\ UNCHANGED <<req_pageno, sema, usr1, orderly>>

\* sem_wait returns.
AwaitPage ==
  /\ ClientDoes("wait", "access") /\ sema[cvmem] > 0
  /\ sema' = [sema EXCEPT ![cvmem] = @ - 1]
  /\ UNCHANGED <<req_pageno, page, cvmem, signalled, usr1, accident, orderly>>

\* read_page or write_page, through the frame the table gives.
Access ==
  /\ ClientDoes("access", "run")
  /\ IF page \notin present[cvmem] THEN Mishap("access without a frame")
     ELSE IF origin[cvmem][page] # pagefile THEN Mishap("access to old data")
     ELSE UNCHANGED accident
  /\ page' = 0 /\ signalled' = NoRun
  /\ UNCHANGED <<req_pageno, sema, cvmem, usr1, orderly>>

\* The process ends, by itself between two calls or killed within one.
Leave ==
  /\ client # "off"
  /\ ClientDoes(client, "off")
  /\ ClientGone
  /\ orderly' = (orderly /\ client = "run")
  /\ UNCHANGED <<req_pageno, sema, usr1, accident>>

-----------------------------------------------------------------------------

Startup == \/ InitPagefile \/ OpenLogfile \/ OpenShared \/ PublishPid \/ InitSema
           \/ InitTable \/ InitData \/ InstallUsr1 \/ InstallInt

Fault == EnterFault \/ CrashInFault \/ StorePage \/ UpdatePt \/ FetchPage \/ PostSema

Cleanup == Unmap \/ Unlink \/ CloseAndExit

Proceed == CheckPresent \/ RaiseFault \/ KillsItself \/ AwaitPage \/ Access

Next == \/ Start \/ Startup \/ Killed \/ DiesOfSignal
        \/ QuitLoop \/ Cleanup \/ Fault \/ PagefileFails
        \/ Connect \/ BeginAccess \/ Proceed \/ Leave

Spec == Init /\ [][Next]_vars

\* Both processes are scheduled.  Nobody need start or kill anything.
FairSpec == /\ Spec
            /\ WF_vars(Startup \/ DiesOfSignal) /\ WF_vars(Cleanup)
            /\ WF_vars(Fault) /\ WF_vars(Proceed)

-----------------------------------------------------------------------------
(* Properties *)

\* A process that comes when the manager is in its main loop, and goes before
\* it, is safe ("it has to be started prior to the vmaccess process",
\* mmanage.c:13), whatever earlier managers and processes have left behind:
\* its signals kill nobody and find the memory mapped, and every page it gets
\* at is in memory, with the data of this manager's page file.
StartedPriorIsEnough == orderly => accident = "none"

\* A manager that is killed leaves the object, with its semaphore and its page
\* table, perhaps in the middle of a fault.  The next one forgets all of it:
\* in the main loop, with nothing under way, no post is left over, SIGUSR1
\* comes to itself, and no page is from another run (mmanage.c:405-434).
RestartForgets ==
  orderly /\ mm = "loop" /\ ~usr1 /\ client # "wait" =>
    /\ name = vmem /\ pid[vmem] = run /\ sema[vmem] = 0
    /\ \A p \in present[vmem] : origin[vmem][p] = run

\* After cleanup() there is no object a process could connect to: vm_init
\* ends the process instead of letting it wait for nobody (vmaccess.c:30).
CleanExitLeavesNothing == mm = "off" /\ lastExit = "clean" => name = NoObject

\* A process whose signal went to a manager gets its page, or the manager ends:
\* only a manager that is gone lets anyone wait for ever, also when processes
\* come too early or die in the middle of a call.
LivingManagerAnswers ==
  \A r \in Runs : client = "wait" /\ signalled = r /\ run = r
                  ~> client # "wait" \/ mm = "off" \/ run # r
=============================================================================
