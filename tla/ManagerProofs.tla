--------------------------- MODULE ManagerProofs ---------------------------
(***************************************************************************)
(* The memory manager of working/ as a process.  The first part is about   *)
(* what its restarts and crashes leave to its successor and to its         *)
(* clients, for any size of the memory and any number of runs (Lifecycle). *)
(* The second is about its signal handlers and the variable they share, for*)
(* any set of signals that have this handler (MManageSignals).  The two    *)
(* have no variable in common.                                             *)
(***************************************************************************)
EXTENDS Lifecycle, MManageSignals, FiniteSetTheorems, SequenceTheorems, TLAPS

FaultPlaces == {"store", "update", "fetch", "post"}
Working     == {"loop"} \union FaultPlaces
Mapped      == {"pid", "sema", "table", "data", "sigaction usr1", "sigaction int",
                "munmap"} \union Working

Types ==
  /\ pid \in [Objects -> Int] /\ req_pageno \in [Objects -> Pages \union {VOID_IDX}]
  /\ sema \in [Objects -> Nat] /\ present \in [Objects -> SUBSET Pages]
  /\ origin \in [Objects -> [Pages -> Int]]
  /\ run \in Nat /\ pagefile \in Nat /\ page \in Pages
  /\ req_page \in Pages \union {VOID_IDX}
  /\ mm \in Mapped \union {"off", "pagefile", "logfile", "open", "shm_unlink", "fclose"}
  /\ client \in {"off", "run", "check", "kill", "wait", "access"}

\* Where there is a manager or a client there is the memory they work on.
PlaceInv ==
  /\ mm \in Mapped => vmem \in Objects
  /\ mm \in FaultPlaces => back \in {"sigaction int", "loop", "munmap"}
  /\ mm = "off" => ~usr1
  /\ mm # "off" => run > NoRun
  /\ mm \notin {"off", "pagefile"} => pagefile = run
  /\ name \in Objects \union {NoObject}
  /\ client # "off" => cvmem \in Objects

\* Only a manager that got through cleanup exits cleanly.
CleanInv ==
  /\ mm \in {"shm_unlink", "fclose"} => vmem = NoObject
  /\ mm = "fclose" => name = NoObject
  /\ mm = "off" /\ lastExit = "clean" => name = NoObject

\* What a manager has initialised before anyone came.
StartInv ==
  /\ mm \notin Working => client = "off" /\ ~usr1
  /\ mm \in Mapped \ {"munmap"} => name = vmem
  /\ mm \in Mapped \ {"munmap", "pid"} => pid[vmem] = run
  /\ mm \in {"table", "data", "sigaction usr1", "sigaction int"} => sema[vmem] = 0
  /\ mm \in {"data", "sigaction usr1", "sigaction int"} => present[vmem] = {}

\* How far the client and the manager are with a page fault.
FaultInv ==
  /\ mm \in FaultPlaces =>
       back = "loop" /\ ~usr1 /\ client = "wait" /\ sema[vmem] = 0
  /\ mm = "loop" /\ client = "wait" =>
       \/ usr1 /\ sema[vmem] = 0
       \/ ~usr1 /\ sema[vmem] = 1 /\ page \in present[vmem]
  /\ mm = "loop" /\ client # "wait" => ~usr1 /\ sema[vmem] = 0

\* The page that is asked for, and the data of the pages that are there.
PageInv ==
  /\ mm \in Working /\ client # "off" => cvmem = vmem
  /\ client \in {"check", "kill", "wait"} => req_pageno[cvmem] = page
  /\ client = "access" => page \in present[cvmem]
  /\ mm \in {"store", "update", "fetch"} => req_page = page
  /\ mm \in {"fetch", "post"} => page \in present[vmem]
  /\ mm \in Working =>
       \A p \in present[vmem] : origin[vmem][p] = run \/ (mm = "fetch" /\ p = page)

OrderlyInv == orderly => accident = "none" /\ StartInv /\ FaultInv /\ PageInv

LifeInv == Types /\ PlaceInv /\ CleanInv /\ OrderlyInv

USE DEF Pages, Objects, NoRun, NoObject, VOID_IDX

-----------------------------------------------------------------------------

LEMMA ZeroIsPage == 0 \in Pages
<1>1. NPages \in Nat \ {0}  BY LifecycleAssumption
<1> QED  BY <1>1

LEMMA PagesAreNot == \A p \in Pages : p # VOID_IDX
<1>1. NPages \in Nat \ {0}  BY LifecycleAssumption
<1> QED  OBVIOUS

LEMMA OldData == [p \in Pages |-> NoRun] \in [Pages -> Int]  OBVIOUS

LEMMA LifeInit == Init => LifeInv
<1> SUFFICES ASSUME Init PROVE LifeInv  OBVIOUS
<1>1. Types  BY LifecycleAssumption DEF Init, Types
<1>2. PlaceInv /\ CleanInv
  BY DEF Init, PlaceInv, CleanInv, Mapped, Working, FaultPlaces
<1>3. OrderlyInv
  BY DEF Init, OrderlyInv, StartInv, FaultInv, PageInv, Mapped, Working, FaultPlaces
<1> QED  BY <1>1, <1>2, <1>3 DEF LifeInv

LEMMA StartKeeps == LifeInv /\ Start => LifeInv'
<1> SUFFICES ASSUME LifeInv, Start PROVE LifeInv'  OBVIOUS
<1> USE DEF Start, objects, handler, user
<1>1. Types'  BY DEF LifeInv, Types
<1>2. PlaceInv'  BY DEF LifeInv, Types, PlaceInv, FaultPlaces, Working, Mapped
<1>3. CleanInv'
  BY DEF CleanInv
<1>4. ASSUME orderly' PROVE (accident = "none" /\ StartInv /\ FaultInv /\ PageInv)'
  BY <1>4
     DEF LifeInv, PlaceInv, StartInv, FaultInv, PageInv, FaultPlaces, Working, Mapped
<1> QED  BY <1>1, <1>2, <1>3, <1>4 DEF LifeInv, OrderlyInv

LEMMA InitPagefileKeeps == LifeInv /\ InitPagefile => LifeInv'
<1> SUFFICES ASSUME LifeInv, InitPagefile PROVE LifeInv'  OBVIOUS
<1> USE DEF InitPagefile, GoesOn, objects, handler, user
<1>1. Types'  BY DEF LifeInv, Types
<1>2. PlaceInv'  BY DEF LifeInv, Types, PlaceInv, FaultPlaces, Working, Mapped
<1>3. CleanInv'
  BY DEF CleanInv
<1>4. ASSUME orderly' PROVE (accident = "none" /\ StartInv /\ FaultInv /\ PageInv)'
  BY <1>4
     DEF LifeInv, OrderlyInv, StartInv, FaultInv, PageInv, FaultPlaces, Working,
         Mapped
<1> QED  BY <1>1, <1>2, <1>3, <1>4 DEF LifeInv, OrderlyInv

LEMMA OpenLogfileKeeps == LifeInv /\ OpenLogfile => LifeInv'
<1> SUFFICES ASSUME LifeInv, OpenLogfile PROVE LifeInv'  OBVIOUS
<1> USE DEF OpenLogfile, GoesOn, objects, handler, user
<1>1. Types'  BY DEF LifeInv, Types
<1>2. PlaceInv'  BY DEF LifeInv, Types, PlaceInv, FaultPlaces, Working, Mapped
<1>3. CleanInv'
  BY DEF CleanInv
<1>4. ASSUME orderly' PROVE (accident = "none" /\ StartInv /\ FaultInv /\ PageInv)'
  BY <1>4
     DEF LifeInv, OrderlyInv, StartInv, FaultInv, PageInv, FaultPlaces, Working,
         Mapped
<1> QED  BY <1>1, <1>2, <1>3, <1>4 DEF LifeInv, OrderlyInv

LEMMA OpenSharedKeeps == LifeInv /\ OpenShared => LifeInv'
<1> SUFFICES ASSUME LifeInv, OpenShared PROVE LifeInv'  OBVIOUS
<1> USE DEF OpenShared, GoesOn, objects, handler, user
<1>1. Types'
  <2>1. pid' \in [Objects -> Int]
    BY DEF LifeInv, Types
  <2>2. req_pageno' \in [Objects -> Pages \union {VOID_IDX}]
    BY ZeroIsPage DEF LifeInv, Types
  <2>3. sema' \in [Objects -> Nat]
    BY DEF LifeInv, Types
  <2>4. present' \in [Objects -> SUBSET Pages]
    BY DEF LifeInv, Types
  <2>5. origin' \in [Objects -> [Pages -> Int]]
    BY DEF LifeInv, Types
  <2> QED
    BY <2>2 DEF LifeInv, Types, Mapped
<1>2. PlaceInv'  BY DEF LifeInv, Types, PlaceInv, FaultPlaces, Mapped
<1>3. CleanInv'
  BY DEF CleanInv
<1>4. ASSUME orderly' PROVE (accident = "none" /\ StartInv /\ FaultInv /\ PageInv)'
  BY <1>4 DEF LifeInv, OrderlyInv, StartInv, FaultInv, PageInv, FaultPlaces, Working
<1> QED  BY <1>1, <1>2, <1>3, <1>4 DEF LifeInv, OrderlyInv

LEMMA PublishPidKeeps == LifeInv /\ PublishPid => LifeInv'
<1> SUFFICES ASSUME LifeInv, PublishPid PROVE LifeInv'  OBVIOUS
<1> USE DEF PublishPid, GoesOn, handler, user
<1>1. Types'
  <2>1. pid' \in [Objects -> Int]
    <3>1. run \in Int  BY DEF LifeInv, Types
    <3> QED  BY <3>1 DEF LifeInv, Types
  <2>2. req_pageno' \in [Objects -> Pages \union {VOID_IDX}]
    BY DEF LifeInv, Types
  <2> QED
    BY <2>1 DEF LifeInv, Types, Mapped
<1>2. PlaceInv'  BY DEF LifeInv, Types, PlaceInv, FaultPlaces, Mapped
<1>3. CleanInv'
  BY DEF CleanInv
<1>4. ASSUME orderly' PROVE (accident = "none" /\ StartInv /\ FaultInv /\ PageInv)'
  BY <1>4
     DEF LifeInv, Types, OrderlyInv, PlaceInv, StartInv, FaultInv, PageInv,
         FaultPlaces, Working
<1> QED  BY <1>1, <1>2, <1>3, <1>4 DEF LifeInv, OrderlyInv

LEMMA InitSemaKeeps == LifeInv /\ InitSema => LifeInv'
<1> SUFFICES ASSUME LifeInv, InitSema PROVE LifeInv'  OBVIOUS
<1> USE DEF InitSema, GoesOn, handler, user
<1>1. Types'  BY DEF LifeInv, Types, Mapped
<1>2. PlaceInv'  BY DEF LifeInv, Types, PlaceInv, FaultPlaces, Mapped
<1>3. CleanInv'
  BY DEF CleanInv
<1>4. ASSUME orderly' PROVE (accident = "none" /\ StartInv /\ FaultInv /\ PageInv)'
  BY <1>4
     DEF LifeInv, Types, OrderlyInv, PlaceInv, StartInv, FaultInv, PageInv,
         FaultPlaces, Working
<1> QED  BY <1>1, <1>2, <1>3, <1>4 DEF LifeInv, OrderlyInv

LEMMA InitTableKeeps == LifeInv /\ InitTable => LifeInv'
<1> SUFFICES ASSUME LifeInv, InitTable PROVE LifeInv'  OBVIOUS
<1> USE DEF InitTable, GoesOn, handler, user
<1>1. Types'  BY DEF LifeInv, Types, Mapped
<1>2. PlaceInv'  BY DEF LifeInv, Types, PlaceInv, FaultPlaces, Mapped
<1>3. CleanInv'
  BY DEF CleanInv
<1>4. ASSUME orderly' PROVE (accident = "none" /\ StartInv /\ FaultInv /\ PageInv)'
  BY <1>4
     DEF LifeInv, Types, OrderlyInv, PlaceInv, StartInv, FaultInv, PageInv,
         FaultPlaces, Working
<1> QED  BY <1>1, <1>2, <1>3, <1>4 DEF LifeInv, OrderlyInv

LEMMA InitDataKeeps == LifeInv /\ InitData => LifeInv'
<1> SUFFICES ASSUME LifeInv, InitData PROVE LifeInv'  OBVIOUS
<1> USE DEF InitData, GoesOn, handler, user
<1>1. Types'
  <2>1. origin' \in [Objects -> [Pages -> Int]]
    <3> DEFINE new == [p \in Pages |-> NoRun]
    <3>1. new \in [Pages -> Int]  BY OldData
    <3>2. origin' = [origin EXCEPT ![vmem] = new]  OBVIOUS
    <3> HIDE DEF new
    <3> QED  BY <3>1, <3>2 DEF LifeInv, Types
  <2> QED
    BY <2>1 DEF LifeInv, Types, Mapped
<1>2. PlaceInv'  BY DEF LifeInv, Types, PlaceInv, FaultPlaces, Mapped
<1>3. CleanInv'
  BY DEF CleanInv
<1>4. ASSUME orderly' PROVE (accident = "none" /\ StartInv /\ FaultInv /\ PageInv)'
  BY <1>4
     DEF LifeInv, Types, OrderlyInv, StartInv, FaultInv, PageInv, FaultPlaces,
         Working
<1> QED  BY <1>1, <1>2, <1>3, <1>4 DEF LifeInv, OrderlyInv

LEMMA InstallUsr1Keeps == LifeInv /\ InstallUsr1 => LifeInv'
<1> SUFFICES ASSUME LifeInv, InstallUsr1 PROVE LifeInv'  OBVIOUS
<1> USE DEF InstallUsr1, GoesOn, objects, handler, user
<1>1. Types'  BY DEF LifeInv, Types, Mapped
<1>2. PlaceInv'  BY DEF LifeInv, Types, PlaceInv, FaultPlaces, Mapped
<1>3. CleanInv'
  BY DEF CleanInv
<1>4. ASSUME orderly' PROVE (accident = "none" /\ StartInv /\ FaultInv /\ PageInv)'
  BY <1>4
     DEF LifeInv, Types, OrderlyInv, StartInv, FaultInv, PageInv, FaultPlaces,
         Working
<1> QED  BY <1>1, <1>2, <1>3, <1>4 DEF LifeInv, OrderlyInv

LEMMA InstallIntKeeps == LifeInv /\ InstallInt => LifeInv'
<1> SUFFICES ASSUME LifeInv, InstallInt PROVE LifeInv'  OBVIOUS
<1> USE DEF InstallInt, GoesOn, objects, handler, user
<1>1. Types'  BY DEF LifeInv, Types, Working, Mapped
<1>2. PlaceInv'  BY DEF LifeInv, Types, PlaceInv, FaultPlaces, Working, Mapped
<1>3. CleanInv'
  BY DEF CleanInv
<1>4. ASSUME orderly' PROVE (accident = "none" /\ StartInv /\ FaultInv /\ PageInv)'
  BY <1>4
     DEF LifeInv, Types, OrderlyInv, StartInv, FaultInv, PageInv, FaultPlaces,
         Working
<1> QED  BY <1>1, <1>2, <1>3, <1>4 DEF LifeInv, OrderlyInv

LEMMA KilledKeeps == LifeInv /\ Killed => LifeInv'
<1> SUFFICES ASSUME LifeInv, Killed PROVE LifeInv'  OBVIOUS
<1> USE DEF Killed, Ends, HandlerReturns, objects, user
<1>1. Types'  BY DEF LifeInv, Types
<1>2. PlaceInv'  BY DEF LifeInv, Types, PlaceInv, FaultPlaces, Working, Mapped
<1>3. CleanInv'
  BY DEF CleanInv
<1>4. ASSUME orderly' PROVE (accident = "none" /\ StartInv /\ FaultInv /\ PageInv)'
  BY <1>4
     DEF LifeInv, OrderlyInv, StartInv, FaultInv, PageInv, FaultPlaces, Working,
         Mapped
<1> QED  BY <1>1, <1>2, <1>3, <1>4 DEF LifeInv, OrderlyInv

LEMMA DiesOfSignalKeeps == LifeInv /\ DiesOfSignal => LifeInv'
<1> SUFFICES ASSUME LifeInv, DiesOfSignal PROVE LifeInv'  OBVIOUS
<1> USE DEF DiesOfSignal, Ends, HandlerReturns, objects, user, Mishap
<1>1. Types'  BY DEF LifeInv, Types
<1>2. PlaceInv'  BY DEF LifeInv, Types, PlaceInv, FaultPlaces, Working, Mapped
<1>3. CleanInv'
  BY DEF CleanInv
<1>4. ASSUME orderly' PROVE (accident = "none" /\ StartInv /\ FaultInv /\ PageInv)'
  BY <1>4 DEF LifeInv, OrderlyInv, StartInv, FaultInv, Working
<1> QED  BY <1>1, <1>2, <1>3, <1>4 DEF LifeInv, OrderlyInv

LEMMA QuitLoopKeeps == LifeInv /\ QuitLoop => LifeInv'
<1> SUFFICES ASSUME LifeInv, QuitLoop PROVE LifeInv'  OBVIOUS
<1> USE DEF QuitLoop, objects, handler, user
<1>1. Types'  BY DEF LifeInv, Types, Mapped
<1>2. PlaceInv'  BY DEF LifeInv, Types, PlaceInv, FaultPlaces, Mapped
<1>3. CleanInv'
  BY DEF CleanInv
<1>4. ASSUME orderly' PROVE (accident = "none" /\ StartInv /\ FaultInv /\ PageInv)'
  BY <1>4 DEF LifeInv, OrderlyInv, StartInv, FaultInv, PageInv, FaultPlaces, Working
<1> QED  BY <1>1, <1>2, <1>3, <1>4 DEF LifeInv, OrderlyInv

LEMMA UnmapKeeps == LifeInv /\ Unmap => LifeInv'
<1> SUFFICES ASSUME LifeInv, Unmap PROVE LifeInv'  OBVIOUS
<1> USE DEF Unmap, GoesOn, objects, handler, user
<1>1. Types'  BY DEF LifeInv, Types
<1>2. PlaceInv'  BY DEF LifeInv, Types, PlaceInv, FaultPlaces, Working, Mapped
<1>3. CleanInv'
  BY DEF CleanInv
<1>4. ASSUME orderly' PROVE (accident = "none" /\ StartInv /\ FaultInv /\ PageInv)'
  BY <1>4
     DEF LifeInv, OrderlyInv, StartInv, FaultInv, PageInv, FaultPlaces, Working,
         Mapped
<1> QED  BY <1>1, <1>2, <1>3, <1>4 DEF LifeInv, OrderlyInv

LEMMA UnlinkKeeps == LifeInv /\ Unlink => LifeInv'
<1> SUFFICES ASSUME LifeInv, Unlink PROVE LifeInv'  OBVIOUS
<1> USE DEF Unlink, GoesOn, objects, handler, user
<1>1. Types'  BY DEF LifeInv, Types
<1>2. PlaceInv'  BY DEF LifeInv, Types, PlaceInv, FaultPlaces, Working, Mapped
<1>3. CleanInv'
  BY DEF LifeInv, CleanInv
<1>4. ASSUME orderly' PROVE (accident = "none" /\ StartInv /\ FaultInv /\ PageInv)'
  BY <1>4
     DEF LifeInv, OrderlyInv, StartInv, FaultInv, PageInv, FaultPlaces, Working,
         Mapped
<1> QED  BY <1>1, <1>2, <1>3, <1>4 DEF LifeInv, OrderlyInv

LEMMA CloseAndExitKeeps == LifeInv /\ CloseAndExit => LifeInv'
<1> SUFFICES ASSUME LifeInv, CloseAndExit PROVE LifeInv'  OBVIOUS
<1> USE DEF CloseAndExit, Ends, HandlerReturns, objects, user
<1>1. Types'  BY DEF LifeInv, Types
<1>2. PlaceInv'  BY DEF LifeInv, Types, PlaceInv, FaultPlaces, Working, Mapped
<1>3. CleanInv'
  BY DEF LifeInv, CleanInv
<1>4. ASSUME orderly' PROVE (accident = "none" /\ StartInv /\ FaultInv /\ PageInv)'
  BY <1>4
     DEF LifeInv, OrderlyInv, StartInv, FaultInv, PageInv, FaultPlaces, Working,
         Mapped
<1> QED  BY <1>1, <1>2, <1>3, <1>4 DEF LifeInv, OrderlyInv

LEMMA EnterFaultKeeps == LifeInv /\ EnterFault => LifeInv'
<1> SUFFICES ASSUME LifeInv, EnterFault PROVE LifeInv'  OBVIOUS
<1> USE DEF EnterFault, Serves, user, handler, CanHandle
<1>1. Types'
  <2>1. vmem \in Objects  BY DEF LifeInv, PlaceInv, CleanInv, Mapped, Working
  <2>2. req_page' \in Pages \union {VOID_IDX}  BY <2>1 DEF LifeInv, Types
  <2> QED  BY <2>2 DEF LifeInv, Types, FaultPlaces, Working, Mapped
<1>2. PlaceInv'
  <2>1. vmem \in Objects /\ mm \in {"sigaction int", "loop", "munmap"}
    BY DEF LifeInv, PlaceInv, CleanInv, Mapped, Working
  <2> QED  BY <2>1 DEF LifeInv, PlaceInv, FaultPlaces, Working, Mapped
<1>3. CleanInv'
  BY DEF CleanInv
<1>4. ASSUME orderly' PROVE (accident = "none" /\ StartInv /\ FaultInv /\ PageInv)'
  BY <1>4
     DEF LifeInv, Types, OrderlyInv, StartInv, FaultInv, PageInv, FaultPlaces,
         Working
<1> QED  BY <1>1, <1>2, <1>3, <1>4 DEF LifeInv, OrderlyInv

LEMMA CrashInFaultKeeps == LifeInv /\ CrashInFault => LifeInv'
<1> SUFFICES ASSUME LifeInv, CrashInFault PROVE LifeInv'  OBVIOUS
<1> USE DEF CrashInFault, Ends, HandlerReturns, objects, user, Mishap, CanHandle
<1>1. Types'  BY DEF LifeInv, Types
<1>2. PlaceInv'  BY DEF LifeInv, Types, PlaceInv, FaultPlaces, Working, Mapped
<1>3. CleanInv'
  BY DEF CleanInv
<1>4. ASSUME orderly' PROVE (accident = "none" /\ StartInv /\ FaultInv /\ PageInv)'
  BY <1>4 DEF LifeInv, OrderlyInv, StartInv, FaultInv, Working
<1> QED  BY <1>1, <1>2, <1>3, <1>4 DEF LifeInv, OrderlyInv

LEMMA StorePageKeeps == LifeInv /\ StorePage => LifeInv'
<1> SUFFICES ASSUME LifeInv, StorePage PROVE LifeInv'  OBVIOUS
<1> USE DEF StorePage, Serves, objects, handler, user
<1>1. Types'  BY DEF LifeInv, Types, FaultPlaces, Working, Mapped
<1>2. PlaceInv'  BY DEF LifeInv, Types, PlaceInv, FaultPlaces, Working, Mapped
<1>3. CleanInv'
  BY DEF CleanInv
<1>4. ASSUME orderly' PROVE (accident = "none" /\ StartInv /\ FaultInv /\ PageInv)'
  BY <1>4
     DEF LifeInv, Types, OrderlyInv, StartInv, FaultInv, PageInv, FaultPlaces,
         Working
<1> QED  BY <1>1, <1>2, <1>3, <1>4 DEF LifeInv, OrderlyInv

\* A manager that serves a fault has its object, with the data of its pages.
LEMMA ServedObject ==
  ASSUME LifeInv, mm \in FaultPlaces
  PROVE  /\ vmem \in Objects /\ pagefile \in Int /\ origin[vmem] \in [Pages -> Int]
<1>1. vmem \in Objects  BY DEF LifeInv, PlaceInv, FaultPlaces, Working, Mapped
<1> QED  BY <1>1 DEF LifeInv, Types

LEMMA UpdatePtKeeps == LifeInv /\ UpdatePt => LifeInv'
<1> SUFFICES ASSUME LifeInv, UpdatePt PROVE LifeInv'  OBVIOUS
<1> USE DEF UpdatePt, Serves, user, handler, Mishap
<1>1. Types'
  <2>1. vmem \in Objects /\ origin[vmem] \in [Pages -> Int]
    BY ServedObject DEF FaultPlaces
  <2>2. origin' \in [Objects -> [Pages -> Int]]
    <3> DEFINE new == [p \in Pages |-> IF p = req_pageno[vmem] THEN NoRun
                                                               ELSE origin[vmem][p]]
    <3>1. origin' = [origin EXCEPT ![vmem] = new]  OBVIOUS
    <3>2. ASSUME NEW p \in Pages PROVE new[p] \in Int
      <4> HIDE DEF UpdatePt
      <4>1. NoRun \in Int  OBVIOUS
      <4> HIDE DEF NoRun
      <4>2. origin[vmem][p] \in Int  BY <2>1
      <4> QED  BY <4>1, <4>2
    <3>3. new \in [Pages -> Int]
      <4> HIDE DEF UpdatePt, NoRun
      <4> QED  BY <3>2
    <3> HIDE DEF new
    <3> QED  BY <3>1, <3>3 DEF LifeInv, Types
  <2>3. present' \in [Objects -> SUBSET Pages]  BY <2>1 DEF LifeInv, Types
  <2> QED  BY <2>2, <2>3 DEF LifeInv, Types, FaultPlaces, Working, Mapped
<1>2. PlaceInv'  BY DEF LifeInv, Types, PlaceInv, FaultPlaces, Working, Mapped
<1>3. CleanInv'
  BY DEF CleanInv
<1>4. ASSUME orderly' PROVE (accident = "none" /\ StartInv /\ FaultInv /\ PageInv)'
  <2>1. accident' = "none"
    <3>1. orderly /\ mm = "update"  BY <1>4
    <3>2. cvmem = vmem /\ req_pageno[vmem] = page /\ accident = "none"
      BY <3>1 DEF LifeInv, OrderlyInv, FaultInv, PageInv, FaultPlaces, Working
    <3>3. req_pageno[vmem] # VOID_IDX  BY <3>2, PagesAreNot DEF LifeInv, Types
    <3> QED  BY <3>2, <3>3
  <2>2. StartInv'
    BY <1>4 DEF LifeInv, Types, OrderlyInv, StartInv, FaultPlaces, Working
  <2>3. FaultInv'
    BY <1>4 DEF LifeInv, OrderlyInv, FaultInv, FaultPlaces
  <2>4. PageInv'
    BY <1>4
       DEF LifeInv, Types, OrderlyInv, PlaceInv, StartInv, FaultInv, PageInv,
           FaultPlaces
  <2> QED  BY <2>1, <2>2, <2>3, <2>4
<1> QED  BY <1>1, <1>2, <1>3, <1>4 DEF LifeInv, OrderlyInv

LEMMA FetchPageKeeps == LifeInv /\ FetchPage => LifeInv'
<1> SUFFICES ASSUME LifeInv, FetchPage PROVE LifeInv'  OBVIOUS
<1> USE DEF FetchPage, Serves, user, handler, Mishap
<1>1. Types'
  <2>1. origin' \in [Objects -> [Pages -> Int]]
    <3>1. vmem \in Objects /\ pagefile \in Int /\ origin[vmem] \in [Pages -> Int]
      BY ServedObject DEF FaultPlaces
    <3> DEFINE new == [origin[vmem] EXCEPT ![req_page] = pagefile]
    <3>2. new \in [Pages -> Int]  BY <3>1
    <3>3. origin' = origin \/ origin' = [origin EXCEPT ![vmem] = new]  OBVIOUS
    <3> HIDE DEF new
    <3> QED  BY <3>2, <3>3 DEF LifeInv, Types
  <2> QED
    BY <2>1 DEF LifeInv, Types, FaultPlaces, Working, Mapped
<1>2. PlaceInv'  BY DEF LifeInv, Types, PlaceInv, FaultPlaces, Working, Mapped
<1>3. CleanInv'
  BY DEF CleanInv
<1>4. ASSUME orderly' PROVE (accident = "none" /\ StartInv /\ FaultInv /\ PageInv)'
  <2>1. /\ orderly /\ mm = "fetch" /\ mm' = "post" /\ req_page = page
        /\ page \in present[vmem] /\ page \in Pages /\ pagefile = run
        /\ OrderlyInv
    BY <1>4
    DEF LifeInv, Types, OrderlyInv, PlaceInv, PageInv, FaultPlaces, Working
  <2>2. accident' = "none" /\ origin' = [origin EXCEPT ![vmem] = [@ EXCEPT ![page] = run]]
    BY <2>1 DEF OrderlyInv
  <2>3. StartInv' /\ FaultInv'
    <3>1. /\ UNCHANGED <<vmem, client, usr1, name, pid, run, sema, present, back>>
          /\ mm' = "post" /\ mm = "fetch"
      BY <2>1
    <3>2. StartInv /\ FaultInv  BY <2>1 DEF OrderlyInv
    <3> HIDE DEF FetchPage
    <3>3. StartInv'  BY <3>1, <3>2 DEF StartInv, FaultPlaces, Working, Mapped
    <3>4. FaultInv'  BY <3>1, <3>2 DEF FaultInv, FaultPlaces
    <3> QED  BY <3>3, <3>4
  <2>4. \A p \in present[vmem] : origin'[vmem][p] = run
    <3>1. vmem \in Objects /\ origin[vmem] \in [Pages -> Int]
      BY ServedObject DEF FaultPlaces
    <3>2. origin'[vmem] = [origin[vmem] EXCEPT ![page] = run]
      BY <2>2, <3>1 DEF LifeInv, Types
    <3>3. \A p \in present[vmem] : p \in Pages /\ (p # page => origin[vmem][p] = run)
      BY <2>1, <3>1 DEF LifeInv, Types, OrderlyInv, PageInv, FaultPlaces, Working
    <3> HIDE DEF FetchPage
    <3> QED  BY <3>1, <3>2, <3>3
  <2>5. PageInv'
    <3>1. /\ UNCHANGED <<vmem, client, cvmem, page, req_pageno, present, run>>
          /\ mm' = "post" /\ mm \in Working
      BY <2>1 DEF FaultPlaces, Working
    <3>2. PageInv  BY <2>1 DEF OrderlyInv
    <3>3. \A p \in present'[vmem'] : origin'[vmem'][p] = run'
      BY <2>4, <3>1
    <3>4. /\ mm' \in Working /\ client' # "off" => cvmem' = vmem'
          /\ client' \in {"check", "kill", "wait"} => req_pageno'[cvmem'] = page'
          /\ client' = "access" => page' \in present'[cvmem']
      BY <3>1, <3>2 DEF PageInv
    <3>5. page' \in present'[vmem']  BY <2>1, <3>1
    <3> HIDE DEF FetchPage
    <3> QED  BY <3>1, <3>3, <3>4, <3>5 DEF PageInv
  <2> QED  BY <2>2, <2>3, <2>5
<1> QED  BY <1>1, <1>2, <1>3, <1>4 DEF LifeInv, OrderlyInv

LEMMA PostSemaKeeps == LifeInv /\ PostSema => LifeInv'
<1> SUFFICES ASSUME LifeInv, PostSema PROVE LifeInv'  OBVIOUS
<1> USE DEF PostSema, Serves, user, HandlerReturns
<1>1. Types'
  <2>1. sema' \in [Objects -> Nat]
    <3>1. vmem \in Objects /\ sema[vmem] \in Nat
      BY DEF LifeInv, Types, PlaceInv
    <3>2. sema[vmem] + 1 \in Nat /\ sema' = [sema EXCEPT ![vmem] = sema[vmem] + 1]
      BY <3>1
    <3> QED  BY <3>2 DEF LifeInv, Types
  <2>2. mm' \in Mapped
    BY DEF LifeInv, PlaceInv, FaultPlaces, Working, Mapped
  <2> QED
    BY <2>1, <2>2 DEF LifeInv, Types
<1>2. PlaceInv'  BY DEF LifeInv, Types, PlaceInv, FaultPlaces
<1>3. CleanInv'
  BY DEF LifeInv, PlaceInv, CleanInv, FaultPlaces
<1>4. ASSUME orderly' PROVE (accident = "none" /\ StartInv /\ FaultInv /\ PageInv)'
  BY <1>4
     DEF LifeInv, Types, OrderlyInv, PlaceInv, StartInv, FaultInv, PageInv,
         FaultPlaces, Working
<1> QED  BY <1>1, <1>2, <1>3, <1>4 DEF LifeInv, OrderlyInv

LEMMA PagefileFailsKeeps == LifeInv /\ PagefileFails => LifeInv'
<1> SUFFICES ASSUME LifeInv, PagefileFails PROVE LifeInv'  OBVIOUS
<1> USE DEF PagefileFails, Ends, HandlerReturns, objects, user
<1>1. Types'  BY DEF LifeInv, Types
<1>2. PlaceInv'  BY DEF LifeInv, Types, PlaceInv, FaultPlaces, Working, Mapped
<1>3. CleanInv'
  BY DEF CleanInv
<1>4. ASSUME orderly' PROVE (accident = "none" /\ StartInv /\ FaultInv /\ PageInv)'
  BY <1>4 DEF LifeInv, OrderlyInv, FaultInv, FaultPlaces
<1> QED  BY <1>1, <1>2, <1>3, <1>4 DEF LifeInv, OrderlyInv

LEMMA ConnectKeeps == LifeInv /\ Connect => LifeInv'
<1> SUFFICES ASSUME LifeInv, Connect PROVE LifeInv'  OBVIOUS
<1> USE DEF Connect, objects, handler
<1>1. Types'  BY DEF LifeInv, Types
<1>2. PlaceInv'  BY DEF LifeInv, Types, PlaceInv
<1>3. CleanInv'
  BY DEF LifeInv, CleanInv
<1>4. ASSUME orderly' PROVE (accident = "none" /\ StartInv /\ FaultInv /\ PageInv)'
  BY <1>4 DEF LifeInv, Types, OrderlyInv, StartInv, FaultInv, PageInv, Working
<1> QED  BY <1>1, <1>2, <1>3, <1>4 DEF LifeInv, OrderlyInv

LEMMA BeginAccessKeeps == LifeInv /\ BeginAccess => LifeInv'
<1> SUFFICES ASSUME LifeInv, BeginAccess PROVE LifeInv'  OBVIOUS
<1>0. PICK p \in Pages :
        /\ ClientDoes("run", "check")
        /\ page' = p
        /\ req_pageno' = [req_pageno EXCEPT ![cvmem] = p]
        /\ UNCHANGED <<sema, cvmem, signalled, usr1, accident, orderly>>
  BY DEF BeginAccess
<1> USE <1>0 DEF ClientDoes, handler
<1>1. Types'
  <2>1. req_pageno' \in [Objects -> Pages \union {VOID_IDX}]
    BY DEF LifeInv, Types
  <2>2. page' \in Pages
    BY DEF LifeInv
  <2> QED
    BY DEF LifeInv, Types
<1>2. PlaceInv'  BY DEF LifeInv, Types, PlaceInv
<1>3. CleanInv'
  BY DEF LifeInv, CleanInv
<1>4. ASSUME orderly' PROVE (accident = "none" /\ StartInv /\ FaultInv /\ PageInv)'
  BY <1>4
     DEF LifeInv, Types, OrderlyInv, PlaceInv, StartInv, FaultInv, PageInv,
         FaultPlaces
<1> QED  BY <1>1, <1>2, <1>3, <1>4 DEF LifeInv, OrderlyInv

LEMMA CheckPresentKeeps == LifeInv /\ CheckPresent => LifeInv'
<1> SUFFICES ASSUME LifeInv, CheckPresent PROVE LifeInv'  OBVIOUS
<1> USE DEF CheckPresent, ClientDoes, handler
<1>1. Types'  BY DEF LifeInv, Types
<1>2. PlaceInv'  BY DEF LifeInv, Types, PlaceInv
<1>3. CleanInv'
  BY DEF LifeInv, CleanInv
<1>4. ASSUME orderly' PROVE (accident = "none" /\ StartInv /\ FaultInv /\ PageInv)'
  BY <1>4 DEF LifeInv, OrderlyInv, StartInv, FaultInv, PageInv
<1> QED  BY <1>1, <1>2, <1>3, <1>4 DEF LifeInv, OrderlyInv

LEMMA RaiseFaultKeeps == LifeInv /\ RaiseFault => LifeInv'
<1> SUFFICES ASSUME LifeInv, RaiseFault PROVE LifeInv'  OBVIOUS
<1> USE DEF RaiseFault, ClientDoes, handler
<1>1. Types'  BY DEF LifeInv, Types
<1>2. PlaceInv'  BY DEF LifeInv, Types, PlaceInv
<1>3. CleanInv'
  BY DEF LifeInv, CleanInv
<1>4. ASSUME orderly' PROVE (accident = "none" /\ StartInv /\ FaultInv /\ PageInv)'
  BY <1>4 DEF LifeInv, Types, OrderlyInv, StartInv, FaultInv, PageInv
<1> QED  BY <1>1, <1>2, <1>3, <1>4 DEF LifeInv, OrderlyInv

LEMMA KillsItselfKeeps == LifeInv /\ KillsItself => LifeInv'
<1> SUFFICES ASSUME LifeInv, KillsItself PROVE LifeInv'  OBVIOUS
<1> USE DEF KillsItself, ClientDoes, ClientGone, Mishap, handler
<1>1. Types'
  <2>1. page' \in Pages
    BY ZeroIsPage
  <2> QED
    BY <2>1 DEF LifeInv, Types
<1>2. PlaceInv'  BY DEF LifeInv, Types, PlaceInv
<1>3. CleanInv'
  BY DEF LifeInv, CleanInv
<1>4. ASSUME orderly' PROVE (accident = "none" /\ StartInv /\ FaultInv /\ PageInv)'
  <2>1. accident' = "none"
    <3>1. client = "kill" /\ pid[cvmem] = NoRun /\ orderly  BY <1>4
    <3>2. mm \in Working /\ cvmem = vmem /\ pid[vmem] = run
      BY <3>1 DEF LifeInv, OrderlyInv, StartInv, PageInv, FaultPlaces, Working, Mapped
    <3>3. run > NoRun
      BY <3>2 DEF LifeInv, PlaceInv, FaultPlaces, Working
    <3>4. run = NoRun  BY <3>1, <3>2
    <3> HIDE DEF KillsItself, ClientDoes, ClientGone, Mishap
    <3> QED  BY <3>3, <3>4
  <2>2. StartInv'
    BY <1>4 DEF LifeInv, OrderlyInv, StartInv
  <2>3. FaultInv'
    BY <1>4 DEF LifeInv, OrderlyInv, FaultInv
  <2>4. PageInv'
    BY <1>4 DEF LifeInv, OrderlyInv, FaultInv, PageInv, FaultPlaces
  <2> QED  BY <2>1, <2>3, <2>4
<1> QED  BY <1>1, <1>2, <1>3, <1>4 DEF LifeInv, OrderlyInv

LEMMA AwaitPageKeeps == LifeInv /\ AwaitPage => LifeInv'
<1> SUFFICES ASSUME LifeInv, AwaitPage PROVE LifeInv'  OBVIOUS
<1> USE DEF AwaitPage, ClientDoes, handler
<1>1. Types'
  <2>1. sema' \in [Objects -> Nat]
    <3>1. cvmem \in Objects /\ sema[cvmem] \in Nat /\ sema[cvmem] > 0
      BY DEF LifeInv, Types, PlaceInv
    <3>2. sema[cvmem] - 1 \in Nat /\ sema' = [sema EXCEPT ![cvmem] = sema[cvmem] - 1]
      BY <3>1
    <3> QED  BY <3>2 DEF LifeInv, Types
  <2> QED
    BY <2>1 DEF LifeInv, Types
<1>2. PlaceInv'  BY DEF LifeInv, Types, PlaceInv
<1>3. CleanInv'
  BY DEF LifeInv, CleanInv
<1>4. ASSUME orderly' PROVE (accident = "none" /\ StartInv /\ FaultInv /\ PageInv)'
  <2>1. accident' = "none"
    BY <1>4 DEF LifeInv, OrderlyInv
  <2>2. StartInv'
    BY <1>4 DEF LifeInv, OrderlyInv, StartInv, FaultPlaces, Working
  <2>3. orderly /\ client = "wait" /\ client' = "access" /\ mm' = mm /\ sema[cvmem] > 0
    BY <1>4
  <2>4. mm = "loop" /\ cvmem = vmem /\ ~usr1 /\ sema[vmem] = 1 /\ page \in present[vmem]
    <3>1. mm \in Working /\ cvmem = vmem
      BY <2>3 DEF LifeInv, OrderlyInv, StartInv, PageInv
    <3> QED
      BY <2>3, <3>1 DEF LifeInv, OrderlyInv, FaultInv, Working
  <2>5. sema'[vmem] = 0
    <3>1. vmem \in Objects  BY <2>4 DEF LifeInv, PlaceInv, Mapped, Working
    <3>2. sema' = [sema EXCEPT ![vmem] = sema[vmem] - 1]  BY <2>4
    <3>3. sema[vmem] - 1 = 0  BY <2>4
    <3> QED  BY <3>1, <3>2, <3>3 DEF LifeInv, Types
  <2>6. FaultInv'
    <3>1. mm' = "loop" /\ client' = "access" /\ ~usr1' /\ sema'[vmem'] = 0
      BY <2>4, <2>5
    <3> QED  BY <3>1 DEF FaultInv, FaultPlaces
  <2>7. PageInv'
    BY <2>3, <2>4 DEF LifeInv, OrderlyInv, PageInv
  <2> QED  BY <2>1, <2>2, <2>6, <2>7
<1> QED  BY <1>1, <1>2, <1>3, <1>4 DEF LifeInv, OrderlyInv

LEMMA AccessKeeps == LifeInv /\ Access => LifeInv'
<1> SUFFICES ASSUME LifeInv, Access PROVE LifeInv'  OBVIOUS
<1> USE DEF Access, ClientDoes, Mishap, handler
<1>1. Types'
  <2>1. page' \in Pages
    BY ZeroIsPage
  <2> QED
    BY <2>1 DEF LifeInv, Types
<1>2. PlaceInv'  BY DEF LifeInv, Types, PlaceInv
<1>3. CleanInv'
  BY DEF LifeInv, CleanInv
<1>4. ASSUME orderly' PROVE (accident = "none" /\ StartInv /\ FaultInv /\ PageInv)'
  BY <1>4 DEF LifeInv, OrderlyInv, PlaceInv, StartInv, FaultInv, PageInv, Working
<1> QED  BY <1>1, <1>2, <1>3, <1>4 DEF LifeInv, OrderlyInv

LEMMA LeaveKeeps == LifeInv /\ Leave => LifeInv'
<1> SUFFICES ASSUME LifeInv, Leave PROVE LifeInv'  OBVIOUS
<1> USE DEF Leave, ClientDoes, ClientGone, handler
<1>1. Types'
  <2>1. page' \in Pages
    BY ZeroIsPage
  <2> QED
    BY <2>1 DEF LifeInv, Types
<1>2. PlaceInv'  BY DEF LifeInv, Types, PlaceInv
<1>3. CleanInv'
  BY DEF LifeInv, CleanInv
<1>4. ASSUME orderly' PROVE (accident = "none" /\ StartInv /\ FaultInv /\ PageInv)'
  BY <1>4 DEF LifeInv, OrderlyInv, StartInv, FaultInv, PageInv, FaultPlaces
<1> QED  BY <1>1, <1>2, <1>3, <1>4 DEF LifeInv, OrderlyInv

-----------------------------------------------------------------------------

LEMMA LifeStep == LifeInv /\ [Next]_vars => LifeInv'
<1> SUFFICES ASSUME LifeInv, [Next]_vars PROVE LifeInv'  OBVIOUS
<1>1. CASE UNCHANGED vars
  <2> USE <1>1 DEF vars, objects, handler, user
  <2>1. Types'  BY DEF LifeInv, Types
  <2>2. PlaceInv' /\ CleanInv'  BY DEF LifeInv, PlaceInv, CleanInv
  <2>3. OrderlyInv'  BY DEF LifeInv, OrderlyInv, StartInv, FaultInv, PageInv
  <2> QED  BY <2>1, <2>2, <2>3 DEF LifeInv
<1>2. CASE Next
  BY <1>2, StartKeeps, InitPagefileKeeps, OpenLogfileKeeps, OpenSharedKeeps,
     PublishPidKeeps, InitSemaKeeps, InitTableKeeps, InitDataKeeps, InstallUsr1Keeps,
     InstallIntKeeps, KilledKeeps, DiesOfSignalKeeps, QuitLoopKeeps, UnmapKeeps,
     UnlinkKeeps, CloseAndExitKeeps, EnterFaultKeeps, CrashInFaultKeeps,
     StorePageKeeps, UpdatePtKeeps, FetchPageKeeps, PostSemaKeeps,
     PagefileFailsKeeps, ConnectKeeps, BeginAccessKeeps, CheckPresentKeeps,
     RaiseFaultKeeps, KillsItselfKeeps, AwaitPageKeeps, AccessKeeps, LeaveKeeps
     DEF Next, Startup, Cleanup, Fault, Proceed
<1> QED  BY <1>1, <1>2

LEMMA LifeInvariant == Spec => []LifeInv
  BY LifeInit, LifeStep, PTL DEF Spec

LEMMA FairIsSpec == FairSpec => Spec
  BY PTL DEF FairSpec

\* Whatever earlier managers and clients have left behind, a client that comes
\* when the manager is in its main loop and goes before it is safe.
THEOREM PriorStartSuffices == FairSpec => []StartedPriorIsEnough
<1>1. LifeInv => StartedPriorIsEnough
  BY DEF LifeInv, OrderlyInv, StartedPriorIsEnough
<1> QED  BY <1>1, FairIsSpec, LifeInvariant, PTL

\* However the manager before was killed, and wherever in a page fault, the
\* next one starts from an empty memory and an empty semaphore.
THEOREM RestartsForget == FairSpec => []RestartForgets
<1>1. LifeInv => RestartForgets
  BY DEF LifeInv, OrderlyInv, StartInv, FaultInv, PageInv, RestartForgets, Mapped,
         Working
<1> QED  BY <1>1, FairIsSpec, LifeInvariant, PTL

\* A manager that got through cleanup leaves no object to connect to.
THEOREM CleanExitsLeaveNothing == FairSpec => []CleanExitLeavesNothing
<1>1. LifeInv => CleanExitLeavesNothing
  BY DEF LifeInv, CleanInv, CleanExitLeavesNothing
<1> QED  BY <1>1, FairIsSpec, LifeInvariant, PTL

-----------------------------------------------------------------------------
(* The handlers of MManageSignals *)

Places == {"store", "test", "notice", "skip", "fault", "done"}
Frames == [sig : Signals, at : Places, hit : BOOLEAN]

SignalTypes ==
  /\ pending \subseteq Signals
  /\ stack \in Seq(Frames)
  /\ adm_sema \in Nat
  /\ caller \in {"run", "wait"}

\* A handler that nobody interrupted before its test is the running one, and
\* signal_number is still what it has stored.
UnhitTests ==
  \A i \in 1 .. Depth : stack[i].at = "test" /\ ~stack[i].hit =>
    i = Depth /\ signal_number = stack[i].sig

\* No other signal's handler takes a fault for its own.
FaultsHaveOwnHandler ==
  \A i \in 1 .. Depth : stack[i].at \in {"notice", "fault"} => stack[i].sig = "USR1"

HandlerInv == /\ SignalTypes /\ UnhitTests /\ FaultsHaveOwnHandler
              /\ SkippedOnlyWhenHit /\ FaultNumberHasOwner

\* The handlers whose page fault is still to come.
Owing == {i \in 1 .. Depth : stack[i].sig = "USR1" /\
                               stack[i].at \in {"store", "test", "notice", "fault"}}

-----------------------------------------------------------------------------
(* What the steps do to the handlers *)

\* A handler is entered on top of the others.
LEMMA DeliverPushes ==
  ASSUME SignalTypes, NEW s \in Signals, Deliver(s)
  PROVE  /\ SignalTypes' /\ Depth' = Depth + 1
         /\ stack'[Depth'] = Frame(s)
         /\ \A i \in 1 .. Depth :
              /\ stack'[i].sig = stack[i].sig /\ stack'[i].at = stack[i].at
              /\ stack'[i].hit <=>
                   (stack[i].hit \/ (i = Depth /\ stack[i].at = "test"))
<1> DEFINE st == MarkHit(stack)
<1>1. /\ st \in Seq(Frames) /\ Len(st) = Depth
      /\ \A i \in 1 .. Depth :
           /\ st[i].sig = stack[i].sig /\ st[i].at = stack[i].at
           /\ st[i].hit <=> (stack[i].hit \/ (i = Depth /\ stack[i].at = "test"))
  <2>0. stack \in Seq(Frames) /\ Depth \in Nat
    BY DEF SignalTypes, Depth
  <2>1. CASE stack # <<>> /\ stack[Len(stack)].at = "test"
    <3> DEFINE n == Len(stack)
               e == [stack[n] EXCEPT !.hit = TRUE]
    <3>1. n \in 1 .. n /\ stack[n] \in Frames  BY <2>0, <2>1, EmptySeq DEF Depth
    <3>2. st = [stack EXCEPT ![n] = e]  BY <2>1 DEF MarkHit
    <3>3. /\ e \in Frames /\ e.sig = stack[n].sig /\ e.at = stack[n].at /\ e.hit
      BY <3>1 DEF Frames
    <3> HIDE DEF e, st
    <3>4. /\ st \in Seq(Frames) /\ Len(st) = n
          /\ \A j \in 1 .. n : st[j] = IF j = n THEN e ELSE stack[j]
      BY <2>0, <3>1, <3>2, <3>3, ExceptSeq
    <3>5. \A j \in 1 .. n : stack[j] \in Frames  BY <2>0 DEF Depth
    <3>6. \A j \in 1 .. n : stack[j].hit \in BOOLEAN  BY <3>5 DEF Frames
    <3>7. stack[n].at = "test"  BY <2>1 DEF Depth
    <3> QED  BY <3>1, <3>3, <3>4, <3>6, <3>7, <2>0 DEF Depth
  <2>2. CASE ~(stack # <<>> /\ stack[Len(stack)].at = "test")
    <3>1. st = stack  BY <2>2 DEF MarkHit
    <3>2. \A j \in 1 .. Depth : stack[j] \in Frames  BY <2>0 DEF Depth
    <3>3. \A j \in 1 .. Depth : stack[j].hit \in BOOLEAN  BY <3>2 DEF Frames
    <3>4. \A j \in 1 .. Depth : ~(j = Depth /\ stack[j].at = "test")
      BY <2>0, <2>2, EmptySeq DEF Depth
    <3> QED  BY <2>0, <3>1, <3>3, <3>4 DEF Depth
  <2> QED  BY <2>1, <2>2
<1>2. Frame(s) \in Frames  BY DEF Frame, Frames, Places
<1>3. stack' = Append(st, Frame(s))  BY DEF Deliver
<1> HIDE DEF st
<1>4. /\ stack' \in Seq(Frames) /\ Len(stack') = Depth + 1
      /\ stack'[Depth + 1] = Frame(s)
      /\ \A i \in 1 .. Depth : stack'[i] = st[i]
  BY <1>1, <1>2, <1>3, AppendProperties
<1>5. SignalTypes'  BY <1>4 DEF SignalTypes, Deliver
<1> QED  BY <1>1, <1>4, <1>5 DEF Depth

\* The running handler goes on to another place.
LEMMA ContinueMoves ==
  ASSUME stack \in Seq(Frames), stack # <<>>, NEW at \in Places, Continue(at)
  PROVE  /\ stack' \in Seq(Frames) /\ Depth' = Depth
         /\ Depth \in 1 .. Depth
         /\ \A i \in 1 .. Depth :
              /\ stack'[i].sig = stack[i].sig /\ (stack'[i].hit <=> stack[i].hit)
              /\ stack'[i].at = IF i = Depth THEN at ELSE stack[i].at
<1> DEFINE n == Len(stack)
           e == [stack[n] EXCEPT !.at = at]
<1>1. n \in 1 .. n /\ stack[n] \in Frames  BY EmptySeq
<1>2. stack' = [stack EXCEPT ![n] = e]  BY DEF Continue, Depth
<1>3. e \in Frames /\ e.sig = stack[n].sig /\ e.at = at /\ (e.hit <=> stack[n].hit)
  BY <1>1 DEF Frames
<1> HIDE DEF e
<1>4. /\ stack' \in Seq(Frames) /\ Len(stack') = n
      /\ \A j \in 1 .. n : stack'[j] = IF j = n THEN e ELSE stack[j]
  BY <1>1, <1>2, <1>3, ExceptSeq
<1> QED  BY <1>1, <1>3, <1>4 DEF Depth

\* The running handler returns, and the others stay as they are.
LEMMA ReturnPops ==
  ASSUME stack \in Seq(Frames), Return
  PROVE  /\ stack' \in Seq(Frames) /\ Depth' = Depth - 1
         /\ Depth \in 1 .. Depth /\ stack[Depth].at \in {"skip", "done"}
         /\ \A i \in 1 .. Depth' : stack'[i] = stack[i]
<1>1. stack # <<>> /\ stack[Depth].at \in {"skip", "done"}
  BY DEF Return, HandlerAt, Top
<1>2. Depth \in Nat \ {0}  BY <1>1, EmptySeq DEF Depth
<1>3. stack' = SubSeq(stack, 1, Depth - 1)  BY DEF Return
<1>4. 1 \in 1 .. Len(stack) + 1 /\ Depth - 1 \in 0 .. Len(stack)
  BY <1>2 DEF Depth
<1>5. /\ stack' \in Seq(Frames)
      /\ Len(stack') = IF 1 <= Depth - 1 THEN Depth - 1 - 1 + 1 ELSE 0
      /\ \A i \in 1 .. Depth - 1 - 1 + 1 : stack'[i] = stack[1 + i - 1]
  BY <1>3, <1>4, SubSeqProperties
<1>6. Len(stack') = Depth - 1  BY <1>2, <1>5
<1>7. \A i \in 1 .. Depth - 1 : stack'[i] = stack[i]  BY <1>2, <1>5
<1> QED  BY <1>1, <1>2, <1>5, <1>6, <1>7 DEF Depth

-----------------------------------------------------------------------------
(* signal_number and its owner *)

LEMMA HandlerInit == SignalsInit => HandlerInv
<1> SUFFICES ASSUME SignalsInit PROVE HandlerInv  OBVIOUS
<1>1. stack = <<>> /\ Depth = 0  BY DEF SignalsInit, Depth
<1>2. SignalTypes  BY <1>1 DEF SignalsInit, SignalTypes
<1> QED  BY <1>1, <1>2 DEF SignalsInit, HandlerInv, UnhitTests, FaultsHaveOwnHandler,
                                SkippedOnlyWhenHit, FaultNumberHasOwner

\* The main loop and the other processes run while the handlers stand still.
\* The loop changes signal_number only when there is no handler.
LEMMA OthersKeepHandlers ==
  ASSUME HandlerInv, UNCHANGED stack, SignalTypes',
         signal_number' = signal_number \/ (stack = <<>> /\ signal_number' = "none")
  PROVE  HandlerInv'
<1>1. CASE signal_number' = signal_number
  BY <1>1 DEF HandlerInv, UnhitTests, FaultsHaveOwnHandler, SkippedOnlyWhenHit,
                  FaultNumberHasOwner, Depth
<1>2. CASE stack = <<>> /\ signal_number' = "none"
  <2>1. stack' = <<>> /\ Depth' = 0  BY <1>2 DEF Depth
  <2> QED  BY <1>2, <2>1
       DEF HandlerInv, UnhitTests, FaultsHaveOwnHandler, SkippedOnlyWhenHit,
           FaultNumberHasOwner
<1> QED  BY <1>1, <1>2

LEMMA DeliverKeepsHandlers ==
  ASSUME HandlerInv, NEW s \in Signals, Deliver(s)
  PROVE  HandlerInv'
<1> USE DEF HandlerInv
<1>1. /\ SignalTypes' /\ Depth' = Depth + 1 /\ stack'[Depth'] = Frame(s)
      /\ \A i \in 1 .. Depth :
           /\ stack'[i].sig = stack[i].sig /\ stack'[i].at = stack[i].at
           /\ stack'[i].hit <=>
                   (stack[i].hit \/ (i = Depth /\ stack[i].at = "test"))
  BY DeliverPushes
<1>2. stack'[Depth'].at = "store"  BY <1>1 DEF Frame
<1>3. /\ Depth \in Nat
      /\ \A i \in 1 .. Depth' : i = Depth' \/ i \in 1 .. Depth
  BY <1>1 DEF SignalTypes, Depth
<1>4. UnhitTests'
  <2> SUFFICES ASSUME NEW i \in 1 .. Depth', stack'[i].at = "test", ~stack'[i].hit
               PROVE  FALSE
    BY DEF UnhitTests
  <2>1. i \in 1 .. Depth  BY <1>2, <1>3
  <2> QED  BY <1>1, <2>1 DEF UnhitTests
<1>5. SkippedOnlyWhenHit' /\ FaultsHaveOwnHandler'
  BY <1>1, <1>2, <1>3 DEF SkippedOnlyWhenHit, FaultsHaveOwnHandler
<1>6. FaultNumberHasOwner'
  <2> SUFFICES ASSUME signal_number' = "USR1"
               PROVE  \E i \in 1 .. Depth' :
                        /\ stack'[i].sig = "USR1" /\ stack'[i].at \in {"test", "notice"}
                        /\ \A j \in i + 1 .. Depth' : stack'[j].at = "store"
    BY DEF FaultNumberHasOwner
  <2>1. PICK i \in 1 .. Depth :
          /\ stack[i].sig = "USR1" /\ stack[i].at \in {"test", "notice"}
          /\ \A j \in i + 1 .. Depth : stack[j].at = "store"
    BY DEF FaultNumberHasOwner, Deliver
  <2>2. \A j \in i + 1 .. Depth' : j = Depth' \/ j \in i + 1 .. Depth
    BY <1>1, <1>3
  <2>3. \A j \in i + 1 .. Depth : j \in 1 .. Depth  BY <1>3
  <2>4. \A j \in i + 1 .. Depth' : stack'[j].at = "store"
    BY <1>1, <1>2, <2>1, <2>2, <2>3
  <2>5. i \in 1 .. Depth'  BY <1>1, <1>3
  <2> QED  BY <1>1, <2>1, <2>4, <2>5
<1> QED  BY <1>1, <1>4, <1>5, <1>6

\* Only what stores at the top can be the owner of a number just stored; a test
\* that finds SIGUSR1 is its owner's.
LEMMA HandlerKeepsHandlers == HandlerInv /\ Handler => HandlerInv'
<1> SUFFICES ASSUME HandlerInv, Handler PROVE HandlerInv'  OBVIOUS
<1> USE DEF HandlerInv
<1>0. stack \in Seq(Frames) /\ Depth \in Nat  BY DEF SignalTypes, Depth
<1>1. ASSUME NEW old \in Places, NEW new \in Places,
             HandlerAt(old), Continue(new),
             old = "store" => /\ new = "test" /\ signal_number' = stack[Depth].sig,
             old # "store" => signal_number' \in {signal_number, "none"},
             old = "test" => /\ new = "notice" <=> signal_number = "USR1"
                             /\ signal_number' = signal_number,
             new = "skip" => old = "test",
             new = "test" => old = "store",
             new = "notice" => old = "test",
             old = "notice" => signal_number' = "none",
             new = "fault" => old = "notice",
             SignalTypes'
      PROVE  HandlerInv'
  <2>1. stack # <<>> /\ stack[Depth].at = old  BY <1>1 DEF HandlerAt, Top
  <2>2. /\ Depth' = Depth /\ Depth \in 1 .. Depth
        /\ \A i \in 1 .. Depth :
             /\ stack'[i].sig = stack[i].sig /\ (stack'[i].hit <=> stack[i].hit)
             /\ stack'[i].at = IF i = Depth THEN new ELSE stack[i].at
    BY <1>0, <1>1, <2>1, ContinueMoves
  <2>3. UnhitTests'
    <3> SUFFICES ASSUME NEW i \in 1 .. Depth, stack'[i].at = "test", ~stack'[i].hit
                 PROVE  i = Depth /\ signal_number' = stack'[i].sig
      BY <2>2 DEF UnhitTests
    <3>1. CASE i = Depth  BY <1>1, <2>1, <2>2, <3>1
    <3>2. CASE i # Depth  BY <2>2, <3>2 DEF UnhitTests
    <3> QED  BY <3>1, <3>2
  <2>4. SkippedOnlyWhenHit'
    <3> SUFFICES ASSUME NEW i \in 1 .. Depth,
                        stack'[i].sig = "USR1", stack'[i].at = "skip"
                 PROVE  stack'[i].hit
      BY <2>2 DEF SkippedOnlyWhenHit
    <3>1. CASE i = Depth
      <4>1. old = "test" /\ signal_number # "USR1"  BY <1>1, <2>2, <3>1
      <4> QED  BY <2>1, <2>2, <3>1, <4>1 DEF UnhitTests
    <3>2. CASE i # Depth  BY <2>2, <3>2 DEF SkippedOnlyWhenHit
    <3> QED  BY <3>1, <3>2
  <2>5. signal_number = "USR1" /\ old # "store" =>
          stack[Depth].sig = "USR1" /\ old \in {"test", "notice"}
    <3> SUFFICES ASSUME signal_number = "USR1", old # "store"
                 PROVE  stack[Depth].sig = "USR1" /\ old \in {"test", "notice"}
      OBVIOUS
    <3>1. PICK i \in 1 .. Depth :
            /\ stack[i].sig = "USR1" /\ stack[i].at \in {"test", "notice"}
            /\ \A j \in i + 1 .. Depth : stack[j].at = "store"
      BY DEF FaultNumberHasOwner
    <3>2. i = Depth  BY <1>0, <2>1, <3>1
    <3> QED  BY <2>1, <3>1, <3>2
  <2>6. FaultNumberHasOwner'
    <3> SUFFICES ASSUME signal_number' = "USR1"
                 PROVE  /\ stack'[Depth].sig = "USR1"
                        /\ stack'[Depth].at \in {"test", "notice"}
      <4>1. \A j \in Depth + 1 .. Depth : stack'[j].at = "store"  BY <1>0
      <4> QED  BY <2>2, <4>1 DEF FaultNumberHasOwner
    <3>1. CASE old = "store"  BY <1>1, <2>2, <3>1
    <3>2. CASE old # "store"
      <4>1. signal_number = "USR1" /\ old # "notice"  BY <1>1, <3>2
      <4> QED  BY <1>1, <2>2, <2>5, <3>2, <4>1
    <3> QED  BY <3>1, <3>2
  <2>7. FaultsHaveOwnHandler'
    <3> SUFFICES ASSUME NEW i \in 1 .. Depth, stack'[i].at \in {"notice", "fault"}
                 PROVE  stack'[i].sig = "USR1"
      BY <2>2 DEF FaultsHaveOwnHandler
    <3>1. CASE i # Depth  BY <2>2, <3>1 DEF FaultsHaveOwnHandler
    <3>2. CASE i = Depth /\ new = "notice"
      BY <1>1, <2>2, <2>5, <3>2
    <3>3. CASE i = Depth /\ new = "fault"
      BY <1>1, <2>1, <2>2, <3>3 DEF FaultsHaveOwnHandler
    <3> QED  BY <2>2, <3>1, <3>2, <3>3
  <2> QED  BY <1>1, <2>3, <2>4, <2>6, <2>7
<1>2. CASE StoreNumber
  <2>1. SignalTypes'
    BY <1>0, <1>2, ContinueMoves DEF StoreNumber, SignalTypes, HandlerAt, Places
  <2> QED  BY <1>1, <1>2, <2>1 DEF StoreNumber, Top, Places
<1>3. CASE TestNumber
  <2>1. SignalTypes'
    BY <1>0, <1>3, ContinueMoves DEF TestNumber, SignalTypes, HandlerAt, Places
  <2>2. CASE signal_number = "USR1"
    BY <1>1, <1>3, <2>1, <2>2 DEF TestNumber, Places
  <2>3. CASE signal_number # "USR1"
    BY <1>1, <1>3, <2>1, <2>3 DEF TestNumber, Places
  <2> QED  BY <2>2, <2>3
<1>4. CASE NoticeFault
  <2>1. SignalTypes'
    BY <1>0, <1>4, ContinueMoves DEF NoticeFault, SignalTypes, HandlerAt, Places
  <2> QED  BY <1>1, <1>4, <2>1 DEF NoticeFault, Places
<1>5. CASE PageFault
  <2>1. SignalTypes'
    BY <1>0, <1>5, ContinueMoves DEF PageFault, SignalTypes, HandlerAt, Places
  <2> QED  BY <1>1, <1>5, <2>1 DEF PageFault, Places
<1>6. CASE Return
  <2>1. /\ stack' \in Seq(Frames) /\ Depth' = Depth - 1
        /\ Depth \in 1 .. Depth /\ stack[Depth].at \in {"skip", "done"}
        /\ \A i \in 1 .. Depth' : stack'[i] = stack[i]
    BY <1>0, <1>6, ReturnPops
  <2>2. SignalTypes'  BY <1>6, <2>1 DEF Return, SignalTypes
  <2>3. signal_number # "USR1"
    <3> SUFFICES ASSUME signal_number = "USR1" PROVE FALSE  OBVIOUS
    <3>1. PICK i \in 1 .. Depth :
            /\ stack[i].sig = "USR1" /\ stack[i].at \in {"test", "notice"}
            /\ \A j \in i + 1 .. Depth : stack[j].at = "store"
      BY DEF FaultNumberHasOwner
    <3> QED  BY <1>0, <2>1, <3>1
  <2>4. \A i \in 1 .. Depth' : i \in 1 .. Depth /\ i # Depth  BY <1>0, <2>1
  <2>5. UnhitTests' /\ SkippedOnlyWhenHit' /\ FaultsHaveOwnHandler'
    BY <1>6, <2>1, <2>4
       DEF UnhitTests, SkippedOnlyWhenHit, FaultsHaveOwnHandler, Return
  <2>6. FaultNumberHasOwner'  BY <1>6, <2>3 DEF FaultNumberHasOwner, Return
  <2> QED  BY <2>2, <2>5, <2>6
<1> QED  BY <1>2, <1>3, <1>4, <1>5, <1>6 DEF Handler

LEMMA HandlerStep == HandlerInv /\ [SignalsNext]_svars => HandlerInv'
<1> SUFFICES ASSUME HandlerInv, [SignalsNext]_svars PROVE HandlerInv'  OBVIOUS
<1>1. SignalTypes  BY DEF HandlerInv
<1>2. CASE UNCHANGED svars
  BY <1>1, <1>2, OthersKeepHandlers DEF svars, SignalTypes
<1>3. CASE SendUsr1 \/ SemWaitReturns \/ UserSignal
  <2>1. UNCHANGED <<stack, signal_number>>
    BY <1>3 DEF SendUsr1, SemWaitReturns, UserSignal
  <2>2. SignalTypes'
    <3>1. CASE SendUsr1
      BY <1>1, <3>1 DEF SendUsr1, SignalTypes, Signals
    <3>2. CASE SemWaitReturns  BY <1>1, <3>2 DEF SemWaitReturns, SignalTypes
    <3>3. CASE UserSignal
      BY <1>1, <3>3 DEF UserSignal, SignalTypes, Signals
    <3> QED  BY <1>3, <3>1, <3>2, <3>3
  <2> QED  BY <2>1, <2>2, OthersKeepHandlers
<1>4. CASE Loop
  <2> USE DEF SignalTypes, MainRuns
  <2>1. CASE ResetNumber \/ EnterPause \/ LeavePause \/ IsUsr2
   BY <1>1, <2>1, OthersKeepHandlers
      DEF ResetNumber, EnterPause, LeavePause, IsUsr2
  <2>2. CASE Dump \/ IsInt \/ Quit \/ BreakAndExit
   BY <1>1, <2>2, OthersKeepHandlers
      DEF Dump, IsInt, Quit, BreakAndExit
  <2> QED  BY <1>4, <2>1, <2>2 DEF Loop
<1> QED  BY <1>2, <1>3, <1>4, DeliverKeepsHandlers, HandlerKeepsHandlers DEF SignalsNext

-----------------------------------------------------------------------------
(* One answer for each fault *)

LEMMA OwingIsFinite ==
  ASSUME SignalTypes
  PROVE  IsFiniteSet(Owing) /\ Cardinality(Owing) \in Nat
<1>1. Depth \in Nat  BY DEF SignalTypes, Depth
<1>2. IsFiniteSet(1 .. Depth)  BY <1>1, FS_Interval
<1>3. Owing \subseteq 1 .. Depth  BY DEF Owing
<1> QED  BY <1>2, <1>3, FS_Subset, FS_CardinalityType

LEMMA AnswersInit == SignalsInit => NoSurplusAnswer
<1> SUFFICES ASSUME SignalsInit PROVE NoSurplusAnswer  OBVIOUS
<1>1. Owing = {}  BY DEF SignalsInit, Owing, Depth
<1>2. Cardinality(Owing) = 0  BY <1>1, FS_EmptySet
<1>3. Unanswered = 0  BY <1>2 DEF Unanswered, Owing, SignalsInit
<1> QED  BY <1>3 DEF NoSurplusAnswer, SignalsInit

\* Each step moves the one fault from the client to SIGUSR1, to a handler, to
\* the semaphore and back, or drops it.
LEMMA AnswersStep ==
  HandlerInv /\ NoSurplusAnswer /\ [SignalsNext]_svars => NoSurplusAnswer'
<1> SUFFICES ASSUME HandlerInv, NoSurplusAnswer, [SignalsNext]_svars
             PROVE  NoSurplusAnswer'
  OBVIOUS
<1> DEFINE sent == IF "USR1" \in pending THEN 1 ELSE 0
           owed == Cardinality(Owing)
<1>1. SignalTypes /\ SignalTypes'  BY HandlerStep DEF HandlerInv
<1>2. /\ Unanswered = sent + adm_sema + owed
      /\ Unanswered' = sent' + adm_sema' + owed'
  BY DEF Unanswered, Owing
<1>3. /\ sent \in 0 .. 1 /\ adm_sema \in Nat /\ owed \in Nat /\ IsFiniteSet(Owing)
      /\ sent' \in 0 .. 1 /\ adm_sema' \in Nat /\ owed' \in Nat
  <2>1. owed \in Nat /\ IsFiniteSet(Owing)  BY <1>1, OwingIsFinite
  <2>2. (SignalTypes => IsFiniteSet(Owing) /\ Cardinality(Owing) \in Nat)'
    BY OwingIsFinite, PTL
  <2>3. owed' \in Nat  BY <1>1, <2>2
  <2> QED  BY <1>1, <2>1, <2>3 DEF SignalTypes
<1>4. sent + adm_sema + owed <= (IF caller = "wait" THEN 1 ELSE 0)
  BY <1>2 DEF NoSurplusAnswer
<1>5. stack \in Seq(Frames) /\ Depth \in Nat  BY <1>1 DEF SignalTypes, Depth
<1> SUFFICES sent' + adm_sema' + owed' <= (IF caller' = "wait" THEN 1 ELSE 0)
  BY <1>2 DEF NoSurplusAnswer
<1>6. UNCHANGED stack => owed' = owed  BY DEF Owing, Depth
<1>7. ASSUME NEW k, Owing' = Owing \/ Owing' = Owing \ {k}
      PROVE  owed' = owed \/ owed' = owed - 1
  <2>1. CASE Owing' = Owing  BY <2>1
  <2>2. CASE k \in Owing /\ Owing' = Owing \ {k}  BY <1>3, <2>2, FS_RemoveElement
  <2>3. CASE k \notin Owing /\ Owing' = Owing \ {k}
    <3>1. Owing' = Owing  BY <2>3
    <3> QED  BY <3>1
  <2> QED  BY <1>7, <2>1, <2>2, <2>3
<1> HIDE DEF sent, owed
<1>8. CASE SendUsr1
  BY <1>3, <1>4, <1>6, <1>8 DEF SendUsr1, sent
<1>9. CASE SemWaitReturns
  BY <1>3, <1>4, <1>6, <1>9 DEF SemWaitReturns, sent
<1>10. CASE UserSignal \/ Loop \/ UNCHANGED svars
  <2>1. sent' = sent /\ UNCHANGED <<stack, adm_sema, caller>>
    <3>2. CASE UserSignal  BY <3>2, SignalsAssumption DEF UserSignal, sent
    <3>3. CASE Loop
      BY <3>3 DEF Loop, ResetNumber, EnterPause, LeavePause, IsUsr2,
                             Dump, IsInt, Quit, BreakAndExit, sent
    <3>4. CASE UNCHANGED svars  BY <3>4 DEF svars, sent
    <3> QED  BY <1>10, <3>2, <3>3, <3>4
  <2> QED  BY <1>3, <1>4, <1>6, <2>1
<1>11. ASSUME NEW s \in Signals, Deliver(s)
       PROVE  sent' + adm_sema' + owed' <= (IF caller' = "wait" THEN 1 ELSE 0)
  <2>1. /\ Depth' = Depth + 1 /\ stack'[Depth'] = Frame(s)
        /\ \A i \in 1 .. Depth :
             stack'[i].sig = stack[i].sig /\ stack'[i].at = stack[i].at
    BY <1>1, <1>11, DeliverPushes
  <2>2. UNCHANGED <<adm_sema, caller>> /\ s \in pending /\ pending' = pending \ {s}
    BY <1>11 DEF Deliver
  <2>3. stack'[Depth'].sig = s /\ stack'[Depth'].at = "store"
    BY <2>1 DEF Frame
  <2>4. \A i : i \in 1 .. Depth' <=> i = Depth + 1 \/ i \in 1 .. Depth
    BY <1>5, <2>1
  <2>5. Depth + 1 \notin Owing  BY <1>5 DEF Owing
  <2>6. CASE s = "USR1"
    <3>1. Owing' = Owing \union {Depth + 1}  BY <2>1, <2>3, <2>4, <2>6 DEF Owing
    <3>2. owed' = owed + 1  BY <1>3, <2>5, <3>1, FS_AddElement DEF owed
    <3>3. sent = 1 /\ sent' = 0  BY <2>2, <2>6 DEF sent
    <3> QED  BY <1>3, <1>4, <2>2, <3>2, <3>3
  <2>7. CASE s # "USR1"
    <3>1. Owing' = Owing  BY <1>5, <2>1, <2>3, <2>4, <2>7 DEF Owing
    <3>2. owed' = owed /\ sent' = sent  BY <2>2, <2>7, <3>1 DEF owed, sent
    <3> QED  BY <1>3, <1>4, <2>2, <3>2
  <2> QED  BY <2>6, <2>7
<1>12. ASSUME NEW new \in Places, stack # <<>>, Continue(new),
              stack[Depth].at = "store" => new = "test",
              stack[Depth].at \in {"store", "test", "notice", "fault"},
              UNCHANGED <<pending, caller>>
       PROVE  /\ sent' = sent
              /\ owed' = owed \/ owed' = owed - 1
  <2>1. /\ Depth' = Depth /\ Depth \in 1 .. Depth
        /\ \A i \in 1 .. Depth :
             /\ stack'[i].sig = stack[i].sig
             /\ stack'[i].at = IF i = Depth THEN new ELSE stack[i].at
    BY <1>5, <1>12, ContinueMoves
  <2>2. Owing' = Owing \/ Owing' = Owing \ {Depth}
    BY <1>12, <2>1 DEF Owing
  <2> QED  BY <1>7, <1>12, <2>2 DEF sent
<1>13. CASE StoreNumber \/ TestNumber \/ NoticeFault
  <2>1. UNCHANGED <<pending, caller, adm_sema>>
    BY <1>13 DEF StoreNumber, TestNumber, NoticeFault
  <2>2. sent' = sent /\ (owed' = owed \/ owed' = owed - 1)
    <3>1. CASE StoreNumber
      BY <1>12, <2>1, <3>1 DEF StoreNumber, HandlerAt, Top, Places
    <3>2. CASE TestNumber
      <4>1. PICK new \in {"notice", "skip"} : Continue(new)
        BY <3>2 DEF TestNumber
      <4> QED
        BY <1>12, <2>1, <3>2, <4>1 DEF TestNumber, HandlerAt, Top, Places
    <3>3. CASE NoticeFault
      BY <1>12, <2>1, <3>3 DEF NoticeFault, HandlerAt, Top, Places
    <3> QED  BY <1>13, <3>1, <3>2, <3>3
  <2>3. CASE owed' = owed  BY <1>3, <1>4, <2>1, <2>2, <2>3
  <2>4. CASE owed' = owed - 1  BY <1>3, <1>4, <2>1, <2>2, <2>4
  <2> QED  BY <2>2, <2>3, <2>4
<1>14. CASE PageFault
  <2>1. stack # <<>> /\ stack[Depth].at = "fault"
    BY <1>14 DEF PageFault, HandlerAt, Top
  <2>2. /\ Depth' = Depth /\ Depth \in 1 .. Depth
        /\ \A i \in 1 .. Depth :
             /\ stack'[i].sig = stack[i].sig
             /\ stack'[i].at = IF i = Depth THEN "done" ELSE stack[i].at
    BY <1>5, <1>14, <2>1, ContinueMoves DEF PageFault, Places
  <2>3. stack[Depth].sig = "USR1"
    BY <2>1, <2>2 DEF HandlerInv, FaultsHaveOwnHandler
  <2>4. Depth \in Owing /\ Owing' = Owing \ {Depth}
    BY <2>1, <2>2, <2>3 DEF Owing
  <2>5. owed' = owed - 1  BY <1>3, <2>4, FS_RemoveElement DEF owed
  <2>6. sent' = sent /\ UNCHANGED caller  BY <1>14 DEF PageFault, sent
  <2>7. CASE adm_sema' = adm_sema  BY <1>3, <1>4, <2>5, <2>6, <2>7
  <2>8. CASE adm_sema' = adm_sema + 1  BY <1>3, <1>4, <2>5, <2>6, <2>8
  <2> QED  BY <1>14, <2>7, <2>8 DEF PageFault
<1>15. CASE Return
  <2>1. /\ Depth' = Depth - 1
        /\ Depth \in 1 .. Depth /\ stack[Depth].at \in {"skip", "done"}
        /\ \A i \in 1 .. Depth' : stack'[i] = stack[i]
    BY <1>5, <1>15, ReturnPops
  <2>2. \A i : i \in 1 .. Depth <=> i = Depth \/ i \in 1 .. Depth'
    BY <1>5, <2>1
  <2>3. Owing' = Owing  BY <1>5, <2>1, <2>2 DEF Owing
  <2>4. owed' = owed /\ sent' = sent /\ UNCHANGED <<adm_sema, caller>>
    BY <1>15, <2>3 DEF owed, sent, Return
  <2> QED  BY <1>3, <1>4, <2>4
<1> QED  BY <1>8, <1>9, <1>10, <1>11, <1>13, <1>14, <1>15 DEF SignalsNext, Handler

-----------------------------------------------------------------------------

\* Whatever signals users send and however the handlers interrupt each other, a
\* handler that caught SIGUSR1 passes over the page fault only if another one was
\* entered between its store to signal_number and its test.
THEOREM OnlyHitHandlersSkip == SignalsSpec => []SkippedOnlyWhenHit
<1>1. HandlerInv => SkippedOnlyWhenHit  BY DEF HandlerInv
<1> QED  BY HandlerInit, HandlerStep, <1>1, PTL DEF SignalsSpec

\* SIGUSR1 in signal_number always belongs to a SIGUSR1 handler that is about to
\* test it or to clear it: the shared variable gives no handler and no turn of the
\* main loop a fault that is not its own.
THEOREM FaultNumberIsOwned == SignalsSpec => []FaultNumberHasOwner
<1>1. HandlerInv => FaultNumberHasOwner  BY DEF HandlerInv
<1> QED  BY HandlerInit, HandlerStep, <1>1, PTL DEF SignalsSpec

\* A fault is answered once at most: at every moment it is with the signal, with
\* one handler or with the semaphore of a client that waits, or lost.
THEOREM NoFaultIsAnsweredTwice == SignalsSpec => []NoSurplusAnswer
BY HandlerInit, HandlerStep, AnswersInit, AnswersStep, PTL DEF SignalsSpec
=============================================================================
