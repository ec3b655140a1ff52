--------------------------- MODULE TranslateModule ---------------------------
(***************************************************************************)
(* The life of the translate kernel module (Aufgabe4_final/translate.c):   *)
(* translate_init with every allocation that can fail and its error path,  *)
(* translate_cleanup on rmmod, and processes that open, use and close the  *)
(* devices in between, as soon as cdev_add has made one visible.           *)
(*                                                                         *)
(* The kernel is modelled from how the driver uses it: an open finds a     *)
(* device by its cdev and takes a reference to the module (.owner) unless  *)
(* the module is being removed; rmmod needs a live module without          *)
(* references; an init that fails unloads the module, referenced or not.   *)
(***************************************************************************)
EXTENDS Integers, FiniteSets

CONSTANTS Users,           \* processes that use the devices
          NO_OF_DEVICES    \* 2 in the code

ASSUME DevicesAssumption == NO_OF_DEVICES \in Nat \ {0}

Devices == 0 .. NO_OF_DEVICES - 1
Modes == {"r", "w"}

NUM_SIMULT_ACCESS_USERS == 1

VARIABLES
  module,    \* the kernel's state of the module
  at,        \* where translate_init or translate_cleanup is
  i,         \* their loop variable
  failed,    \* translate_init has failed
  region,    \* the device numbers are registered
  devs,      \* the memory translate_devs points to
  buffer,    \* each device's buffer
  lock,      \* each device's reader_open_lock and writer_open_lock
  cdev,      \* each device's cdev
  file,      \* what each process has opened
  mishaps    \* memory errors that have happened

loader == <<module, at, i, failed>>
device == <<buffer, lock, cdev>>
vars == <<loader, region, devs, device, file, mishaps>>

NoFile == [dev |-> -1, mode |-> "none", state |-> "closed"]

\* Processes that hold a reference to the module.
Holders == {u \in Users : file[u].state # "closed"}

Init == /\ module = "unloaded" /\ at = "none" /\ i = 0 /\ failed = FALSE
        /\ region = FALSE /\ devs = "null"
        /\ buffer = [d \in Devices |-> "null"]
        /\ lock = [d \in Devices |-> [m \in Modes |-> 0]]
        /\ cdev = [d \in Devices |-> "zero"]
        /\ file = [u \in Users |-> NoFile]
        /\ mishaps = {}

-----------------------------------------------------------------------------
(* insmod: translate_init *)

\* The module is loaded, its globals are fresh, translate_init starts.  (After
\* a memory error the kernel is no longer defined, and nothing is loaded.)
Insmod == /\ module = "unloaded" /\ Holders = {} /\ mishaps = {}
          /\ module' = "coming" /\ at' = "region" /\ i' = 0 /\ failed' = FALSE
          /\ devs' = "null"
          /\ buffer' = [d \in Devices |-> "null"]
          /\ lock' = [d \in Devices |-> [m \in Modes |-> 0]]
          /\ cdev' = [d \in Devices |-> "zero"]
          /\ UNCHANGED <<region, file, mishaps>>

\* alloc_chrdev_region; without numbers translate_init returns at once.
AllocRegion ==
  /\ at = "region"
  /\ \/ region' = TRUE /\ at' = "devs" /\ UNCHANGED <<module, failed>>
     \/ region' = FALSE /\ at' = "none" /\ failed' = TRUE /\ module' = "unloaded"
  /\ UNCHANGED <<i, devs, device, file, mishaps>>

\* kmalloc of the devices, or the error path.
AllocDevs ==
  /\ at = "devs"
  /\ \/ /\ devs' = "allocated" /\ at' = "memset" /\ UNCHANGED failed
        /\ buffer' = [d \in Devices |-> "garbage"]
        /\ cdev' = [d \in Devices |-> "garbage"]
     \/ devs' = "null" /\ at' = "cleanup" /\ failed' = TRUE /\ UNCHANGED <<buffer, cdev>>
  /\ UNCHANGED <<module, i, region, lock, file, mishaps>>

\* (Faulty: the memory is used as kmalloc returned it.)
LeaveGarbage == /\ at = "memset"
                /\ at' = "buffer"
                /\ UNCHANGED <<module, i, failed, region, devs, device, file, mishaps>>

\* memset: every pointer is NULL, no cdev is initialised.
ResetDevs == /\ at = "memset"
             /\ buffer' = [d \in Devices |-> "null"]
             /\ cdev' = [d \in Devices |-> "zero"]
             /\ at' = "buffer"
             /\ UNCHANGED <<module, i, failed, region, devs, lock, file, mishaps>>

\* kmalloc of the next device's buffer, or the error path.
AllocBuffer ==
  /\ at = "buffer" /\ i < NO_OF_DEVICES
  /\ \/ buffer' = [buffer EXCEPT ![i] = "allocated"] /\ at' = "locks" /\ UNCHANGED failed
     \/ at' = "cleanup" /\ failed' = TRUE /\ UNCHANGED buffer
  /\ UNCHANGED <<module, i, region, devs, lock, cdev, file, mishaps>>

\* (Faulty: one lock is initialised twice, the other not at all.)
SameLockTwice ==
  /\ at = "locks"
  /\ lock' = [lock EXCEPT ![i] = [r |-> NUM_SIMULT_ACCESS_USERS, w |-> 0]]
  /\ at' = "cdev"
  /\ UNCHANGED <<module, i, failed, region, devs, buffer, cdev, file, mishaps>>

\* The pointers and counters, and sema_init of the two locks.
InitLocks ==
  /\ at = "locks"
  /\ lock' = [lock EXCEPT ![i] = [m \in Modes |-> NUM_SIMULT_ACCESS_USERS]]
  /\ at' = "cdev"
  /\ UNCHANGED <<module, i, failed, region, devs, buffer, cdev, file, mishaps>>

\* translate_setup_cdev: that cdev_add fails is only logged.
SetupCdev ==
  /\ at = "cdev"
  /\ \E added \in BOOLEAN :
       cdev' = [cdev EXCEPT ![i] = IF added THEN "added" ELSE "ready"]
  /\ i' = i + 1
  /\ at' = "buffer"
  /\ UNCHANGED <<module, failed, region, devs, buffer, lock, file, mishaps>>

\* translate_init returns 0.
FinishInit == /\ at = "buffer" /\ i = NO_OF_DEVICES
              /\ module' = "live" /\ at' = "none"
              /\ UNCHANGED <<i, failed, region, devs, device, file, mishaps>>

-----------------------------------------------------------------------------
(* rmmod, and the error path: translate_cleanup *)

\* The kernel removes a module that nobody refers to.
Rmmod == /\ module = "live" /\ Holders = {}
         /\ module' = "going" /\ at' = "cleanup"
         /\ UNCHANGED <<i, failed, region, devs, device, file, mishaps>>

\* (Faulty: the numbers are given back only together with devices.)
ReturnIfNoDevs == IF devs = "null" THEN "none" ELSE "free"

\* Without devices only the region is given back.
AfterDevsTest == IF devs = "null" THEN "unregister" ELSE "free"

StartCleanup ==
  /\ at = "cleanup"
  /\ at' = AfterDevsTest
  /\ module' = IF at' = "none" THEN "unloaded" ELSE module
  /\ i' = 0
  /\ UNCHANGED <<failed, region, devs, device, file, mishaps>>

\* cleanup_single_translate_dev: kfree, which ignores NULL, and the pointers.
FreeBuffer ==
  /\ at = "free"
  /\ mishaps' = IF buffer[i] = "garbage" THEN mishaps \union {"freed garbage"}
                                         ELSE mishaps
  /\ buffer' = [buffer EXCEPT ![i] = "null"]
  /\ at' = "del"
  /\ UNCHANGED <<module, i, failed, region, devs, lock, cdev, file>>

\* cleanup_single_translate_dev: cdev_del, also of a cdev that was never set up.
DelCdev ==
  /\ at = "del"
  /\ mishaps' = IF cdev[i] \in {"zero", "garbage"}
                  THEN mishaps \union {"deleted no cdev"} ELSE mishaps
  /\ cdev' = [cdev EXCEPT ![i] = "deleted"]
  /\ i' = i + 1
  /\ at' = IF i' < NO_OF_DEVICES THEN "free" ELSE "kfree"
  /\ UNCHANGED <<module, failed, region, devs, buffer, lock, file>>

FreeDevs == /\ at = "kfree"
            /\ devs' = "freed"
            /\ at' = "unregister"
            /\ UNCHANGED <<module, i, failed, region, device, file, mishaps>>

\* unregister_chrdev_region; the module is gone.
Unregister == /\ at = "unregister"
              /\ region' = FALSE
              /\ at' = "none" /\ module' = "unloaded"
              /\ UNCHANGED <<i, failed, devs, device, file, mishaps>>

-----------------------------------------------------------------------------
(* Processes that use the devices *)

\* What the kernel lets a process open.
Openable(d) == cdev[d] = "added" /\ module \in {"coming", "live"}

\* The kernel finds the device and takes a reference to the module.
Lookup(u) == \E d \in Devices, m \in Modes :
  /\ file[u].state = "closed" /\ Openable(d)
  /\ file' = [file EXCEPT ![u] = [dev |-> d, mode |-> m, state |-> "opening"]]
  /\ UNCHANGED <<loader, region, devs, device, mishaps>>

\* A process touches its device's structure, or its buffer.
Mishap(gone) == mishaps' = IF gone THEN mishaps \union {"touched freed"} ELSE mishaps

Gone(u) == devs # "allocated" \/ buffer[file[u].dev] # "allocated"

\* down_trylock gets the lock.
Succeeds(n) == n > 0

\* translate_open: the lock of the mode, or -EBUSY and the reference returned.
Open(u) ==
  LET d == file[u].dev
      m == file[u].mode
  IN /\ file[u].state = "opening"
     /\ Mishap(devs # "allocated")
     /\ IF Succeeds(lock[d][m])
          THEN /\ lock' = [lock EXCEPT ![d][m] = @ - 1]
               /\ file' = [file EXCEPT ![u].state = "open"]
          ELSE file' = [file EXCEPT ![u] = NoFile] /\ UNCHANGED lock
     /\ UNCHANGED <<loader, region, devs, buffer, cdev>>

\* translate_read or translate_write: see TranslateDevice for what they do.
Use(u) == /\ file[u].state = "open"
          /\ Mishap(Gone(u))
          /\ UNCHANGED <<loader, region, devs, device, file>>

\* translate_close: the lock is released, the kernel drops the reference.
Close(u) ==
  LET d == file[u].dev
      m == file[u].mode
  IN /\ file[u].state = "open"
     /\ Mishap(devs # "allocated")
     /\ lock' = [lock EXCEPT ![d][m] = IF devs = "allocated" THEN @ + 1 ELSE @]
     /\ file' = [file EXCEPT ![u] = NoFile]
     /\ UNCHANGED <<loader, region, devs, buffer, cdev>>

-----------------------------------------------------------------------------

TranslateInit == \/ AllocRegion \/ AllocDevs \/ ResetDevs \/ AllocBuffer
                 \/ InitLocks \/ SetupCdev \/ FinishInit

TranslateCleanup == StartCleanup \/ FreeBuffer \/ DelCdev \/ FreeDevs \/ Unregister

UserStep(u) == Lookup(u) \/ Open(u) \/ Use(u) \/ Close(u)

Next == \/ Insmod \/ Rmmod \/ TranslateInit \/ TranslateCleanup
        \/ \E u \in Users : UserStep(u)

Spec == Init /\ [][Next]_vars

-----------------------------------------------------------------------------
(* Properties *)

\* A module that is not loaded has left nothing behind, at whichever
\* allocation translate_init had to give up (translate.c:212-259).
NothingLeftBehind ==
  module = "unloaded" =>
    /\ ~region /\ devs # "allocated"
    /\ \A d \in Devices : buffer[d] = "null" /\ cdev[d] # "added"

\* A device that can be opened has its buffer and its locks: cdev_add comes
\* last.  It is the error path alone that frees a buffer before cdev_del.
OpenableIsSetUp ==
  \A d \in Devices : Openable(d) /\ ~failed =>
    /\ devs = "allocated" /\ buffer[d] = "allocated"
    /\ \A m \in Modes :
         lock[d][m] + Cardinality({u \in Users : file[u] = [dev |-> d, mode |-> m,
                                                            state |-> "open"]})
           = NUM_SIMULT_ACCESS_USERS

\* kfree is only given pointers that kmalloc or memset made.  No process
\* touches freed memory and cdev_del only gets cdevs that were set up, unless
\* translate_init has failed: then its error path deletes cdevs that it never
\* initialised and frees devices that are already open (translate.c:257).
MishapsNeedFailedInit ==
  /\ "freed garbage" \notin mishaps
  /\ mishaps # {} => failed

\* An open file keeps the module in memory through any rmmod.
OpenFileKeepsModule ==
  ~failed => \A u \in Holders : module \in {"coming", "live"} /\ ~(Gone(u))

=============================================================================
