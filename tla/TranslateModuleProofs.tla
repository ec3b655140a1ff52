----------------------- MODULE TranslateModuleProofs -----------------------
(***************************************************************************)
(* What the translate module leaves behind, and when it misbehaves, for    *)
(* any number of devices and any processes that use them.                  *)
(***************************************************************************)
EXTENDS TranslateModule, FiniteSetTheorems, TLAPS

InitPlaces    == {"region", "devs", "memset", "buffer", "locks", "cdev"}
CleanupPlaces == {"cleanup", "free", "del", "kfree", "unregister"}

\* The types that the proof needs.
ModuleTypes ==
  /\ module \in {"unloaded", "coming", "live", "going"}
  /\ at \in InitPlaces \union CleanupPlaces \union {"none"}
  /\ i \in 0 .. NO_OF_DEVICES
  /\ buffer \in [Devices -> {"garbage", "null", "allocated"}]
  /\ lock \in [Devices -> [Modes -> 0 .. NUM_SIMULT_ACCESS_USERS]]
  /\ cdev \in [Devices -> {"garbage", "zero", "ready", "added", "deleted"}]
  /\ file \in [Users -> {NoFile} \union
                [dev : Devices, mode : Modes, state : {"opening", "open"}]]

\* Where the loader is, and why.
PlaceInv ==
  /\ at \in InitPlaces    => module = "coming" /\ ~failed
  /\ at \in CleanupPlaces => \/ module = "going" /\ ~failed
                             \/ module = "coming" /\ failed
  /\ at = "none"          => module = "unloaded" \/ (module = "live" /\ ~failed)
  /\ at \in {"region", "devs", "memset"} => i = 0
  /\ at \in {"locks", "cdev", "free", "del"} => i < NO_OF_DEVICES
  /\ module = "live" => i = NO_OF_DEVICES

\* translate_devs.
DevsInv ==
  /\ at \in {"memset", "buffer", "locks", "cdev", "free", "del", "kfree"}
       \/ module = "live" \/ (at = "cleanup" /\ ~failed) => devs = "allocated"
  /\ at \in {"region", "devs"} => devs = "null"
  /\ at = "cleanup" => devs \in {"null", "allocated"}
  /\ at = "unregister" \/ module = "unloaded" => devs # "allocated"
  /\ module = "unloaded" => ~region

Ready(d) == buffer[d] = "allocated" /\ cdev[d] \in {"ready", "added"}
Clear(d) == buffer[d] = "null" /\ cdev[d] = "zero"

\* How far a device is set up or undone.
DeviceInv(d) ==
  /\ at \in {"region", "devs"} => Clear(d)
  /\ at = "memset" => cdev[d] = "garbage"
  /\ at \in {"buffer", "locks", "cdev"} => (d < i => Ready(d)) /\ (d > i => Clear(d))
  /\ at = "buffer" /\ d = i => Clear(d)
  /\ at \in {"locks", "cdev"} /\ d = i => buffer[d] = "allocated" /\ cdev[d] = "zero"
  /\ module = "live" \/ (at = "cleanup" /\ ~failed) => Ready(d)
  /\ at \in CleanupPlaces => buffer[d] \in {"null", "allocated"}
  /\ at = "cleanup" /\ devs = "null" => Clear(d)
  /\ at \in {"free", "del"} /\ ~failed /\ (d > i \/ (d = i /\ at = "free")) => Ready(d)
  /\ at \in {"free", "del"} /\ d < i => buffer[d] = "null" /\ cdev[d] = "deleted"
  /\ at = "del" /\ d = i => buffer[d] = "null"
  /\ at = "del" /\ d = i /\ ~failed => cdev[d] \in {"ready", "added"}
  /\ at \in {"kfree", "unregister"} \/ module = "unloaded"
       => buffer[d] = "null" /\ cdev[d] # "added"

\* Who has a file open.
Openers(d, m) == {u \in Users : file[u] = [dev |-> d, mode |-> m, state |-> "open"]}

\* The device's locks are initialised.
Counts(d) == \/ at \in {"buffer", "locks"} /\ d < i
             \/ at = "cdev" /\ d <= i
             \/ module = "live"

\* Then each counts its one holder; none counts another one.
LockInv(d, m) ==
  \/ lock[d][m] = 1 /\ Openers(d, m) = {}
  \/ lock[d][m] = 0 /\ \E u \in Users : Openers(d, m) = {u}
  \/ lock[d][m] = 0 /\ Openers(d, m) = {} /\ ~Counts(d)

\* Until translate_init fails there are files only on devices that were added,
\* and none while the module goes.
FileInv ==
  /\ at \in {"region", "devs", "memset"} => Holders = {}
  /\ ~failed => \A u \in Holders :
                 module \in {"coming", "live"} /\ cdev[file[u].dev] = "added"

MishapInv == /\ "freed garbage" \notin mishaps
             /\ mishaps # {} => failed

ModuleInv ==
  /\ ModuleTypes /\ PlaceInv /\ DevsInv /\ FileInv /\ MishapInv
  /\ \A d \in Devices : DeviceInv(d) /\ \A m \in Modes : LockInv(d, m)

USE DEF Devices, Modes, NUM_SIMULT_ACCESS_USERS

-----------------------------------------------------------------------------
(* Initial states, insmod and rmmod *)

LEMMA ModuleInit == Init => ModuleInv
<1> SUFFICES ASSUME Init PROVE ModuleInv  OBVIOUS
<1>1. ModuleTypes  BY DevicesAssumption DEF Init, ModuleTypes
<1>2. PlaceInv /\ DevsInv /\ MishapInv
  BY DEF Init, PlaceInv, DevsInv, MishapInv, InitPlaces, CleanupPlaces
<1>3. FileInv  BY DEF Init, FileInv, Holders, NoFile
<1>4. ASSUME NEW d \in Devices PROVE DeviceInv(d) /\ \A m \in Modes : LockInv(d, m)
  <2>1. DeviceInv(d)  BY DEF Init, DeviceInv
  <2>2. ASSUME NEW m \in Modes PROVE LockInv(d, m)
    <3>1. Openers(d, m) = {}  BY DEF Init, Openers, NoFile
    <3> QED  BY <3>1 DEF Init, LockInv, Counts
  <2> QED  BY <2>1, <2>2
<1> QED  BY <1>1, <1>2, <1>3, <1>4 DEF ModuleInv

\* The device that the loader works on.
LEMMA OneIsWorkedOn ==
  ASSUME ModuleInv, at \in {"locks", "cdev", "free", "del"}
  PROVE  /\ i \in Devices /\ i \in Nat /\ i + 1 \in 0 .. NO_OF_DEVICES
         /\ DeviceInv(i) /\ module \in {"coming", "going"}
<1>1. i \in 0 .. NO_OF_DEVICES /\ i < NO_OF_DEVICES
  BY DEF ModuleInv, ModuleTypes, PlaceInv
<1>2. i \in Devices /\ i \in Nat /\ i + 1 \in 0 .. NO_OF_DEVICES
  BY <1>1, DevicesAssumption
<1> QED  BY <1>2 DEF ModuleInv, PlaceInv, InitPlaces, CleanupPlaces

LEMMA InsmodKeeps == ModuleInv /\ Insmod => ModuleInv'
<1> SUFFICES ASSUME ModuleInv, Insmod PROVE ModuleInv'  OBVIOUS
<1> USE DEF Insmod, loader, device
<1>1. ModuleTypes'
  BY DevicesAssumption DEF ModuleTypes, ModuleInv, InitPlaces
<1>2. PlaceInv'
  BY DEF PlaceInv, CleanupPlaces
<1>3. DevsInv'
  BY DEF DevsInv
<1>4. FileInv'
  BY DEF FileInv, Holders
<1>5. MishapInv'
  BY DEF MishapInv
<1>6. ASSUME NEW d \in Devices PROVE DeviceInv(d)'
  BY DEF DeviceInv, Clear
<1>7. ASSUME NEW d \in Devices, NEW m \in Modes PROVE LockInv(d, m)'
  <2>1. Openers(d, m)' = Openers(d, m)  BY DEF Openers
  <2> QED
    BY <2>1 DEF LockInv, Counts, ModuleInv
<1> QED  BY <1>1, <1>2, <1>3, <1>4, <1>5, <1>6, <1>7 DEF ModuleInv

LEMMA RmmodKeeps == ModuleInv /\ Rmmod => ModuleInv'
<1> SUFFICES ASSUME ModuleInv, Rmmod PROVE ModuleInv'  OBVIOUS
<1> USE DEF Rmmod, loader, device
<1>1. ModuleTypes'
  BY DEF ModuleTypes, ModuleInv, CleanupPlaces
<1>2. PlaceInv'
  BY DEF PlaceInv, ModuleInv, ModuleTypes, InitPlaces
<1>3. DevsInv'
  BY DEF DevsInv, ModuleInv
<1>4. FileInv'
  BY DEF FileInv, Holders
<1>5. MishapInv'
  BY DEF MishapInv, ModuleInv
<1>6. ASSUME NEW d \in Devices PROVE DeviceInv(d)'
  BY DEF DeviceInv, Ready, ModuleInv, DevsInv
<1>7. ASSUME NEW d \in Devices, NEW m \in Modes PROVE LockInv(d, m)'
  <2>1. Openers(d, m)' = Openers(d, m)  BY DEF Openers
  <2> QED
    BY <2>1 DEF LockInv, Counts, ModuleInv
<1> QED  BY <1>1, <1>2, <1>3, <1>4, <1>5, <1>6, <1>7 DEF ModuleInv

LEMMA AllocRegionKeeps == ModuleInv /\ AllocRegion => ModuleInv'
<1> SUFFICES ASSUME ModuleInv, AllocRegion PROVE ModuleInv'  OBVIOUS
<1> USE DEF AllocRegion, loader, device
<1>1. ModuleTypes'
  BY DEF ModuleTypes, ModuleInv, InitPlaces
<1>2. PlaceInv'
  BY DEF PlaceInv, ModuleInv, InitPlaces, CleanupPlaces
<1>3. DevsInv'
  BY DEF DevsInv, ModuleInv, PlaceInv, InitPlaces
<1>4. FileInv'
  BY DEF FileInv, ModuleInv, Holders
<1>5. MishapInv'
  BY DEF MishapInv, ModuleInv
<1>6. ASSUME NEW d \in Devices PROVE DeviceInv(d)'
  BY DEF DeviceInv, Clear, Ready, ModuleInv
<1>7. ASSUME NEW d \in Devices, NEW m \in Modes PROVE LockInv(d, m)'
  <2>1. Openers(d, m)' = Openers(d, m)  BY DEF Openers
  <2> QED
    BY <2>1 DEF LockInv, Counts, ModuleInv
<1> QED  BY <1>1, <1>2, <1>3, <1>4, <1>5, <1>6, <1>7 DEF ModuleInv

LEMMA AllocDevsKeeps == ModuleInv /\ AllocDevs => ModuleInv'
<1> SUFFICES ASSUME ModuleInv, AllocDevs PROVE ModuleInv'  OBVIOUS
<1> USE DEF AllocDevs, loader, device
<1>1. ModuleTypes'
  BY DEF ModuleTypes, ModuleInv, InitPlaces, CleanupPlaces
<1>2. PlaceInv'
  BY DEF PlaceInv, ModuleInv, InitPlaces, CleanupPlaces
<1>3. DevsInv'
  BY DEF DevsInv, ModuleInv, PlaceInv, InitPlaces
<1>4. FileInv'
  BY DEF FileInv, ModuleInv, Holders
<1>5. MishapInv'
  BY DEF MishapInv, ModuleInv
<1>6. ASSUME NEW d \in Devices PROVE DeviceInv(d)'
  BY DEF DeviceInv, Clear, ModuleInv, PlaceInv, ModuleTypes, CleanupPlaces
<1>7. ASSUME NEW d \in Devices, NEW m \in Modes PROVE LockInv(d, m)'
  <2>1. Openers(d, m)' = Openers(d, m)  BY DEF Openers
  <2> QED
    BY <2>1 DEF LockInv, Counts, ModuleInv
<1> QED  BY <1>1, <1>2, <1>3, <1>4, <1>5, <1>6, <1>7 DEF ModuleInv

LEMMA ResetDevsKeeps == ModuleInv /\ ResetDevs => ModuleInv'
<1> SUFFICES ASSUME ModuleInv, ResetDevs PROVE ModuleInv'  OBVIOUS
<1> USE DEF ResetDevs, loader, device
<1>1. ModuleTypes'
  BY DEF ModuleTypes, ModuleInv, InitPlaces
<1>2. PlaceInv'
  BY DEF PlaceInv, ModuleInv, ModuleTypes, CleanupPlaces
<1>3. DevsInv'
  BY DEF DevsInv, ModuleInv
<1>4. FileInv'
  BY DEF FileInv, ModuleInv, Holders
<1>5. MishapInv'
  BY DEF MishapInv, ModuleInv
<1>6. ASSUME NEW d \in Devices PROVE DeviceInv(d)'
  BY DEF DeviceInv, Clear, ModuleInv, PlaceInv
<1>7. ASSUME NEW d \in Devices, NEW m \in Modes PROVE LockInv(d, m)'
  <2>1. Openers(d, m)' = Openers(d, m)  BY DEF Openers
  <2> QED
    BY <2>1 DEF LockInv, Counts, ModuleInv, PlaceInv
<1> QED  BY <1>1, <1>2, <1>3, <1>4, <1>5, <1>6, <1>7 DEF ModuleInv

LEMMA AllocBufferKeeps == ModuleInv /\ AllocBuffer => ModuleInv'
<1> SUFFICES ASSUME ModuleInv, AllocBuffer PROVE ModuleInv'  OBVIOUS
<1> USE DEF AllocBuffer, loader, device
<1>1. ModuleTypes'
  BY DEF ModuleTypes, ModuleInv, InitPlaces, CleanupPlaces
<1>2. PlaceInv'
  BY DEF PlaceInv, ModuleInv, InitPlaces, CleanupPlaces
<1>3. DevsInv'
  BY DEF DevsInv, ModuleInv
<1>4. FileInv'
  BY DEF FileInv, ModuleInv, Holders
<1>5. MishapInv'
  BY DEF MishapInv, ModuleInv, PlaceInv, InitPlaces
<1>6. ASSUME NEW d \in Devices PROVE DeviceInv(d)'
  <2>1. DeviceInv(d) /\ at = "buffer" /\ i < NO_OF_DEVICES /\ devs' = devs
    BY DEF ModuleInv
  <2>2. ~failed /\ module = "coming" /\ devs = "allocated"
    BY DEF ModuleInv, PlaceInv, DevsInv, InitPlaces
  <2>3. CASE failed'
    <3>1. at' = "cleanup" /\ buffer' = buffer /\ cdev' = cdev /\ module' = "coming"
      BY <2>2, <2>3
    <3>2. Ready(d) \/ Clear(d)
      BY DEF DeviceInv, ModuleInv, ModuleTypes
    <3> QED  BY <2>2, <3>1, <3>2 DEF DeviceInv, Clear, Ready, CleanupPlaces
  <2>4. CASE ~failed'
    BY <2>2, <2>4 DEF DeviceInv, Clear, Ready, CleanupPlaces, ModuleInv, ModuleTypes
  <2> QED  BY <2>3, <2>4
<1>7. ASSUME NEW d \in Devices, NEW m \in Modes PROVE LockInv(d, m)'
  <2>1. Openers(d, m)' = Openers(d, m)  BY DEF Openers
  <2> QED
    BY <2>1 DEF LockInv, Counts, ModuleInv
<1> QED  BY <1>1, <1>2, <1>3, <1>4, <1>5, <1>6, <1>7 DEF ModuleInv

LEMMA InitLocksKeeps == ModuleInv /\ InitLocks => ModuleInv'
<1> SUFFICES ASSUME ModuleInv, InitLocks PROVE ModuleInv'  OBVIOUS
<1> USE DEF InitLocks, loader, device
<1>1. ModuleTypes'
  <2>1. lock' \in [Devices -> [Modes -> 0 .. NUM_SIMULT_ACCESS_USERS]]
    BY OneIsWorkedOn DEF ModuleTypes, ModuleInv
  <2> QED  BY <2>1 DEF ModuleTypes, ModuleInv, InitPlaces
<1>2. PlaceInv'
  BY DEF PlaceInv, ModuleInv, ModuleTypes, CleanupPlaces
<1>3. DevsInv'
  BY DEF DevsInv, ModuleInv
<1>4. FileInv'
  BY DEF FileInv, ModuleInv, Holders
<1>5. MishapInv'
  BY DEF MishapInv, ModuleInv
<1>6. ASSUME NEW d \in Devices PROVE DeviceInv(d)'
  BY DEF DeviceInv, Clear, Ready, ModuleInv, ModuleTypes
<1>7. ASSUME NEW d \in Devices, NEW m \in Modes PROVE LockInv(d, m)'
  <2>1. Openers(d, m)' = Openers(d, m)  BY DEF Openers
  <2>2. Openers(i, m) = {}
    BY DEF Openers, FileInv, Holders, DeviceInv, NoFile, ModuleTypes, ModuleInv,
           PlaceInv, InitPlaces
  <2>3. CASE d = i
    BY <2>1, <2>2, <2>3 DEF LockInv, ModuleTypes, ModuleInv
  <2>4. CASE d # i
    BY <2>1, <2>4 DEF LockInv, Counts, ModuleTypes, ModuleInv
  <2> QED  BY <2>3, <2>4
<1> QED  BY <1>1, <1>2, <1>3, <1>4, <1>5, <1>6, <1>7 DEF ModuleInv

LEMMA SetupCdevKeeps == ModuleInv /\ SetupCdev => ModuleInv'
<1> SUFFICES ASSUME ModuleInv, SetupCdev PROVE ModuleInv'  OBVIOUS
<1> USE DEF SetupCdev, loader, device
<1>1. ModuleTypes'
  <2>1. i' \in 0 .. NO_OF_DEVICES  BY DevicesAssumption DEF ModuleTypes, ModuleInv,
                                                            PlaceInv, InitPlaces,
                                                            CleanupPlaces
  <2>2. cdev' \in [Devices -> {"garbage", "zero", "ready", "added", "deleted"}]
    BY DEF ModuleTypes, ModuleInv
  <2> QED
    BY <2>1 DEF ModuleTypes, ModuleInv, InitPlaces
<1>2. PlaceInv'
  BY DEF PlaceInv, ModuleInv, ModuleTypes, CleanupPlaces
<1>3. DevsInv'
  BY DEF DevsInv, ModuleInv
<1>4. FileInv'
  <2>1. i \in Devices /\ cdev[i] = "zero"
    BY DevicesAssumption DEF DeviceInv, ModuleTypes, ModuleInv, PlaceInv
  <2>2. \A u \in Holders : file[u].dev \in Devices
    BY DEF Holders, NoFile, ModuleTypes, ModuleInv
  <2>3. \A u \in Holders : module = "coming" /\ cdev[file[u].dev] = "added"
    BY DEF FileInv, ModuleInv, PlaceInv, InitPlaces
  <2>4. \A u \in Holders : cdev'[file[u].dev] = "added"
    BY <2>1, <2>3
  <2>5. Holders' = Holders  BY DEF Holders
  <2> QED  BY <2>3, <2>4, <2>5 DEF FileInv
<1>5. MishapInv'
  BY DEF MishapInv, ModuleInv
<1>6. ASSUME NEW d \in Devices PROVE DeviceInv(d)'
  BY DEF DeviceInv, Clear, Ready, ModuleInv, ModuleTypes
<1>7. ASSUME NEW d \in Devices, NEW m \in Modes PROVE LockInv(d, m)'
  <2>1. Openers(d, m)' = Openers(d, m)  BY DEF Openers
  <2> QED
    BY <2>1 DEF LockInv, Counts, ModuleInv, ModuleTypes
<1> QED  BY <1>1, <1>2, <1>3, <1>4, <1>5, <1>6, <1>7 DEF ModuleInv

LEMMA FinishInitKeeps == ModuleInv /\ FinishInit => ModuleInv'
<1> SUFFICES ASSUME ModuleInv, FinishInit PROVE ModuleInv'  OBVIOUS
<1> USE DEF FinishInit, loader, device
<1>1. ModuleTypes'
  BY DEF ModuleTypes, ModuleInv
<1>2. PlaceInv'
  BY DEF PlaceInv, ModuleInv, InitPlaces, CleanupPlaces
<1>3. DevsInv'
  BY DEF DevsInv, ModuleInv
<1>4. FileInv'
  BY DEF FileInv, ModuleInv, Holders
<1>5. MishapInv'
  BY DEF MishapInv, ModuleInv
<1>6. ASSUME NEW d \in Devices PROVE DeviceInv(d)'
  BY DEF DeviceInv, Ready, ModuleInv, ModuleTypes
<1>7. ASSUME NEW d \in Devices, NEW m \in Modes PROVE LockInv(d, m)'
  <2>1. Openers(d, m)' = Openers(d, m)  BY DEF Openers
  <2>2. d < i  BY DevicesAssumption
  <2> QED  BY <2>1, <2>2 DEF LockInv, Counts, ModuleInv
<1> QED  BY <1>1, <1>2, <1>3, <1>4, <1>5, <1>6, <1>7 DEF ModuleInv

LEMMA StartCleanupKeeps == ModuleInv /\ StartCleanup => ModuleInv'
<1> SUFFICES ASSUME ModuleInv, StartCleanup PROVE ModuleInv'  OBVIOUS
<1> USE DEF StartCleanup, loader, device
<1>1. ModuleTypes'
  BY DevicesAssumption DEF ModuleTypes, ModuleInv, AfterDevsTest, CleanupPlaces
<1>2. PlaceInv'
  BY DevicesAssumption DEF PlaceInv, ModuleInv, ModuleTypes, InitPlaces, AfterDevsTest
<1>3. DevsInv'
  BY DEF DevsInv, ModuleInv, AfterDevsTest
<1>4. FileInv'
  <2>1. at' \in {"free", "unregister"} /\ module' = module  BY DEF AfterDevsTest
  <2>2. Holders' = Holders  BY DEF Holders
  <2> QED  BY <2>1, <2>2 DEF FileInv, ModuleInv
<1>5. MishapInv'
  BY DEF MishapInv, ModuleInv
<1>6. ASSUME NEW d \in Devices PROVE DeviceInv(d)'
  BY DEF DeviceInv, Clear, Ready, ModuleInv, PlaceInv, ModuleTypes, AfterDevsTest
<1>7. ASSUME NEW d \in Devices, NEW m \in Modes PROVE LockInv(d, m)'
  <2>1. Openers(d, m)' = Openers(d, m)  BY DEF Openers
  <2>2. at' \in {"free", "unregister"} /\ module' = module  BY DEF AfterDevsTest
  <2> QED
    BY <2>1, <2>2 DEF LockInv, Counts, ModuleInv
<1> QED  BY <1>1, <1>2, <1>3, <1>4, <1>5, <1>6, <1>7 DEF ModuleInv

LEMMA FreeBufferKeeps == ModuleInv /\ FreeBuffer => ModuleInv'
<1> SUFFICES ASSUME ModuleInv, FreeBuffer PROVE ModuleInv'  OBVIOUS
<1> USE DEF FreeBuffer, loader, device
<1>1. ModuleTypes'
  BY DEF ModuleTypes, ModuleInv, CleanupPlaces
<1>2. PlaceInv'
  BY DEF PlaceInv, ModuleInv, ModuleTypes, InitPlaces
<1>3. DevsInv'
  BY DEF DevsInv, ModuleInv
<1>4. FileInv'
  BY DEF FileInv, ModuleInv, Holders
<1>5. MishapInv'
  <2>1. buffer[i] # "garbage"  BY OneIsWorkedOn DEF DeviceInv, CleanupPlaces
  <2> QED  BY <2>1 DEF MishapInv, ModuleInv
<1>6. ASSUME NEW d \in Devices PROVE DeviceInv(d)'
  BY DEF DeviceInv, Ready, ModuleInv, PlaceInv, ModuleTypes, InitPlaces
<1>7. ASSUME NEW d \in Devices, NEW m \in Modes PROVE LockInv(d, m)'
  <2>1. Openers(d, m)' = Openers(d, m)  BY DEF Openers
  <2> QED
    BY <2>1 DEF LockInv, Counts, ModuleInv
<1> QED  BY <1>1, <1>2, <1>3, <1>4, <1>5, <1>6, <1>7 DEF ModuleInv

LEMMA DelCdevKeeps == ModuleInv /\ DelCdev => ModuleInv'
<1> SUFFICES ASSUME ModuleInv, DelCdev PROVE ModuleInv'  OBVIOUS
<1> USE DEF DelCdev, loader, device
<1>1. ModuleTypes'
  <2>1. i' \in 0 .. NO_OF_DEVICES  BY OneIsWorkedOn
  <2>2. cdev' \in [Devices -> {"garbage", "zero", "ready", "added", "deleted"}]
    BY DEF ModuleTypes, ModuleInv
  <2>3. at' \in CleanupPlaces  BY DEF CleanupPlaces
  <2> QED
    BY <2>1, <2>3 DEF ModuleTypes, ModuleInv
<1>2. PlaceInv'
  BY DEF PlaceInv, ModuleInv, ModuleTypes, InitPlaces
<1>3. DevsInv'
  BY DEF DevsInv, ModuleInv
<1>4. FileInv'
  BY DEF FileInv, ModuleInv, PlaceInv, Holders, ModuleTypes, InitPlaces
<1>5. MishapInv'
  <2>1. ~failed => cdev[i] \in {"ready", "added"}
    BY OneIsWorkedOn DEF DeviceInv
  <2>2. ~failed => mishaps' = mishaps  BY <2>1
  <2>3. "freed garbage" \notin mishaps'  BY DEF MishapInv, ModuleInv
  <2> QED  BY <2>2 DEF MishapInv, ModuleInv
<1>6. ASSUME NEW d \in Devices PROVE DeviceInv(d)'
  <2>1. DeviceInv(d) /\ at = "del" /\ i \in Devices /\ i \in Nat
    BY OneIsWorkedOn DEF ModuleInv
  <2>2. module' \notin {"live", "unloaded"}  BY OneIsWorkedOn
  <2>3. cdev'[d] = IF d = i THEN "deleted" ELSE cdev[d]  BY DEF ModuleInv, ModuleTypes
  <2>4. buffer'[d] = buffer[d] /\ failed' = failed /\ i' = i + 1
    OBVIOUS
  <2>5. at' \in {"free", "kfree"} /\ (at' = "free" <=> i' < NO_OF_DEVICES)
    OBVIOUS
  <2> HIDE DEF DelCdev
  <2>6. d \in Int /\ i' \in Int /\ (d < i' <=> d < i \/ d = i)
    <3>1. d \in Int /\ i \in Int /\ i' = i + 1  BY <2>1, <2>4, DevicesAssumption
    <3> QED  BY <3>1
  <2>7. d < i' => buffer'[d] = "null" /\ cdev'[d] = "deleted"
    BY <2>1, <2>3, <2>4 DEF DeviceInv
  <2>8. ~failed' /\ (d > i' \/ d = i') =>
          buffer'[d] = "allocated" /\ cdev'[d] \in {"ready", "added"}
    <3>1. ~failed' /\ (d > i' \/ d = i') => ~failed /\ d > i  BY <2>1, <2>4, <2>6
    <3> QED  BY <2>1, <2>3, <2>4 DEF DeviceInv, Ready
  <2>9. buffer'[d] \in {"null", "allocated"}
    BY <2>1, <2>4 DEF DeviceInv, CleanupPlaces
  <2>10. at' = "kfree" => d < i'  BY <2>5, <2>6, DevicesAssumption, <2>1
  <2> QED
    BY <2>2, <2>5, <2>7, <2>8, <2>9, <2>10 DEF DeviceInv, Ready
<1>7. ASSUME NEW d \in Devices, NEW m \in Modes PROVE LockInv(d, m)'
  <2>1. Openers(d, m)' = Openers(d, m)  BY DEF Openers
  <2> QED
    BY <2>1 DEF LockInv, Counts, ModuleInv
<1> QED  BY <1>1, <1>2, <1>3, <1>4, <1>5, <1>6, <1>7 DEF ModuleInv

LEMMA FreeDevsKeeps == ModuleInv /\ FreeDevs => ModuleInv'
<1> SUFFICES ASSUME ModuleInv, FreeDevs PROVE ModuleInv'  OBVIOUS
<1> USE DEF FreeDevs, loader, device
<1>1. ModuleTypes'
  BY DEF ModuleTypes, ModuleInv, CleanupPlaces
<1>2. PlaceInv'
  BY DEF PlaceInv, ModuleInv, ModuleTypes, InitPlaces
<1>3. DevsInv'
  BY DEF DevsInv, ModuleInv, PlaceInv, CleanupPlaces
<1>4. FileInv'
  BY DEF FileInv, ModuleInv, Holders
<1>5. MishapInv'
  BY DEF MishapInv, ModuleInv
<1>6. ASSUME NEW d \in Devices PROVE DeviceInv(d)'
  BY DEF DeviceInv, Ready, ModuleInv
<1>7. ASSUME NEW d \in Devices, NEW m \in Modes PROVE LockInv(d, m)'
  <2>1. Openers(d, m)' = Openers(d, m)  BY DEF Openers
  <2> QED
    BY <2>1 DEF LockInv, Counts, ModuleInv
<1> QED  BY <1>1, <1>2, <1>3, <1>4, <1>5, <1>6, <1>7 DEF ModuleInv

LEMMA UnregisterKeeps == ModuleInv /\ Unregister => ModuleInv'
<1> SUFFICES ASSUME ModuleInv, Unregister PROVE ModuleInv'  OBVIOUS
<1> USE DEF Unregister, loader, device
<1>1. ModuleTypes'
  BY DEF ModuleTypes, ModuleInv
<1>2. PlaceInv'
  BY DEF PlaceInv, InitPlaces, CleanupPlaces
<1>3. DevsInv'
  BY DEF DevsInv, ModuleInv
<1>4. FileInv'
  BY DEF FileInv, ModuleInv, PlaceInv, Holders, ModuleTypes, InitPlaces
<1>5. MishapInv'
  BY DEF MishapInv, ModuleInv
<1>6. ASSUME NEW d \in Devices PROVE DeviceInv(d)'
  BY DEF DeviceInv, ModuleInv
<1>7. ASSUME NEW d \in Devices, NEW m \in Modes PROVE LockInv(d, m)'
  <2>1. Openers(d, m)' = Openers(d, m)  BY DEF Openers
  <2> QED
    BY <2>1 DEF LockInv, Counts, ModuleInv
<1> QED  BY <1>1, <1>2, <1>3, <1>4, <1>5, <1>6, <1>7 DEF ModuleInv

-----------------------------------------------------------------------------
(* Processes *)

\* A device that can be opened is set up, unless translate_init has failed.
LEMMA AddedIsSetUp ==
  ASSUME ModuleInv, ~failed, NEW d \in Devices,
         module \in {"coming", "live"}, cdev[d] = "added"
  PROVE  devs = "allocated" /\ buffer[d] = "allocated" /\ Counts(d)
<1>1. DeviceInv(d) /\ PlaceInv /\ DevsInv /\ i \in 0 .. NO_OF_DEVICES
  BY DEF ModuleInv, ModuleTypes
<1>2. CASE module = "live"
  BY <1>1, <1>2 DEF DeviceInv, Ready, DevsInv, Counts
<1>3. CASE module = "coming"
  <2>1. at \in InitPlaces
    BY <1>3 DEF PlaceInv, ModuleInv, ModuleTypes
  <2>2. at \in {"buffer", "locks", "cdev"}
    BY <1>1, <2>1 DEF DeviceInv, Clear, InitPlaces
  <2>3. d < i  BY <1>1, <2>2, DevicesAssumption DEF DeviceInv, Clear
  <2> QED
    BY <1>1, <2>2, <2>3 DEF DeviceInv, Ready, DevsInv, Counts
<1> QED  BY <1>2, <1>3

LEMMA HolderIsSafe ==
  ASSUME ModuleInv, ~failed, NEW u \in Holders
  PROVE  devs = "allocated" /\ buffer[file[u].dev] = "allocated"
<1>1. file[u].dev \in Devices  BY DEF Holders, NoFile, ModuleInv, ModuleTypes
<1>2. module \in {"coming", "live"} /\ cdev[file[u].dev] = "added"
  BY DEF ModuleInv, FileInv
<1> QED  BY <1>1, <1>2, AddedIsSetUp

\* A process changes its file, its lock and the mishaps.
LEMMA UserKeeps ==
  ASSUME ModuleInv, UNCHANGED <<module, at, i, failed, region, devs, buffer, cdev>>,
         ModuleTypes', FileInv', MishapInv',
         \A d \in Devices, m \in Modes : LockInv(d, m)'
  PROVE  ModuleInv'
<1>1. PlaceInv'  BY DEF ModuleInv, PlaceInv
<1>2. DevsInv'  BY DEF ModuleInv, DevsInv
<1>3. ASSUME NEW d \in Devices PROVE DeviceInv(d)'
  BY DEF ModuleInv, DeviceInv, Ready, Clear
<1> QED  BY <1>1, <1>2, <1>3 DEF ModuleInv

LEMMA LookupKeeps ==
  ASSUME ModuleInv, NEW u \in Users, Lookup(u)
  PROVE  ModuleInv'
<1>1. PICK d \in Devices, m \in Modes :
        /\ file[u].state = "closed" /\ Openable(d)
        /\ file' = [file EXCEPT ![u] = [dev |-> d, mode |-> m, state |-> "opening"]]
        /\ UNCHANGED <<module, at, i, failed, region, devs, buffer, lock, cdev, mishaps>>
  BY DEF Lookup, loader, device
<1>2. ModuleTypes'
  <2>1. file' \in [Users -> {NoFile} \union
                    [dev : Devices, mode : Modes, state : {"opening", "open"}]]
    BY <1>1 DEF ModuleInv, ModuleTypes
  <2> QED  BY <1>1 DEF ModuleInv, ModuleTypes
<1>3. FileInv'
  <2>1. Holders' \subseteq Holders \union {u}
    BY <1>1 DEF Holders
  <2>2. at \notin {"region", "devs", "memset"}
    BY <1>1 DEF Openable, ModuleInv, DeviceInv, Clear
  <2>3. file'[u].dev = d /\ \A v \in Users \ {u} : file'[v] = file[v]
    BY <1>1 DEF ModuleInv, ModuleTypes
  <2>4. u \notin Holders /\ cdev[d] = "added" /\ module \in {"coming", "live"}
    BY <1>1 DEF Holders, Openable
  <2> QED  BY <1>1, <2>2, <2>4 DEF FileInv, ModuleInv, Holders
<1>4. MishapInv'  BY <1>1 DEF MishapInv, ModuleInv
<1>5. ASSUME NEW e \in Devices, NEW n \in Modes PROVE LockInv(e, n)'
  <2>1. Openers(e, n)' = Openers(e, n)
    BY <1>1 DEF Openers
  <2> QED  BY <1>1, <2>1 DEF LockInv, Counts, ModuleInv
<1> QED  BY <1>1, <1>2, <1>3, <1>4, <1>5, UserKeeps

LEMMA UseKeeps ==
  ASSUME ModuleInv, NEW u \in Users, Use(u)
  PROVE  ModuleInv'
<1>1. /\ UNCHANGED <<module, at, i, failed, region, devs, buffer, lock, cdev, file>>
      /\ u \in Holders /\ Mishap(Gone(u))
  BY DEF Use, loader, device, Holders
<1>2. ModuleTypes'  BY <1>1 DEF ModuleInv, ModuleTypes
<1>3. FileInv'  BY <1>1 DEF FileInv, ModuleInv, Holders
<1>4. MishapInv'
  <2>1. ~failed => ~Gone(u)  BY <1>1, HolderIsSafe DEF Gone
  <2> QED  BY <1>1, <2>1 DEF Mishap, MishapInv, ModuleInv
<1>5. ASSUME NEW e \in Devices, NEW n \in Modes PROVE LockInv(e, n)'
  <2>1. Openers(e, n)' = Openers(e, n)  BY <1>1 DEF Openers
  <2> QED  BY <1>1, <2>1 DEF LockInv, Counts, ModuleInv
<1> QED  BY <1>1, <1>2, <1>3, <1>4, <1>5, UserKeeps

LEMMA OpenKeeps ==
  ASSUME ModuleInv, NEW u \in Users, Open(u)
  PROVE  ModuleInv'
<1> DEFINE d == file[u].dev
           m == file[u].mode
<1>1. /\ UNCHANGED <<module, at, i, failed, region, devs, buffer, cdev>>
      /\ u \in Holders /\ d \in Devices /\ m \in Modes /\ file[u].state = "opening"
      /\ Mishap(devs # "allocated") /\ lock[d][m] \in {0, 1}
  BY DEF Open, loader, Holders, ModuleInv, ModuleTypes, NoFile
<1>2. CASE lock[d][m] = 1
  <2>1. /\ lock' = [lock EXCEPT ![d][m] = 0]
        /\ file' = [file EXCEPT ![u] = [dev |-> d, mode |-> m, state |-> "open"]]
    <3>1. lock' = [lock EXCEPT ![d][m] = @ - 1] /\ file' = [file EXCEPT ![u].state = "open"]
      BY <1>2 DEF Open, Succeeds
    <3>2. file[u] = [dev |-> d, mode |-> m, state |-> "opening"]
      BY <1>1 DEF ModuleInv, ModuleTypes, NoFile
    <3>3. file' = [file EXCEPT ![u] = [dev |-> d, mode |-> m, state |-> "open"]]
      <4>1. [file[u] EXCEPT !.state = "open"] = [dev |-> d, mode |-> m, state |-> "open"]
        <5>1. /\ file[u] \in [dev : Devices, mode : Modes, state : {"opening", "open"}]
              /\ file[u].state = "opening"
          BY <1>1 DEF ModuleInv, ModuleTypes, NoFile
        <5> QED  BY <5>1
      <4> QED  BY <3>1, <4>1, Zenon
    <3>4. lock' = [lock EXCEPT ![d][m] = 0]
      BY <1>2, <3>1
    <3> QED  BY <3>3, <3>4
  <2>2. ModuleTypes'
    <3>1. file' \in [Users -> {NoFile} \union
                      [dev : Devices, mode : Modes, state : {"opening", "open"}]]
      BY <1>1, <2>1 DEF ModuleInv, ModuleTypes
    <3>2. lock' \in [Devices -> [Modes -> 0 .. NUM_SIMULT_ACCESS_USERS]]
      BY <1>1, <2>1 DEF ModuleInv, ModuleTypes
    <3> QED  BY <1>1, <3>1, <3>2 DEF ModuleInv, ModuleTypes
  <2>3. FileInv'
    <3>1. Holders' = Holders /\ \A v \in Holders : file'[v].dev = file[v].dev
      BY <1>1, <2>1 DEF Holders
    <3> QED  BY <1>1, <3>1 DEF FileInv, ModuleInv
  <2>4. MishapInv'
    <3>1. ~failed => devs = "allocated"  BY <1>1, HolderIsSafe
    <3> QED  BY <1>1, <3>1 DEF Mishap, MishapInv, ModuleInv
  <2>5. ASSUME NEW e \in Devices, NEW n \in Modes PROVE LockInv(e, n)'
    <3>1. CASE e = d /\ n = m
      <4>1. Openers(e, n)' = Openers(e, n) \union {u}
        BY <2>1, <3>1 DEF Openers, ModuleInv, ModuleTypes
      <4>2. lock'[e][n] = 0  BY <1>1, <2>1, <3>1 DEF ModuleInv, ModuleTypes
      <4>3. Openers(e, n) = {}  BY <1>2, <3>1 DEF LockInv, ModuleInv
      <4> QED  BY <4>1, <4>2, <4>3 DEF LockInv
    <3>2. CASE e # d \/ n # m
      <4>1. Openers(e, n)' = Openers(e, n)
        BY <2>1, <3>2 DEF Openers
      <4>2. lock'[e][n] = lock[e][n]
        BY <2>1, <3>2
      <4> QED  BY <1>1, <4>1, <4>2 DEF LockInv, Counts, ModuleInv
    <3> QED  BY <3>1, <3>2
  <2> QED  BY <1>1, <2>2, <2>3, <2>4, <2>5, UserKeeps
<1>3. CASE lock[d][m] = 0
  <2>1. lock' = lock /\ file' = [file EXCEPT ![u] = NoFile]
    BY <1>3 DEF Open, Succeeds
  <2>2. ModuleTypes'  BY <1>1, <2>1 DEF ModuleInv, ModuleTypes
  <2>3. FileInv'
    <3>1. Holders' \subseteq Holders /\ \A v \in Holders' : file'[v].dev = file[v].dev
      BY <2>1 DEF Holders, NoFile
    <3> QED  BY <1>1, <3>1 DEF FileInv, ModuleInv
  <2>4. MishapInv'
    <3>1. ~failed => devs = "allocated"  BY <1>1, HolderIsSafe
    <3> QED  BY <1>1, <3>1 DEF Mishap, MishapInv, ModuleInv
  <2>5. ASSUME NEW e \in Devices, NEW n \in Modes PROVE LockInv(e, n)'
    <3>1. Openers(e, n)' = Openers(e, n)
      BY <1>1, <2>1 DEF Openers, NoFile
    <3> QED  BY <1>1, <2>1, <3>1 DEF LockInv, Counts, ModuleInv
  <2> QED  BY <1>1, <2>2, <2>3, <2>4, <2>5, UserKeeps
<1> QED  BY <1>1, <1>2, <1>3

LEMMA CloseKeeps ==
  ASSUME ModuleInv, NEW u \in Users, Close(u)
  PROVE  ModuleInv'
<1> DEFINE d == file[u].dev
           m == file[u].mode
<1>1. /\ UNCHANGED <<module, at, i, failed, region, devs, buffer, cdev>>
      /\ u \in Holders /\ d \in Devices /\ m \in Modes
      /\ file[u] = [dev |-> d, mode |-> m, state |-> "open"]
      /\ Mishap(devs # "allocated") /\ lock[d][m] \in {0, 1}
      /\ file' = [file EXCEPT ![u] = NoFile]
      /\ lock' = [lock EXCEPT ![d][m] = IF devs = "allocated" THEN @ + 1 ELSE @]
  BY DEF Close, loader, Holders, ModuleInv, ModuleTypes, NoFile
<1>2. FileInv'
  <2>1. Holders' \subseteq Holders /\ \A v \in Holders' : file'[v].dev = file[v].dev
    BY <1>1 DEF Holders, NoFile
  <2> QED  BY <1>1, <2>1 DEF FileInv, ModuleInv
<1>3. MishapInv'
  <2>1. ~failed => devs = "allocated"  BY <1>1, HolderIsSafe
  <2> QED  BY <1>1, <2>1 DEF Mishap, MishapInv, ModuleInv
<1>4. Openers(d, m) = {u} /\ lock[d][m] = 0
  <2>1. u \in Openers(d, m)  BY <1>1 DEF Openers
  <2>2. LockInv(d, m)  BY <1>1 DEF ModuleInv
  <2> QED  BY <2>1, <2>2 DEF LockInv
<1>5. ModuleTypes'
  <2>1. lock' \in [Devices -> [Modes -> 0 .. NUM_SIMULT_ACCESS_USERS]]
    BY <1>1, <1>4 DEF ModuleInv, ModuleTypes
  <2> QED  BY <1>1, <2>1 DEF ModuleInv, ModuleTypes
<1>6. ASSUME NEW e \in Devices, NEW n \in Modes PROVE LockInv(e, n)'
  <2>1. CASE e = d /\ n = m
    <3>1. Openers(e, n)' = {}
      BY <1>1, <1>4, <2>1 DEF Openers, ModuleInv, ModuleTypes, NoFile
    <3>2. lock'[e][n] = IF devs = "allocated" THEN 1 ELSE 0
      BY <1>1, <1>4, <2>1 DEF ModuleInv, ModuleTypes
    <3>3. Counts(e) => devs = "allocated"
      BY DEF Counts, ModuleInv, DevsInv
    <3>4. Counts(e)' <=> Counts(e)  BY <1>1 DEF Counts
    <3> QED  BY <3>1, <3>2, <3>3, <3>4 DEF LockInv
  <2>2. CASE e # d \/ n # m
    <3>1. Openers(e, n)' = Openers(e, n)
      BY <1>1, <2>2 DEF Openers, NoFile
    <3>2. lock'[e][n] = lock[e][n]
      BY <1>1, <2>2
    <3> QED  BY <1>1, <3>1, <3>2 DEF LockInv, Counts, ModuleInv
  <2> QED  BY <2>1, <2>2
<1> QED  BY <1>1, <1>2, <1>3, <1>5, <1>6, UserKeeps

-----------------------------------------------------------------------------

LEMMA ModuleStep == ModuleInv /\ [Next]_vars => ModuleInv'
<1> SUFFICES ASSUME ModuleInv, [Next]_vars PROVE ModuleInv'  OBVIOUS
<1>1. CASE UNCHANGED vars
  <2>1. UNCHANGED <<module, at, i, failed, region, devs, buffer, lock, cdev, file, mishaps>>
    BY <1>1 DEF vars, loader, device
  <2>2. ModuleTypes'  BY <2>1 DEF ModuleInv, ModuleTypes
  <2>3. FileInv'  BY <2>1 DEF FileInv, ModuleInv, Holders
  <2>4. MishapInv'  BY <2>1 DEF MishapInv, ModuleInv
  <2>5. ASSUME NEW e \in Devices, NEW n \in Modes PROVE LockInv(e, n)'
    <3>1. Openers(e, n)' = Openers(e, n)  BY <2>1 DEF Openers
    <3> QED  BY <2>1, <3>1 DEF LockInv, Counts, ModuleInv
  <2> QED  BY <2>1, <2>2, <2>3, <2>4, <2>5, UserKeeps
<1>2. CASE Next
  BY <1>2, InsmodKeeps, RmmodKeeps, AllocRegionKeeps, AllocDevsKeeps, ResetDevsKeeps,
     AllocBufferKeeps, InitLocksKeeps, SetupCdevKeeps, FinishInitKeeps,
     StartCleanupKeeps, FreeBufferKeeps, DelCdevKeeps, FreeDevsKeeps,
     UnregisterKeeps, LookupKeeps, OpenKeeps, UseKeeps, CloseKeeps
     DEF Next, TranslateInit, TranslateCleanup, UserStep
<1> QED  BY <1>1, <1>2

LEMMA ModuleInvariant == Spec => []ModuleInv
  BY ModuleInit, ModuleStep, PTL DEF Spec

\* Whichever allocation of translate_init fails, a module that is not loaded
\* holds no device numbers, no memory and no device.
THEOREM NothingStaysBehind == Spec => []NothingLeftBehind
<1>1. ModuleInv => NothingLeftBehind
  BY DEF ModuleInv, DevsInv, DeviceInv, NothingLeftBehind
<1> QED  BY <1>1, ModuleInvariant, PTL

\* With any number of devices and processes, kfree and cdev_del get what they
\* must and nobody touches freed memory, until translate_init fails.
THEOREM MishapsStayWithFailedInit == Spec => []MishapsNeedFailedInit
<1>1. ModuleInv => MishapsNeedFailedInit
  BY DEF ModuleInv, MishapInv, MishapsNeedFailedInit
<1> QED  BY <1>1, ModuleInvariant, PTL

\* A process that finds a device finds its buffer and its locks, also when the
\* module is still starting.
THEOREM OpenableStaysSetUp == Spec => []OpenableIsSetUp
<1>1. ASSUME ModuleInv, NEW d \in Devices, Openable(d), ~failed, NEW m \in Modes
      PROVE  lock[d][m] + Cardinality(Openers(d, m)) = NUM_SIMULT_ACCESS_USERS
  <2>1. Counts(d) /\ LockInv(d, m)
    BY <1>1, AddedIsSetUp DEF Openable, ModuleInv
  <2>2. CASE lock[d][m] = 1 /\ Openers(d, m) = {}
    BY <2>2, FS_EmptySet
  <2>3. CASE lock[d][m] = 0 /\ \E u \in Users : Openers(d, m) = {u}
    <3>1. PICK u \in Users : Openers(d, m) = {u}  BY <2>3
    <3>2. Cardinality(Openers(d, m)) = 1  BY <3>1, FS_Singleton
    <3> QED  BY <2>3, <3>2
  <2> QED  BY <2>1, <2>2, <2>3 DEF LockInv
<1>2. ModuleInv => OpenableIsSetUp
  BY <1>1, AddedIsSetUp DEF OpenableIsSetUp, Openable, Openers
<1> QED  BY <1>2, ModuleInvariant, PTL

\* Unless translate_init fails, the module and the device of an open file stay.
THEOREM OpenFileIsSafe == Spec => []OpenFileKeepsModule
<1>1. ModuleInv => OpenFileKeepsModule
  BY HolderIsSafe DEF ModuleInv, FileInv, OpenFileKeepsModule, Gone
<1> QED  BY <1>1, ModuleInvariant, PTL
=============================================================================
