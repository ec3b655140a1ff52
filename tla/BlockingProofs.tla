--------------------------- MODULE BlockingProofs ---------------------------
(***************************************************************************)
(* The semaphores, the use count and the queue of the blocking translate   *)
(* driver, for any finite set of processes, any size of the buffer and     *)
(* calls of any length.  Only the queue needs a table with both alphabets. *)
(***************************************************************************)
EXTENDS BlockingProperties, FiniteSetTheorems, SequenceTheorems, WellFoundedInduction,
        TLAPS

Places == {"closed", "opening", "open", "write", "from user", "encode",
           "move write", "up items", "read", "decode", "to user", "move read",
           "up free"}
WriterPlaces == {"from user", "encode", "move write", "up items"}
ReaderPlaces == {"decode", "to user", "move read", "up free"}
OpenPlaces   == Places \ {"closed"}

\* The processes that are at one of these places.
At(S) == {u \in Users : pc[u] \in S}

\* The cells of the buffer, by where they are.
Room == freeBufferSpace + itemsInBuffer
          + Cardinality(At(WriterPlaces)) + Cardinality(At(ReaderPlaces))

CountTypes == /\ pc \in [Users -> Places]
              /\ usage \in Nat /\ freeBufferSpace \in Nat /\ itemsInBuffer \in Nat

RoomInv == CountTypes /\ RoomIsAccountedFor /\ UseCountFollowsFiles

-----------------------------------------------------------------------------
(* Sets of processes *)

LEMMA AtFinite ==
  ASSUME NEW S
  PROVE  IsFiniteSet(At(S)) /\ Cardinality(At(S)) \in Nat
<1>1. IsFiniteSet(At(S))  BY SizeAssumption, FS_Subset DEF At
<1> QED  BY <1>1, FS_CardinalityType

\* A process that comes to these places is one more.
LEMMA OneComes ==
  ASSUME NEW S, NEW u \in Users, NEW at \in S, CountTypes, pc[u] \notin S,
         pc' = [pc EXCEPT ![u] = at]
  PROVE  Cardinality(At(S)') = Cardinality(At(S)) + 1
<1>1. At(S)' = At(S) \union {u} /\ u \notin At(S)  BY DEF At, CountTypes
<1> QED  BY <1>1, AtFinite, FS_AddElement

\* One that leaves them is one less.
LEMMA OneGoes ==
  ASSUME NEW S, NEW u \in Users, NEW at, at \notin S, CountTypes, pc[u] \in S,
         pc' = [pc EXCEPT ![u] = at]
  PROVE  Cardinality(At(S)') = Cardinality(At(S)) - 1
<1>1. At(S)' = At(S) \ {u} /\ u \in At(S)  BY DEF At, CountTypes
<1> QED  BY <1>1, AtFinite, FS_RemoveElement

\* One that moves among them or elsewhere changes nothing.
LEMMA NoneComes ==
  ASSUME NEW S, NEW u \in Users, NEW at, (pc[u] \in S) <=> (at \in S), CountTypes,
         pc' = [pc EXCEPT ![u] = at]
  PROVE  Cardinality(At(S)') = Cardinality(At(S))
<1>1. At(S)' = At(S)  BY DEF At, CountTypes
<1> QED  BY <1>1

\* The invariants in terms of these sets.
AccountsAgree ==
  /\ RoomIsAccountedFor <=> (loaded => Room = translate_bufsize)
  /\ UseCountFollowsFiles <=> /\ usage = 2 * Cardinality(At(OpenPlaces))
                              /\ usage > 0 => loaded

LEMMA InTermsOfAt == CountTypes => AccountsAgree
<1> SUFFICES ASSUME CountTypes PROVE AccountsAgree  OBVIOUS
<1>1. WriterHolds = At(WriterPlaces) /\ ReaderHolds = At(ReaderPlaces)
  BY DEF WriterHolds, ReaderHolds, At, WriterPlaces, ReaderPlaces
<1>2. {u \in Users : pc[u] # "closed"} = At(OpenPlaces)
  BY DEF At, OpenPlaces, CountTypes
<1>3. RoomIsAccountedFor <=> (loaded => Room = translate_bufsize)
  BY <1>1 DEF RoomIsAccountedFor, Room
<1>4. UseCountFollowsFiles <=> /\ usage = 2 * Cardinality(At(OpenPlaces))
                               /\ usage > 0 => loaded
  BY <1>2 DEF UseCountFollowsFiles
<1> QED  BY <1>3, <1>4 DEF AccountsAgree

LEMMA InTermsOfAtAfter == CountTypes' => AccountsAgree'
  BY InTermsOfAt, PTL

-----------------------------------------------------------------------------
(* Initial states and steps *)

LEMMA RoomInit == Init => RoomInv
<1> SUFFICES ASSUME Init PROVE RoomInv  OBVIOUS
<1>1. CountTypes  BY DEF Init, CountTypes, Places
<1>2. At(OpenPlaces) = {}  BY DEF Init, At, OpenPlaces
<1>3. Cardinality(At(OpenPlaces)) = 0  BY <1>2, FS_EmptySet
<1>4. ~loaded /\ usage = 0  BY DEF Init
<1>5. AccountsAgree  BY <1>1, InTermsOfAt
<1> QED  BY <1>1, <1>3, <1>4, <1>5 DEF RoomInv, AccountsAgree

\* A step that neither opens nor closes a file only moves cells around.
LEMMA SameAccounts ==
  ASSUME RoomInv, CountTypes', UNCHANGED <<loaded, usage>>, Room' = Room,
         Cardinality(At(OpenPlaces)') = Cardinality(At(OpenPlaces))
  PROVE  RoomInv'
<1>1. AccountsAgree /\ AccountsAgree'  BY InTermsOfAt, InTermsOfAtAfter DEF RoomInv
<1> QED  BY <1>1 DEF RoomInv, AccountsAgree

\* A module that is loaded finds all files closed, and so no cell in use.
LEMMA InitKeepsRoom ==
  ASSUME RoomInv, translate_init
  PROVE  RoomInv'
<1>1. CountTypes'
  BY SizeAssumption DEF translate_init, RoomInv, CountTypes
<1>2. AccountsAgree /\ AccountsAgree' /\ CountTypes
  BY <1>1, InTermsOfAt, InTermsOfAtAfter DEF RoomInv
<1>3. usage = 0 /\ usage' = usage /\ loaded' /\ pc' = pc
  BY <1>2 DEF RoomInv, AccountsAgree, CountTypes, translate_init
<1>4. Cardinality(At(OpenPlaces)) = 0
  BY <1>2, <1>3, AtFinite DEF RoomInv, AccountsAgree
<1>5. At(OpenPlaces) = {}  BY <1>4, AtFinite, FS_EmptySet
<1>6. At(WriterPlaces)' = {} /\ At(ReaderPlaces)' = {} /\ At(OpenPlaces)' = {}
  BY <1>3, <1>5 DEF At, WriterPlaces, ReaderPlaces, OpenPlaces, Places
<1>7. Room' = translate_bufsize
  BY <1>6, FS_EmptySet, SizeAssumption DEF Room, translate_init
<1>8. usage' = 2 * Cardinality(At(OpenPlaces)')
  BY <1>3, <1>6, FS_EmptySet
<1> QED  BY <1>1, <1>2, <1>3, <1>7, <1>8 DEF RoomInv, AccountsAgree

\* Without files the module may go.
LEMMA CleanupKeepsRoom ==
  ASSUME RoomInv, translate_cleanup
  PROVE  RoomInv'
<1>1. CountTypes'  BY DEF translate_cleanup, RoomInv, CountTypes, counts
<1>2. AccountsAgree /\ AccountsAgree'
  BY <1>1, InTermsOfAt, InTermsOfAtAfter DEF RoomInv
<1>3. usage = 0 /\ usage' = 0 /\ ~loaded' /\ pc' = pc  BY DEF translate_cleanup
<1>4. At(OpenPlaces)' = At(OpenPlaces)  BY <1>3 DEF At
<1> QED  BY <1>1, <1>2, <1>3, <1>4 DEF RoomInv, AccountsAgree

\* Places from which and to which files are opened and closed hold no cell.
LEMMA OpeningHoldsNoCell ==
  ASSUME CountTypes, NEW u \in Users, UNCHANGED <<itemsInBuffer, freeBufferSpace>>,
         NEW at \in {"closed", "opening", "open"}, pc[u] \in {"closed", "opening", "open"},
         pc' = [pc EXCEPT ![u] = at]
  PROVE  Room' = Room
<1>1. Cardinality(At(WriterPlaces)') = Cardinality(At(WriterPlaces))
  BY NoneComes DEF WriterPlaces
<1>2. Cardinality(At(ReaderPlaces)') = Cardinality(At(ReaderPlaces))
  BY NoneComes DEF ReaderPlaces
<1> QED  BY <1>1, <1>2 DEF Room

LEMMA OpenKeepsRoom ==
  ASSUME RoomInv, NEW u \in Users,
         BeginOpen(u) \/ TakeLock(u) \/ Refuse(u) \/ translate_release(u)
  PROVE  RoomInv'
<1> USE DEF Goto, counts
<1>1. CountTypes /\ AccountsAgree  BY InTermsOfAt DEF RoomInv
<1>2. Cardinality(At(OpenPlaces)) \in Nat  BY AtFinite
<1>3. CASE BeginOpen(u)
  <2>1. /\ UNCHANGED <<itemsInBuffer, freeBufferSpace, loaded>> /\ usage' = usage + 2
        /\ pc[u] = "closed" /\ loaded /\ pc' = [pc EXCEPT ![u] = "opening"]
    BY <1>3 DEF BeginOpen
  <2>2. Room' = Room  BY <1>1, <2>1, OpeningHoldsNoCell
  <2>3. Cardinality(At(OpenPlaces)') = Cardinality(At(OpenPlaces)) + 1
    BY <1>1, <2>1, OneComes DEF OpenPlaces, Places
  <2>7. usage' \in Nat  BY <1>1, <2>1 DEF CountTypes
  <2>4. CountTypes'  BY <1>1, <2>1, <2>7 DEF CountTypes, Places
  <2>5. AccountsAgree'  BY <2>4, InTermsOfAtAfter
  <2>6. usage' = 2 * Cardinality(At(OpenPlaces)')
    BY <1>1, <1>2, <2>1, <2>3 DEF AccountsAgree, RoomInv
  <2> QED  BY <1>1, <2>1, <2>2, <2>4, <2>5, <2>6 DEF AccountsAgree, RoomInv
<1>4. CASE TakeLock(u)
  <2>1. /\ UNCHANGED <<itemsInBuffer, freeBufferSpace, loaded, usage>>
        /\ pc[u] = "opening" /\ pc' = [pc EXCEPT ![u] = "open"]
    BY <1>4 DEF TakeLock
  <2>2. Room' = Room  BY <1>1, <2>1, OpeningHoldsNoCell
  <2>3. Cardinality(At(OpenPlaces)') = Cardinality(At(OpenPlaces))
    BY <1>1, <2>1, NoneComes DEF OpenPlaces, Places
  <2>4. CountTypes'  BY <1>1, <2>1 DEF CountTypes, Places
  <2> QED  BY <2>1, <2>2, <2>3, <2>4, SameAccounts
<1>5. CASE Refuse(u) \/ translate_release(u)
  <2>1. /\ UNCHANGED <<itemsInBuffer, freeBufferSpace, loaded>> /\ usage' = usage - 2
        /\ pc[u] \in {"opening", "open"} /\ pc' = [pc EXCEPT ![u] = "closed"]
    BY <1>5 DEF Refuse, translate_release
  <2>2. Room' = Room  BY <1>1, <2>1, OpeningHoldsNoCell
  <2>3. Cardinality(At(OpenPlaces)') = Cardinality(At(OpenPlaces)) - 1
    BY <1>1, <2>1, OneGoes DEF OpenPlaces, Places
  <2>4. Cardinality(At(OpenPlaces)') \in Nat
    <3>1. IsFiniteSet(At(OpenPlaces)')  BY SizeAssumption, FS_Subset DEF At
    <3> QED  BY <3>1, FS_CardinalityType
  <2>5. usage' = 2 * Cardinality(At(OpenPlaces)') /\ usage > 0
    BY <1>1, <1>2, <2>1, <2>3, <2>4 DEF AccountsAgree, RoomInv
  <2>6. loaded  BY <1>1, <2>5 DEF AccountsAgree, RoomInv
  <2>7. usage' \in Nat  BY <2>4, <2>5
  <2>8. CountTypes'  BY <1>1, <2>1, <2>7 DEF CountTypes, Places
  <2>9. AccountsAgree'  BY <2>8, InTermsOfAtAfter
  <2> QED  BY <1>1, <2>1, <2>2, <2>5, <2>6, <2>8, <2>9 DEF AccountsAgree, RoomInv
<1> QED  BY <1>3, <1>4, <1>5

-----------------------------------------------------------------------------
(* Calls *)

\* A call moves among places that all hold a cell, or none.
LEMMA CallHoldsWhatItHeld ==
  ASSUME RoomInv, NEW u \in Users,
         \/ BeginWrite(u) \/ CopyFromUser(u) \/ Encode(u) \/ MoveWritePos(u)
         \/ BeginRead(u) \/ Decode(u) \/ CopyToUser(u) \/ MoveReadPos(u)
         \/ Done(u) \/ WouldBlock(u) \/ Interrupted(u)
  PROVE  RoomInv'
<1>1. PICK at \in OpenPlaces :
        /\ UNCHANGED <<itemsInBuffer, freeBufferSpace, loaded, usage>>
        /\ pc[u] # "closed" /\ pc' = [pc EXCEPT ![u] = at]
        /\ (pc[u] \in WriterPlaces) <=> (at \in WriterPlaces)
        /\ (pc[u] \in ReaderPlaces) <=> (at \in ReaderPlaces)
  BY DEF BeginWrite, CopyFromUser, Encode, MoveWritePos, BeginRead, Decode, CopyToUser,
         MoveReadPos, Done, WouldBlock, Interrupted, Leaves, Loops, Goto, counts, locals,
         OpenPlaces, Places, WriterPlaces, ReaderPlaces
<1>2. CountTypes  BY DEF RoomInv
<1>3. CountTypes'  BY <1>1, <1>2 DEF CountTypes, OpenPlaces
<1>4. pc[u] \in OpenPlaces  BY <1>1, <1>2 DEF CountTypes, OpenPlaces
<1>5. /\ Cardinality(At(WriterPlaces)') = Cardinality(At(WriterPlaces))
      /\ Cardinality(At(ReaderPlaces)') = Cardinality(At(ReaderPlaces))
      /\ Cardinality(At(OpenPlaces)') = Cardinality(At(OpenPlaces))
  BY <1>1, <1>2, <1>4, NoneComes
<1>6. Room' = Room  BY <1>1, <1>5 DEF Room
<1> QED  BY <1>1, <1>3, <1>5, <1>6, SameAccounts

\* A call takes a cell: down() of one semaphore.
LEMMA CallTakesCell ==
  ASSUME RoomInv, NEW u \in Users, DownFree(u) \/ DownItems(u)
  PROVE  RoomInv'
<1> USE DEF Goto
<1>1. CountTypes  BY DEF RoomInv
<1>2. /\ Cardinality(At(WriterPlaces)) \in Nat
      /\ Cardinality(At(ReaderPlaces)) \in Nat
  BY AtFinite
<1>3. freeBufferSpace \in Nat /\ itemsInBuffer \in Nat  BY <1>1 DEF CountTypes
<1>4. CASE DownFree(u)
  <2>1. /\ UNCHANGED <<itemsInBuffer, loaded, usage>>
        /\ freeBufferSpace > 0 /\ freeBufferSpace' = freeBufferSpace - 1
        /\ pc[u] = "write" /\ pc' = [pc EXCEPT ![u] = "from user"]
    BY <1>4 DEF DownFree
  <2>2. /\ Cardinality(At(WriterPlaces)') = Cardinality(At(WriterPlaces)) + 1
        /\ Cardinality(At(ReaderPlaces)') = Cardinality(At(ReaderPlaces))
        /\ Cardinality(At(OpenPlaces)') = Cardinality(At(OpenPlaces))
    BY <1>1, <2>1, OneComes, NoneComes
       DEF OpenPlaces, Places, WriterPlaces, ReaderPlaces
  <2>6. /\ freeBufferSpace > 0 /\ freeBufferSpace' = freeBufferSpace - 1
        /\ itemsInBuffer' = itemsInBuffer
    BY <2>1
  <2>3. Room' = Room  BY <1>2, <1>3, <2>2, <2>6 DEF Room
  <2>4. freeBufferSpace' \in Nat  BY <1>3, <2>6
  <2>5. CountTypes'  BY <1>1, <2>1, <2>4 DEF CountTypes, Places
  <2> QED  BY <2>1, <2>2, <2>3, <2>5, SameAccounts
<1>5. CASE DownItems(u)
  <2>1. /\ UNCHANGED <<freeBufferSpace, loaded, usage>>
        /\ itemsInBuffer > 0 /\ itemsInBuffer' = itemsInBuffer - 1
        /\ pc[u] = "read" /\ pc' = [pc EXCEPT ![u] = "decode"]
    BY <1>5 DEF DownItems
  <2>2. /\ Cardinality(At(ReaderPlaces)') = Cardinality(At(ReaderPlaces)) + 1
        /\ Cardinality(At(WriterPlaces)') = Cardinality(At(WriterPlaces))
        /\ Cardinality(At(OpenPlaces)') = Cardinality(At(OpenPlaces))
    BY <1>1, <2>1, OneComes, NoneComes
       DEF OpenPlaces, Places, WriterPlaces, ReaderPlaces
  <2>6. /\ itemsInBuffer > 0 /\ itemsInBuffer' = itemsInBuffer - 1
        /\ freeBufferSpace' = freeBufferSpace
    BY <2>1
  <2>3. Room' = Room  BY <1>2, <1>3, <2>2, <2>6 DEF Room
  <2>4. itemsInBuffer' \in Nat  BY <1>3, <2>6
  <2>5. CountTypes'  BY <1>1, <2>1, <2>4 DEF CountTypes, Places
  <2> QED  BY <2>1, <2>2, <2>3, <2>5, SameAccounts
<1> QED  BY <1>4, <1>5

\* A call hands its cell on, or back where it came from if a copy fails: up()
\* of one semaphore.
LEMMA CallReturnsCell ==
  ASSUME RoomInv, NEW u \in Users,
         FailCopyFrom(u) \/ UpItems(u) \/ FailCopyTo(u) \/ UpFree(u)
  PROVE  RoomInv'
<1>1. CountTypes  BY DEF RoomInv
<1>2. /\ Cardinality(At(WriterPlaces)) \in Nat
      /\ Cardinality(At(ReaderPlaces)) \in Nat
  BY AtFinite
<1>3. freeBufferSpace \in Nat /\ itemsInBuffer \in Nat  BY <1>1 DEF CountTypes
<1>4. PICK at \in OpenPlaces :
        /\ pc[u] # "closed" /\ pc' = [pc EXCEPT ![u] = at]
        /\ at \notin WriterPlaces /\ at \notin ReaderPlaces
        /\ UNCHANGED <<loaded, usage>>
        /\ \/ freeBufferSpace' = freeBufferSpace + 1 /\ UNCHANGED itemsInBuffer
           \/ itemsInBuffer' = itemsInBuffer + 1 /\ UNCHANGED freeBufferSpace
        /\ \/ pc[u] \in WriterPlaces /\ pc[u] \notin ReaderPlaces
           \/ pc[u] \in ReaderPlaces /\ pc[u] \notin WriterPlaces
  BY DEF FailCopyFrom, UpItems, FailCopyTo, UpFree, Goto, Leaves, OpenPlaces, Places,
         WriterPlaces, ReaderPlaces
<1>5. Cardinality(At(OpenPlaces)') = Cardinality(At(OpenPlaces))
  BY <1>1, <1>4, NoneComes DEF OpenPlaces, CountTypes
<1>6. \/ /\ Cardinality(At(WriterPlaces)') = Cardinality(At(WriterPlaces)) - 1
         /\ Cardinality(At(ReaderPlaces)') = Cardinality(At(ReaderPlaces))
      \/ /\ Cardinality(At(ReaderPlaces)') = Cardinality(At(ReaderPlaces)) - 1
         /\ Cardinality(At(WriterPlaces)') = Cardinality(At(WriterPlaces))
  <2>1. CASE pc[u] \in WriterPlaces /\ pc[u] \notin ReaderPlaces
    BY <1>1, <1>4, <2>1, OneGoes, NoneComes
  <2>2. CASE pc[u] \in ReaderPlaces /\ pc[u] \notin WriterPlaces
    BY <1>1, <1>4, <2>2, OneGoes, NoneComes
  <2> QED  BY <1>4, <2>1, <2>2
<1>10. \/ freeBufferSpace' = freeBufferSpace + 1 /\ itemsInBuffer' = itemsInBuffer
       \/ itemsInBuffer' = itemsInBuffer + 1 /\ freeBufferSpace' = freeBufferSpace
  BY <1>4
<1>7. Room' = Room  BY <1>2, <1>3, <1>6, <1>10 DEF Room
<1>8. freeBufferSpace' \in Nat /\ itemsInBuffer' \in Nat  BY <1>3, <1>10
<1>9. CountTypes'  BY <1>1, <1>4, <1>8 DEF CountTypes, OpenPlaces
<1> QED  BY <1>4, <1>5, <1>7, <1>9, SameAccounts

-----------------------------------------------------------------------------

LEMMA RoomStep == RoomInv /\ [Next]_vars => RoomInv'
<1> SUFFICES ASSUME RoomInv, [Next]_vars PROVE RoomInv'  OBVIOUS
<1>1. CASE translate_init \/ translate_cleanup
  BY <1>1, InitKeepsRoom, CleanupKeepsRoom
<1>2. ASSUME NEW u \in Users,
             BeginOpen(u) \/ TakeLock(u) \/ Refuse(u) \/ translate_release(u)
      PROVE  RoomInv'
  BY <1>2, OpenKeepsRoom
<1>3. ASSUME NEW u \in Users,
             BeginWrite(u) \/ BeginRead(u) \/ Interrupted(u) \/ Proceed(u)
      PROVE  RoomInv'
  BY <1>3, CallHoldsWhatItHeld, CallTakesCell, CallReturnsCell DEF Proceed, Write, Read
<1>4. CASE UNCHANGED vars
  <2>1. UNCHANGED <<pc, usage, freeBufferSpace, itemsInBuffer, loaded>>
    BY <1>4 DEF vars, counts
  <2>2. \A S : At(S)' = At(S)  BY <2>1 DEF At
  <2>3. Room' = Room  BY <2>1, <2>2 DEF Room
  <2>4. CountTypes'  BY <2>1 DEF CountTypes, RoomInv
  <2> QED  BY <2>1, <2>2, <2>3, <2>4, SameAccounts
<1> QED  BY <1>1, <1>2, <1>3, <1>4 DEF Next

\* No order of calls, interruptions and failed copies loses a cell of the
\* buffer (translate.c:182-262, 300-385).
THEOREM RoomStaysAccountedFor == Spec => []RoomIsAccountedFor
<1>1. RoomInv => RoomIsAccountedFor  BY DEF RoomInv
<1> QED  BY RoomInit, RoomStep, <1>1, PTL DEF Spec

\* The use count is that of the files, and no module with files goes
\* (translate.c:84-118, 149).
THEOREM UseCountStaysRight == Spec => []UseCountFollowsFiles
<1>1. RoomInv => UseCountFollowsFiles  BY DEF RoomInv
<1> QED  BY RoomInit, RoomStep, <1>1, PTL DEF Spec

-----------------------------------------------------------------------------
(* The device is a queue of bytes *)

WritePlaces == {"write"} \union WriterPlaces
ReadPlaces  == {"read"} \union ReaderPlaces

\* The places of the reader after which the first character counts as decoded.
TakePlaces == {"to user", "move read", "up free"}

\* What a process may write, read or find in the table or the buffer.
Bytes == Int \union Inputs \union {translate_subst[i] : i \in 0 .. TableSize - 1}

DeviceTypes ==
  /\ loaded \in BOOLEAN /\ minor \in {0, 1}
  /\ buffer \in [Cells -> Bytes] /\ {read_pos, write_pos} \subseteq Cells
  /\ {writer_open_lock, reader_open_lock} \subseteq {0, 1}
  /\ mode \in [Users -> {"none", "r", "w", "rw"}]
  /\ todo \in [Users -> Seq(Inputs)] /\ left \in [Users -> Nat]
  /\ got \in [Users -> Seq(Bytes)] /\ index \in [Users -> Cells]

\* The process has got past the lock of this name.
LockOf(m)     == IF Writes(m) THEN "w" ELSE "r"
HasPort(u, m) == pc[u] \notin {"closed", "opening"} /\ LockOf(mode[u]) = m

\* Each lock is held by one file, and no two processes read.
PortInv ==
  /\ \A u \in Users : /\ pc[u] = "closed" => mode[u] = "none"
                      /\ pc[u] # "closed" => mode[u] \in {"r", "w", "rw"}
                      /\ pc[u] \in WritePlaces => Writes(mode[u])
                      /\ HasPort(u, "w") => writer_open_lock = 0
                      /\ HasPort(u, "r") => reader_open_lock = 0
  /\ \A u, v \in Users, m \in {"r", "w"} : HasPort(u, m) /\ HasPort(v, m) => u = v
  /\ \A u, v \in Users : pc[u] \in ReadPlaces /\ pc[v] \in ReadPlaces => u = v

\* The locals agree with the device, and the loops with their conditions.
CallInv ==
  \A u \in Users : /\ pc[u] \in WritePlaces => index[u] = write_pos
                   /\ pc[u] \in ReadPlaces => index[u] = read_pos
                   /\ pc[u] \in WriterPlaces => todo[u] # <<>>
                   /\ pc[u] \in ReaderPlaces => left[u] > 0
                   /\ pc[u] \notin ReadPlaces => left[u] = 0 /\ got[u] = <<>>

WriterAhead == IF \E u \in Users : pc[u] = "up items" THEN 1 ELSE 0
ReaderAhead == IF \E u \in Users : pc[u] = "up free" THEN 1 ELSE 0

\* How far the write pointer is ahead of the read pointer.
Distance == QueueLength + WriterAhead - ReaderAhead

DistanceInv == \/ write_pos = read_pos + Distance
               \/ write_pos = read_pos + Distance - translate_bufsize

\* Where the i-th character of the queue lies.
Cell(i) == (FirstPos + i - 1) % translate_bufsize

\* What translate_write puts for c.
Stored(c) == IF minor = 0 THEN encode(c) ELSE c

\* The writer's character, from the copy to the counting.
StoredInv ==
  \A u \in Users :
    /\ pc[u] = "encode" => buffer[write_pos] = Head(todo[u])
    /\ pc[u] = "move write" => buffer[write_pos] = Stored(Head(todo[u]))
    /\ pc[u] = "up items" => buffer[Cell(QueueLength + 1)] = Stored(Head(todo[u]))

\* What the reader has copied and not yet counted is the first of the queue.
GotInv ==
  \A u \in Users : pc[u] \in {"move read", "up free"} =>
    got[u] # <<>> /\ got[u][Len(got[u])] = buffer[FirstPos]

CoreInv  == RoomInv /\ DeviceTypes /\ PortInv /\ CallInv /\ DistanceInv
QueueInv == CoreInv /\ StoredInv /\ GotInv

-----------------------------------------------------------------------------
(* How long the queue is, and who works on it *)

\* There are no files, so no process is in the driver.
LEMMA AllClosed ==
  ASSUME RoomInv, ~loaded \/ usage = 0
  PROVE  \A u \in Users : pc[u] = "closed"
<1>1. CountTypes /\ AccountsAgree  BY InTermsOfAt DEF RoomInv
<1>2. Cardinality(At(OpenPlaces)) = 0
  BY <1>1, AtFinite DEF RoomInv, AccountsAgree, CountTypes
<1>3. At(OpenPlaces) = {}  BY <1>2, AtFinite, FS_EmptySet
<1> QED  BY <1>1, <1>3 DEF At, OpenPlaces, CountTypes

LEMMA OneCaller ==
  ASSUME PortInv, NEW u \in Users, NEW v \in Users
  PROVE  /\ pc[u] \in WritePlaces /\ pc[v] \in WritePlaces => u = v
         /\ pc[u] \in ReadPlaces /\ pc[v] \in ReadPlaces => u = v
<1>1. \A w \in Users : pc[w] \in WritePlaces => HasPort(w, "w")
  BY DEF PortInv, HasPort, LockOf, WritePlaces, WriterPlaces
<1> QED  BY <1>1 DEF PortInv

LEMMA LengthIs ==
  QueueLength = IF loaded THEN itemsInBuffer + Cardinality(At(ReaderPlaces)) ELSE 0
<1>1. ReaderHolds = At(ReaderPlaces)  BY DEF ReaderHolds, At, ReaderPlaces
<1> QED  BY <1>1 DEF QueueLength

\* The length of the queue is in range, and the semaphores tell when it is at
\* the end of its range.
LEMMA LengthFacts ==
  ASSUME RoomInv, PortInv
  PROVE  /\ QueueLength \in 0 .. translate_bufsize
         /\ \A u \in Users : pc[u] \in WriterPlaces => QueueLength < translate_bufsize
         /\ \A u \in Users : pc[u] \in ReaderPlaces => QueueLength > 0
         /\ \A u \in Users : pc[u] = "write" /\ freeBufferSpace = 0 =>
                               QueueLength = translate_bufsize
         /\ \A u \in Users : pc[u] = "read" /\ itemsInBuffer = 0 => QueueLength = 0
<1> DEFINE w == Cardinality(At(WriterPlaces))
           r == Cardinality(At(ReaderPlaces))
<1>1. CASE ~loaded
  <2>1. QueueLength = 0 /\ \A u \in Users : pc[u] = "closed"
    BY <1>1, LengthIs, AllClosed
  <2>2. \A u \in Users : /\ pc[u] \notin WriterPlaces /\ pc[u] \notin ReaderPlaces
                         /\ pc[u] # "write" /\ pc[u] # "read"
    BY <2>1 DEF WriterPlaces, ReaderPlaces
  <2>3. QueueLength \in 0 .. translate_bufsize  BY <2>1, SizeAssumption
  <2> QED  BY <2>2, <2>3
<1>2. CASE loaded
  <2>1. /\ w \in Nat /\ r \in Nat /\ freeBufferSpace \in Nat /\ itemsInBuffer \in Nat
        /\ translate_bufsize \in Nat
    BY AtFinite, SizeAssumption DEF RoomInv, CountTypes
  <2>2. /\ freeBufferSpace + itemsInBuffer + w + r = translate_bufsize
        /\ QueueLength = itemsInBuffer + r
    BY <1>2, InTermsOfAt, LengthIs DEF RoomInv, AccountsAgree, Room
  <2>3. /\ \A u \in Users : pc[u] \in WriterPlaces => w > 0
        /\ \A u \in Users : pc[u] \in ReaderPlaces => r > 0
    <3>1. /\ \A u \in Users : pc[u] \in WriterPlaces => At(WriterPlaces) # {}
          /\ \A u \in Users : pc[u] \in ReaderPlaces => At(ReaderPlaces) # {}
      BY DEF At
    <3>2. w # 0 \/ At(WriterPlaces) = {}  BY AtFinite, FS_EmptySet
    <3>3. r # 0 \/ At(ReaderPlaces) = {}  BY AtFinite, FS_EmptySet
    <3> QED  BY <2>1, <3>1, <3>2, <3>3
  <2>4. ASSUME NEW u \in Users, pc[u] = "write" PROVE w = 0
    <3>1. At(WriterPlaces) = {}
      <4>1. pc[u] \in WritePlaces /\ pc[u] \notin WriterPlaces
            /\ WriterPlaces \subseteq WritePlaces
        BY <2>4 DEF WritePlaces, WriterPlaces
      <4> QED  BY <4>1, OneCaller DEF At
    <3> QED  BY <3>1, FS_EmptySet
  <2>5. ASSUME NEW u \in Users, pc[u] = "read" PROVE r = 0
    <3>1. At(ReaderPlaces) = {}
      <4>1. pc[u] \in ReadPlaces /\ pc[u] \notin ReaderPlaces
            /\ ReaderPlaces \subseteq ReadPlaces
        BY <2>5 DEF ReadPlaces, ReaderPlaces
      <4> QED  BY <4>1, OneCaller DEF At
    <3> QED  BY <3>1, FS_EmptySet
  <2> HIDE DEF w, r
  <2>6. QueueLength \in 0 .. translate_bufsize  BY <2>1, <2>2
  <2>7. \A u \in Users : pc[u] \in WriterPlaces => QueueLength < translate_bufsize
    BY <2>1, <2>2, <2>3
  <2>8. \A u \in Users : pc[u] \in ReaderPlaces => QueueLength > 0
    BY <2>1, <2>2, <2>3
  <2>9. \A u \in Users : pc[u] = "write" /\ freeBufferSpace = 0 =>
                           QueueLength = translate_bufsize
    BY <2>1, <2>2, <2>3, <2>4, <2>5
  <2>10. \A u \in Users : pc[u] = "read" /\ itemsInBuffer = 0 => QueueLength = 0
    BY <2>1, <2>2, <2>5
  <2> QED  BY <2>6, <2>7, <2>8, <2>9, <2>10
<1> QED  BY <1>1, <1>2

\* What a step of one process does to the length of the queue.
LEMMA LengthMoves ==
  ASSUME RoomInv, UNCHANGED loaded, NEW u \in Users, NEW at, pc' = [pc EXCEPT ![u] = at]
  PROVE  /\ (pc[u] \in ReaderPlaces <=> at \in ReaderPlaces) /\ UNCHANGED itemsInBuffer =>
              QueueLength' = QueueLength
         /\ loaded =>
              /\ (pc[u] \in ReaderPlaces <=> at \in ReaderPlaces)
                 /\ itemsInBuffer' = itemsInBuffer + 1 => QueueLength' = QueueLength + 1
              /\ pc[u] \notin ReaderPlaces /\ at \in ReaderPlaces
                 /\ itemsInBuffer' = itemsInBuffer - 1 => QueueLength' = QueueLength
              /\ pc[u] \in ReaderPlaces /\ at \notin ReaderPlaces
                 /\ itemsInBuffer' = itemsInBuffer + 1 => QueueLength' = QueueLength
              /\ pc[u] \in ReaderPlaces /\ at \notin ReaderPlaces
                 /\ UNCHANGED itemsInBuffer => QueueLength' = QueueLength - 1
<1> DEFINE r == Cardinality(At(ReaderPlaces))
           q == Cardinality(At(ReaderPlaces)')
<1>1. CountTypes /\ r \in Nat /\ itemsInBuffer \in Nat
  BY AtFinite DEF RoomInv, CountTypes
<1>2. /\ (pc[u] \in ReaderPlaces <=> at \in ReaderPlaces) => q = r
      /\ pc[u] \notin ReaderPlaces /\ at \in ReaderPlaces => q = r + 1
      /\ pc[u] \in ReaderPlaces /\ at \notin ReaderPlaces => q = r - 1
  BY <1>1, OneComes, OneGoes, NoneComes
<1>3. /\ QueueLength = IF loaded THEN itemsInBuffer + r ELSE 0
      /\ QueueLength' = IF loaded THEN itemsInBuffer' + q ELSE 0
  <2>1. QueueLength' = IF loaded' THEN itemsInBuffer' + q ELSE 0
    <3>1. ReaderHolds = At(ReaderPlaces)  BY DEF ReaderHolds, At, ReaderPlaces
    <3>2. ReaderHolds' = At(ReaderPlaces)'  BY DEF ReaderHolds, At, ReaderPlaces
    <3> QED  BY <3>2 DEF QueueLength
  <2> QED  BY <2>1, LengthIs
<1> HIDE DEF r, q
<1> QED  BY <1>1, <1>2, <1>3

-----------------------------------------------------------------------------
(* The files and their locks *)

\* The others do not read.
ReadsAlone(u) == \A v \in Users : v # u => pc[v] \notin ReadPlaces

\* A call leaves them alone.
LEMMA PortsKept ==
  ASSUME CountTypes, PortInv, NEW u \in Users, NEW at, pc' = [pc EXCEPT ![u] = at],
         UNCHANGED <<opens, mode>>,
         pc[u] \notin {"closed", "opening"}, at \notin {"closed", "opening"},
         at \in WritePlaces => Writes(mode[u]), at \in ReadPlaces => ReadsAlone(u)
  PROVE  PortInv'
<1>1. pc'[u] = at /\ \A v \in Users : v # u => pc'[v] = pc[v]  BY DEF CountTypes
<1>2. UNCHANGED <<writer_open_lock, reader_open_lock, mode>>  BY DEF opens
<1>3. \A v \in Users, m \in {"r", "w"} : HasPort(v, m)' <=> HasPort(v, m)
  BY <1>1, <1>2 DEF HasPort
<1>4. \A v \in Users : v # u =>
        (pc'[v] = "closed" <=> pc[v] = "closed")
  BY <1>1
<1>5. \A v \in Users : /\ pc'[v] = "closed" => mode[v] = "none"
                       /\ pc'[v] # "closed" => mode[v] \in {"r", "w", "rw"}
                       /\ pc'[v] \in WritePlaces => Writes(mode[v])
  BY <1>1, <1>4 DEF PortInv
<1>6. \A v, x \in Users : pc'[v] \in ReadPlaces /\ pc'[x] \in ReadPlaces => v = x
  BY <1>1 DEF PortInv, ReadsAlone
<1> QED  BY <1>2, <1>3, <1>5, <1>6 DEF PortInv

\* Opening and closing take and give back the lock of one port.
LEMMA PortsOpened ==
  ASSUME RoomInv, DeviceTypes, PortInv, NEW u \in Users,
         BeginOpen(u) \/ TakeLock(u) \/ Refuse(u) \/ translate_release(u)
  PROVE  PortInv' /\ DeviceTypes'
<1>1. /\ DOMAIN pc = Users /\ DOMAIN mode = Users
      /\ UNCHANGED <<loaded, minor, devs, locals>>
  BY DEF RoomInv, CountTypes, DeviceTypes, BeginOpen, TakeLock, Refuse,
     translate_release
<1>2. /\ writer_open_lock \in {0, 1} /\ reader_open_lock \in {0, 1}
      /\ mode \in [Users -> {"none", "r", "w", "rw"}]
  BY DEF DeviceTypes
<1>3. ASSUME mode' \in [Users -> {"none", "r", "w", "rw"}],
             writer_open_lock' \in {0, 1}, reader_open_lock' \in {0, 1}
      PROVE  DeviceTypes'
  BY <1>1, <1>3 DEF DeviceTypes, devs, locals
<1>7. \A v, x \in Users : pc'[v] \in ReadPlaces /\ pc'[x] \in ReadPlaces => v = x
  <2>1. \A v \in Users : pc'[v] \in ReadPlaces => pc[v] \in ReadPlaces
    BY <1>1 DEF BeginOpen, TakeLock, Refuse, translate_release, Goto, ReadPlaces,
       ReaderPlaces
  <2> QED  BY <2>1 DEF PortInv
<1>4. CASE BeginOpen(u)
  <2>1. PICK m \in {"r", "w", "rw"} :
          /\ pc[u] = "closed" /\ mode' = [mode EXCEPT ![u] = m]
          /\ pc' = [pc EXCEPT ![u] = "opening"]
          /\ UNCHANGED <<writer_open_lock, reader_open_lock>>
    BY <1>4, SizeAssumption DEF BeginOpen, Goto, opens
  <2>2. DeviceTypes'  BY <1>2, <1>3, <2>1
  <2>3. /\ pc'[u] = "opening" /\ mode'[u] = m
        /\ \A v \in Users : v # u => pc'[v] = pc[v] /\ mode'[v] = mode[v]
    BY <1>1, <2>1
  <2>4. \A v \in Users, n \in {"r", "w"} : HasPort(v, n)' <=> HasPort(v, n)
    BY <2>1, <2>3 DEF HasPort
  <2>5. \A v \in Users : /\ pc'[v] = "closed" => mode'[v] = "none"
                         /\ pc'[v] # "closed" => mode'[v] \in {"r", "w", "rw"}
                         /\ pc'[v] \in WritePlaces => Writes(mode'[v])
    <3> TAKE v \in Users
    <3>1. CASE v = u
      BY <2>1, <2>3, <3>1 DEF WritePlaces, ReadPlaces, WriterPlaces, ReaderPlaces
    <3>2. CASE v # u  BY <2>3, <3>2 DEF PortInv
    <3> QED  BY <3>1, <3>2
  <2> QED  BY <1>7, <2>1, <2>2, <2>4, <2>5 DEF PortInv
<1>5. CASE TakeLock(u)
  <2>1. /\ pc[u] = "opening" /\ pc' = [pc EXCEPT ![u] = "open"] /\ mode' = mode
        /\ IF Writes(mode[u])
             THEN /\ writer_open_lock > 0 /\ writer_open_lock' = writer_open_lock - 1
                  /\ reader_open_lock' = reader_open_lock
             ELSE /\ reader_open_lock > 0 /\ reader_open_lock' = reader_open_lock - 1
                  /\ writer_open_lock' = writer_open_lock
    BY <1>5 DEF TakeLock, Goto
  <2>2. mode[u] \in {"r", "w", "rw"}  BY <2>1 DEF PortInv
  <2>3. \/ /\ LockOf(mode[u]) = "w" /\ writer_open_lock = 1 /\ writer_open_lock' = 0
           /\ reader_open_lock' = reader_open_lock
        \/ /\ LockOf(mode[u]) = "r" /\ reader_open_lock = 1 /\ reader_open_lock' = 0
           /\ writer_open_lock' = writer_open_lock
    BY <1>2, <2>1, <2>2 DEF LockOf
  <2>4. DeviceTypes'  BY <1>2, <1>3, <2>1, <2>3
  <2>5. pc'[u] = "open" /\ \A v \in Users : v # u => pc'[v] = pc[v]
    BY <1>1, <2>1
  <2>6. \A v \in Users, m \in {"r", "w"} :
          HasPort(v, m)' <=> HasPort(v, m) \/ (v = u /\ LockOf(mode[u]) = m)
    BY <2>1, <2>5 DEF HasPort
  <2>7. \A v \in Users : ~HasPort(v, LockOf(mode[u]))  BY <2>2, <2>3 DEF PortInv
  <2>8. \A v \in Users : /\ pc'[v] = "closed" => mode'[v] = "none"
                         /\ pc'[v] # "closed" => mode'[v] \in {"r", "w", "rw"}
                         /\ pc'[v] \in WritePlaces => Writes(mode'[v])
    <3> TAKE v \in Users
    <3>1. CASE v = u
      BY <2>1, <2>2, <2>5, <3>1 DEF WritePlaces, ReadPlaces, WriterPlaces, ReaderPlaces
    <3>2. CASE v # u  BY <2>1, <2>5, <3>2 DEF PortInv
    <3> QED  BY <3>1, <3>2
  <2>9. \A v \in Users : /\ HasPort(v, "w")' => writer_open_lock' = 0
                         /\ HasPort(v, "r")' => reader_open_lock' = 0
    BY <2>3, <2>6 DEF PortInv
  <2>10. \A v, x \in Users, m \in {"r", "w"} : HasPort(v, m)' /\ HasPort(x, m)' => v = x
    BY <2>6, <2>7 DEF PortInv
  <2> QED  BY <1>7, <2>4, <2>8, <2>9, <2>10 DEF PortInv
<1>6. CASE Refuse(u) \/ translate_release(u)
  <2>1. /\ pc[u] \in {"opening", "open"} /\ pc' = [pc EXCEPT ![u] = "closed"]
        /\ mode' = [mode EXCEPT ![u] = "none"]
        /\ \/ UNCHANGED <<writer_open_lock, reader_open_lock>>
           \/ /\ pc[u] = "open"
              /\ IF Writes(mode[u])
                   THEN /\ writer_open_lock' = writer_open_lock + 1
                        /\ reader_open_lock' = reader_open_lock
                   ELSE /\ reader_open_lock' = reader_open_lock + 1
                        /\ writer_open_lock' = writer_open_lock
    BY <1>6 DEF Refuse, translate_release, Goto, opens
  <2>2. mode[u] \in {"r", "w", "rw"}  BY <2>1 DEF PortInv
  <2>3. pc[u] = "open" => HasPort(u, LockOf(mode[u]))  BY DEF HasPort
  <2>4. \/ UNCHANGED <<writer_open_lock, reader_open_lock>>
        \/ /\ LockOf(mode[u]) = "w" /\ HasPort(u, "w") /\ writer_open_lock' = 1
           /\ reader_open_lock' = reader_open_lock
        \/ /\ LockOf(mode[u]) = "r" /\ HasPort(u, "r") /\ reader_open_lock' = 1
           /\ writer_open_lock' = writer_open_lock
    BY <2>1, <2>2, <2>3 DEF PortInv, LockOf
  <2>5. DeviceTypes'  BY <1>2, <1>3, <2>1, <2>4
  <2>6. /\ pc'[u] = "closed" /\ mode'[u] = "none"
        /\ \A v \in Users : v # u => pc'[v] = pc[v] /\ mode'[v] = mode[v]
    BY <1>1, <2>1
  <2>7. \A v \in Users, m \in {"r", "w"} : HasPort(v, m)' => v # u /\ HasPort(v, m)
    BY <2>6 DEF HasPort
  <2>8. \A v \in Users : /\ pc'[v] = "closed" => mode'[v] = "none"
                         /\ pc'[v] # "closed" => mode'[v] \in {"r", "w", "rw"}
                         /\ pc'[v] \in WritePlaces => Writes(mode'[v])
    <3> TAKE v \in Users
    <3>1. CASE v = u
      BY <2>6, <3>1 DEF WritePlaces, ReadPlaces, WriterPlaces, ReaderPlaces
    <3>2. CASE v # u  BY <2>6, <3>2 DEF PortInv
    <3> QED  BY <3>1, <3>2
  <2>9. \A v \in Users : /\ HasPort(v, "w")' => writer_open_lock' = 0
                         /\ HasPort(v, "r")' => reader_open_lock' = 0
    BY <2>4, <2>7 DEF PortInv
  <2>10. \A v, x \in Users, m \in {"r", "w"} : HasPort(v, m)' /\ HasPort(x, m)' => v = x
    BY <2>7 DEF PortInv
  <2> QED  BY <1>7, <2>5, <2>8, <2>9, <2>10 DEF PortInv
<1> QED  BY <1>4, <1>5, <1>6

-----------------------------------------------------------------------------
(* Calls and pointers *)

\* The other processes stay where they are, and are not in the same kind of call.
LEMMA OthersStay ==
  ASSUME CountTypes, PortInv, NEW u \in Users, NEW at, pc' = [pc EXCEPT ![u] = at]
  PROVE  /\ pc'[u] = at
         /\ \A v \in Users : v # u =>
              /\ pc'[v] = pc[v]
              /\ pc[u] \in WritePlaces => pc'[v] \notin WritePlaces
              /\ pc[u] \in ReadPlaces => pc'[v] \notin ReadPlaces
<1>1. pc'[u] = at /\ \A v \in Users : v # u => pc'[v] = pc[v]  BY DEF CountTypes
<1> QED  BY <1>1, OneCaller

\* CallInv for one process.
CallInvOf(u) == /\ pc[u] \in WritePlaces => index[u] = write_pos
                /\ pc[u] \in ReadPlaces => index[u] = read_pos
                /\ pc[u] \in WriterPlaces => todo[u] # <<>>
                /\ pc[u] \in ReaderPlaces => left[u] > 0
                /\ pc[u] \notin ReadPlaces => left[u] = 0 /\ got[u] = <<>>

LEMMA CallsKept ==
  ASSUME CountTypes, PortInv, CallInv, NEW u \in Users, NEW at,
         pc' = [pc EXCEPT ![u] = at], CallInvOf(u)',
         \A v \in Users : v # u => /\ index'[v] = index[v] /\ todo'[v] = todo[v]
                                   /\ left'[v] = left[v] /\ got'[v] = got[v],
         UNCHANGED write_pos \/ pc[u] \in WritePlaces,
         UNCHANGED read_pos \/ pc[u] \in ReadPlaces
  PROVE  CallInv'
<1>1. \A v \in Users : v # u => CallInvOf(v)'
  <2> TAKE v \in Users
  <2> HAVE v # u
  <2>1. /\ pc'[v] = pc[v] /\ index'[v] = index[v] /\ todo'[v] = todo[v]
        /\ left'[v] = left[v] /\ got'[v] = got[v]
        /\ pc[v] \in WritePlaces => UNCHANGED write_pos
        /\ pc[v] \in ReadPlaces => UNCHANGED read_pos
    BY OthersStay
  <2>2. CallInvOf(v)  BY DEF CallInv, CallInvOf
  <2> QED  BY <2>1, <2>2 DEF CallInvOf
<1> QED  BY <1>1 DEF CallInv, CallInvOf

\* Who is ahead of the count.
LEMMA AheadMoves ==
  ASSUME CountTypes, PortInv, NEW u \in Users, NEW at, pc' = [pc EXCEPT ![u] = at]
  PROVE  /\ (pc[u] = "up items" <=> at = "up items") => WriterAhead' = WriterAhead
         /\ (pc[u] = "up free" <=> at = "up free") => ReaderAhead' = ReaderAhead
         /\ pc[u] \in WritePlaces =>
              /\ WriterAhead = IF pc[u] = "up items" THEN 1 ELSE 0
              /\ WriterAhead' = IF at = "up items" THEN 1 ELSE 0
         /\ pc[u] \in ReadPlaces =>
              /\ ReaderAhead = IF pc[u] = "up free" THEN 1 ELSE 0
              /\ ReaderAhead' = IF at = "up free" THEN 1 ELSE 0
<1>1. /\ pc'[u] = at
      /\ \A v \in Users : v # u =>
           /\ pc'[v] = pc[v]
           /\ pc[u] \in WritePlaces => pc'[v] \notin WritePlaces
           /\ pc[u] \in ReadPlaces => pc'[v] \notin ReadPlaces
  BY OthersStay
<1>2. "up items" \in WritePlaces /\ "up free" \in ReadPlaces
  BY DEF WritePlaces, WriterPlaces, ReadPlaces, ReaderPlaces
<1> DEFINE W == \E v \in Users : pc[v] = "up items"
           R == \E v \in Users : pc[v] = "up free"
<1>3. /\ (pc[u] = "up items" <=> at = "up items") => (W' <=> W)
      /\ pc[u] \in WritePlaces => (W <=> pc[u] = "up items") /\ (W' <=> at = "up items")
  BY <1>1, <1>2
<1>4. /\ (pc[u] = "up free" <=> at = "up free") => (R' <=> R)
      /\ pc[u] \in ReadPlaces => (R <=> pc[u] = "up free") /\ (R' <=> at = "up free")
  BY <1>1, <1>2
<1>5. /\ WriterAhead = (IF W THEN 1 ELSE 0) /\ WriterAhead' = (IF W' THEN 1 ELSE 0)
      /\ ReaderAhead = (IF R THEN 1 ELSE 0) /\ ReaderAhead' = (IF R' THEN 1 ELSE 0)
  BY DEF WriterAhead, ReaderAhead
<1> HIDE DEF W, R
<1> QED  BY <1>3, <1>4, <1>5

\* A step that moves no pointer and counts nothing.
LEMMA DistanceKept ==
  ASSUME DistanceInv, UNCHANGED <<read_pos, write_pos>>, QueueLength' = QueueLength,
         WriterAhead' = WriterAhead, ReaderAhead' = ReaderAhead
  PROVE  DistanceInv'
<1>1. Distance' = Distance  BY DEF Distance
<1> QED  BY <1>1 DEF DistanceInv

\* x modulo the size of the buffer, for the sums of two indexes.
LEMMA WrapsOnce ==
  ASSUME NEW x \in Nat, x < 2 * translate_bufsize
  PROVE  /\ x % translate_bufsize = IF x < translate_bufsize THEN x
                                                            ELSE x - translate_bufsize
         /\ x % translate_bufsize \in Cells
BY SizeAssumption DEF Cells

LEMMA NextPosWraps ==
  ASSUME NEW i \in Cells
  PROVE  NextPos(i) \in Cells /\ (NextPos(i) = i + 1 \/ NextPos(i) = i + 1 - translate_bufsize)
<1> DEFINE x == i + 1
<1>1. x \in Nat /\ x < 2 * translate_bufsize /\ NextPos(i) = x % translate_bufsize
  BY SizeAssumption DEF Cells, NextPos
<1> HIDE DEF x
<1>2. NextPos(i) \in Cells /\ (NextPos(i) = x \/ NextPos(i) = x - translate_bufsize)
  BY <1>1, WrapsOnce
<1>3. i \in Int /\ translate_bufsize \in Int  BY SizeAssumption DEF Cells
<1> QED  BY <1>2, <1>3 DEF x

LEMMA AheadIs ==
  /\ WriterAhead \in {0, 1} /\ ReaderAhead \in {0, 1}
  /\ ReaderAhead = IF FirstIsPassed THEN 1 ELSE 0
  BY DEF WriterAhead, ReaderAhead, FirstIsPassed

\* The characters of the queue lie one behind the other, and then comes the
\* writer's.
LEMMA CellsInRow ==
  ASSUME CoreInv
  PROVE  /\ FirstPos \in Cells
         /\ ~FirstIsPassed => FirstPos = read_pos
         /\ FirstIsPassed => \/ FirstPos = read_pos - 1
                             \/ FirstPos = read_pos - 1 + translate_bufsize
         /\ \A i \in 1 .. translate_bufsize :
              /\ Cell(i) \in Cells
              /\ \/ Cell(i) = FirstPos + i - 1
                 \/ Cell(i) = FirstPos + i - 1 - translate_bufsize
         /\ WriterAhead = 0 /\ QueueLength < translate_bufsize =>
              write_pos = Cell(QueueLength + 1)
<1>1. /\ read_pos \in Cells /\ write_pos \in Cells
      /\ QueueLength \in 0 .. translate_bufsize
      /\ ReaderAhead = IF FirstIsPassed THEN 1 ELSE 0
      /\ WriterAhead \in {0, 1} /\ ReaderAhead \in {0, 1}
  BY AheadIs, LengthFacts DEF CoreInv, DeviceTypes
<1>2. ASSUME FirstIsPassed
      PROVE  /\ FirstPos \in Cells
             /\ FirstPos = read_pos - 1 \/ FirstPos = read_pos - 1 + translate_bufsize
  <2> DEFINE x == read_pos + translate_bufsize - 1
  <2>1. x \in Nat /\ x < 2 * translate_bufsize  BY <1>1, SizeAssumption DEF Cells
  <2>2. FirstPos = x % translate_bufsize  BY <1>2 DEF FirstPos
  <2> HIDE DEF x
  <2>3. FirstPos \in Cells /\ (FirstPos = x \/ FirstPos = x - translate_bufsize)
    BY <2>1, <2>2, WrapsOnce
  <2>4. x = read_pos - 1 + translate_bufsize /\ x - translate_bufsize = read_pos - 1
    BY <1>1, SizeAssumption DEF x, Cells
  <2> QED  BY <2>3, <2>4
<1>3. ~FirstIsPassed => FirstPos = read_pos  BY DEF FirstPos
<1>4. FirstPos \in Cells  BY <1>1, <1>2, <1>3
<1>5. ASSUME NEW i \in 1 .. translate_bufsize
      PROVE  /\ Cell(i) \in Cells
             /\ \/ Cell(i) = FirstPos + i - 1
                \/ Cell(i) = FirstPos + i - 1 - translate_bufsize
  <2> DEFINE x == FirstPos + i - 1
  <2>1. x \in Nat /\ x < 2 * translate_bufsize  BY <1>4, SizeAssumption DEF Cells
  <2>2. Cell(i) = x % translate_bufsize  BY DEF Cell
  <2> HIDE DEF x
  <2>3. Cell(i) \in Cells /\ (Cell(i) = x \/ Cell(i) = x - translate_bufsize)
    BY <2>1, <2>2, WrapsOnce
  <2>4. x = FirstPos + i - 1 /\ x \in Int  BY <2>1 DEF x
  <2> QED  BY <1>4, <2>3, <2>4, SizeAssumption DEF Cells
<1>6. ASSUME WriterAhead = 0, QueueLength < translate_bufsize
      PROVE  write_pos = Cell(QueueLength + 1)
  <2> DEFINE n == QueueLength
             i == QueueLength + 1
  <2>1. n \in Int /\ n = i - 1 /\ i \in 1 .. translate_bufsize
    BY <1>1, <1>6, SizeAssumption
  <2>2. \/ write_pos = read_pos + n - ReaderAhead
        \/ write_pos = read_pos + n - ReaderAhead - translate_bufsize
    <3>1. Distance = n + 0 - ReaderAhead  BY <1>6 DEF Distance
    <3>2. \/ write_pos = read_pos + Distance
          \/ write_pos = read_pos + Distance - translate_bufsize
      BY DEF CoreInv, DistanceInv
    <3>3. read_pos \in Int /\ translate_bufsize \in Int /\ ReaderAhead \in Int
      BY <1>1, SizeAssumption DEF Cells
    <3> HIDE DEF n
    <3> QED  BY <2>1, <3>1, <3>2, <3>3
  <2>3. /\ Cell(i) \in Cells
        /\ \/ Cell(i) = FirstPos + i - 1
           \/ Cell(i) = FirstPos + i - 1 - translate_bufsize
    BY <1>5, <2>1
  <2> HIDE DEF i, n
  <2>4. /\ translate_bufsize \in Nat /\ i \in Int /\ FirstPos \in Int
        /\ read_pos \in Int
        /\ write_pos \in Int /\ 0 <= write_pos /\ write_pos < translate_bufsize
        /\ Cell(i) \in Int /\ 0 <= Cell(i) /\ Cell(i) < translate_bufsize
    BY <1>1, <1>4, <2>1, <2>3, SizeAssumption DEF Cells
  <2>5. /\ ReaderAhead \in Int
        /\ \/ FirstPos = read_pos - ReaderAhead
           \/ FirstPos = read_pos - ReaderAhead + translate_bufsize
    BY <1>1, <1>2, <1>3, <2>4
  <2>6. write_pos = Cell(i)  BY <2>1, <2>2, <2>3, <2>4, <2>5
  <2> QED  BY <2>6 DEF i
<1> QED  BY <1>2, <1>3, <1>4, <1>5, <1>6

\* No two of them share a cell.
LEMMA CellsApart ==
  ASSUME CoreInv, NEW i \in 1 .. translate_bufsize, NEW k \in 1 .. translate_bufsize,
         Cell(i) = Cell(k)
  PROVE  i = k
<1>1. /\ FirstPos \in Int /\ translate_bufsize \in Int
      /\ \/ Cell(i) = FirstPos + i - 1
         \/ Cell(i) = FirstPos + i - 1 - translate_bufsize
      /\ \/ Cell(k) = FirstPos + k - 1
         \/ Cell(k) = FirstPos + k - 1 - translate_bufsize
  BY CellsInRow, SizeAssumption DEF Cells
<1> QED  BY <1>1

-----------------------------------------------------------------------------
(* The codec *)

\* The table has both alphabets, as TRANSLATE_DEF_SUBST does; the final driver
\* has no other.
FullTable == TableSize = 52

\* Every set of natural numbers that is not empty has a least element.
LEMMA LeastOne ==
  ASSUME NEW S \in SUBSET Nat, S # {}
  PROVE  \E i \in S : \A j \in S : i <= j
<1>1. \E i \in S : \A j \in S : ~(<<j, i>> \in OpToRel(<, Nat))
  BY NatLessThanWellFounded, WFMin
<1>2. \A j \in Nat, i \in Nat : j < i => <<j, i>> \in OpToRel(<, Nat)
  BY Zenon DEF OpToRel
<1>3. \E i \in S : \A j \in S : ~(j < i)  BY <1>1, <1>2, Zenon
<1> QED  BY <1>3

LEMMA CodecTyped ==
  ASSUME NEW c \in Bytes
  PROVE  encode(c) \in Bytes /\ decode(c) \in Bytes
<1>1. encode(c) \in Bytes
  <2> DEFINE i == getEncodedCharIndex(c)
  <2>1. i \in Int
    BY DEF getEncodedCharIndex, UPPER_OFFSET, LOWER_OFFSET
  <2>2. i >= 0 /\ i < TableSize => i \in 0 .. TableSize - 1  BY <2>1, SizeAssumption
  <2>3. encode(c) = IF i >= 0 /\ i < TableSize THEN translate_subst[i] ELSE c
    BY DEF encode
  <2> HIDE DEF i
  <2> QED  BY <2>2, <2>3 DEF Bytes
<1>2. decode(c) \in Bytes
  <2>1. CASE Found(c) = {}  BY <2>1 DEF decode
  <2>2. CASE Found(c) # {}
    <3> DEFINE First(i) == i \in Found(c) /\ \A j \in Found(c) : i <= j
    <3>1. Found(c) \subseteq Nat  BY SizeAssumption DEF Found
    <3>2. \E i \in Found(c) : \A j \in Found(c) : i <= j
      BY <2>2, <3>1, LeastOne
    <3> DEFINE f == CHOOSE i \in Found(c) : \A j \in Found(c) : i <= j
    <3>3. f \in Nat  BY <3>1, <3>2
    <3>4. decode(c) = FromIndex(f)  BY <2>2 DEF decode
    <3> HIDE DEF f
    <3>5. FromIndex(f) \in Int  BY <3>3 DEF FromIndex, UPPER_OFFSET
    <3> QED  BY <3>4, <3>5 DEF Bytes
  <2> QED  BY <2>1, <2>2
<1> QED  BY <1>1, <1>2

\* The abstract device has the same codec, though the two drivers calculate
\* with different offsets.
LEMMA CodecIsShared ==
  ASSUME FullTable, NEW c \in Bytes
  PROVE  /\ Fifo!encode_char(translate_subst, c) = encode(c)
         /\ Fifo!decode_char(translate_subst, c) = decode(c)
<1> USE DEF FullTable
<1>1. Fifo!encode_char(translate_subst, c) = encode(c)
  <2>1. Fifo!encode_index_from_char(c) = getEncodedCharIndex(c)
    BY DEF Fifo!encode_index_from_char, getEncodedCharIndex, Fifo!UpperCase,
           Fifo!LowerCase, Fifo!UPPER_CASE_ASCII, Fifo!LOWER_CASE_ASCII,
           Fifo!UPPER_CASE_SUBSTR_OFFSET, Fifo!LOWER_CASE_SUBSTR_OFFSET,
           Fifo!TRANSLATE_SUBSTR_LEN, UPPER_OFFSET, LOWER_OFFSET,
           Fifo!NEUTRAL_CHAR_INDEX
  <2>2. getEncodedCharIndex(c) \in -1 .. 51
    BY DEF getEncodedCharIndex, UPPER_OFFSET, LOWER_OFFSET
  <2> QED  BY <2>1, <2>2 DEF Fifo!encode_char, encode, Fifo!NEUTRAL_CHAR_INDEX
<1>2. Fifo!Occurrences(translate_subst, c) = Found(c) /\ Found(c) \subseteq 0 .. 52
  BY DEF Fifo!Occurrences, Found, Fifo!NUL, Fifo!Positions, Fifo!TRANSLATE_SUBSTR_LEN
<1>3. ASSUME Found(c) # {}
      PROVE  Fifo!decode_char(translate_subst, c) = decode(c)
  <2> DEFINE f == CHOOSE i \in Found(c) : \A j \in Found(c) : i <= j
  <2>1. Fifo!FirstOccurrence(translate_subst, c) = f
    BY <1>2 DEF Fifo!FirstOccurrence
  <2>2. f \in 0 .. 52
    <3>1. Found(c) \in SUBSET Nat  BY <1>2
    <3>2. \E i \in Found(c) : \A j \in Found(c) : i <= j  BY <1>3, <3>1, LeastOne
    <3>3. f \in Found(c)  BY <3>2
    <3> QED  BY <1>2, <3>3
  <2>3. decode(c) = FromIndex(f)
        /\ Fifo!decode_char(translate_subst, c) = Fifo!decode_from_index(f)
    BY <1>2, <1>3, <2>1 DEF decode, Fifo!decode_char
  <2> HIDE DEF f
  <2>4. FromIndex(f) = Fifo!decode_from_index(f)
    BY <2>2 DEF FromIndex, UPPER_OFFSET, Fifo!decode_from_index,
                Fifo!UPPER_CASE_ASCII, Fifo!LOWER_CASE_ASCII,
                Fifo!UPPER_CASE_SUBSTR_OFFSET, Fifo!LOWER_CASE_SUBSTR_OFFSET,
                Fifo!TRANSLATE_SUBSTR_LEN
  <2> QED  BY <2>3, <2>4
<1>4. Found(c) = {} => Fifo!decode_char(translate_subst, c) = decode(c)
  BY <1>2 DEF decode, Fifo!decode_char
<1> QED  BY <1>1, <1>3, <1>4

-----------------------------------------------------------------------------
(* The types, the ports, the calls and the distance of the pointers *)

LEMMA CoreInit == Init => CoreInv
<1> SUFFICES ASSUME Init PROVE CoreInv  OBVIOUS
<1>1. RoomInv  BY RoomInit
<1>2. 0 \in Cells  BY SizeAssumption DEF Cells
<1>3. DeviceTypes
  <2>1. <<>> \in Seq(Inputs) /\ <<>> \in Seq(Bytes) /\ 0 \in Bytes  BY DEF Bytes
  <2> QED  BY <1>2, <2>1 DEF Init, DeviceTypes
<1>4. \A u \in Users : pc[u] = "closed" /\ mode[u] = "none"  BY DEF Init
<1>5. PortInv
  BY <1>4 DEF PortInv, HasPort, WritePlaces, ReadPlaces, WriterPlaces, ReaderPlaces
<1>6. CallInv
  BY <1>4 DEF Init, CallInv, WritePlaces, ReadPlaces, WriterPlaces, ReaderPlaces
<1>7. DistanceInv
  <2>1. WriterAhead = 0 /\ ReaderAhead = 0  BY <1>4 DEF WriterAhead, ReaderAhead
  <2>2. QueueLength = 0  BY DEF Init, QueueLength
  <2>3. Distance = 0  BY <2>1, <2>2 DEF Distance
  <2> QED  BY <2>3 DEF DistanceInv, Init
<1> QED  BY <1>1, <1>3, <1>5, <1>6, <1>7 DEF CoreInv

\* Loading and removing find all files closed.
LEMMA LoadKeepsCore ==
  ASSUME CoreInv, translate_init \/ translate_cleanup
  PROVE  CoreInv' /\ QueueLength' = 0 /\ \A u \in Users : pc[u] = "closed"
<1>1. /\ RoomInv /\ RoomInv' /\ 0 \in Cells
      /\ \A u \in Users : pc[u] = "closed"
  <2>1. RoomInv /\ (~loaded \/ usage = 0)
    BY DEF CoreInv, translate_init, translate_cleanup
  <2> QED  BY <2>1, InitKeepsRoom, CleanupKeepsRoom, AllClosed, SizeAssumption DEF Cells
<1>2. /\ UNCHANGED <<minor, mode, pc, todo, left, got, index>>
      /\ read_pos' = 0 /\ write_pos' = 0 /\ loaded' \in BOOLEAN
      /\ buffer' = buffer \/ buffer' = [c \in Cells |-> 0]
      /\ UNCHANGED opens \/ (writer_open_lock' = 1 /\ reader_open_lock' = 1)
  BY DEF translate_init, translate_cleanup, locals
<1>3. DeviceTypes'
  <2>1. buffer' \in [Cells -> Bytes]
    <3>1. 0 \in Bytes  BY DEF Bytes
    <3> QED  BY <1>2, <3>1 DEF CoreInv, DeviceTypes
  <2>2. {writer_open_lock', reader_open_lock'} \subseteq {0, 1}
    BY <1>2 DEF CoreInv, DeviceTypes, opens
  <2> QED  BY <1>1, <1>2, <2>1, <2>2 DEF CoreInv, DeviceTypes
<1>4. \A u \in Users : pc'[u] = "closed" /\ mode'[u] = "none"
  BY <1>1, <1>2 DEF CoreInv, PortInv
<1>5. PortInv'
  BY <1>4 DEF PortInv, HasPort, WritePlaces, ReadPlaces, WriterPlaces, ReaderPlaces
<1>6. CallInv'
  BY <1>1, <1>2, <1>4
  DEF CoreInv, CallInv, WritePlaces, ReadPlaces, WriterPlaces, ReaderPlaces
<1>7. QueueLength' = 0
  <2>1. CASE translate_init
    <3>1. At(ReaderPlaces)' = {}  BY <1>4 DEF At, ReaderPlaces
    <3>2. ReaderHolds' = At(ReaderPlaces)'  BY DEF ReaderHolds, At, ReaderPlaces
    <3>3. itemsInBuffer' = 0  BY <2>1 DEF translate_init
    <3> QED  BY <3>1, <3>2, <3>3, FS_EmptySet DEF QueueLength
  <2>2. CASE translate_cleanup  BY <2>2 DEF translate_cleanup, QueueLength
  <2> QED  BY <2>1, <2>2
<1>8. DistanceInv'
  <2>1. WriterAhead' = 0 /\ ReaderAhead' = 0  BY <1>4 DEF WriterAhead, ReaderAhead
  <2>2. Distance' = 0  BY <1>7, <2>1 DEF Distance
  <2> QED  BY <1>2, <2>2 DEF DistanceInv
<1> QED  BY <1>1, <1>3, <1>5, <1>6, <1>7, <1>8 DEF CoreInv

LEMMA OpenKeepsCore ==
  ASSUME CoreInv, NEW u \in Users,
         BeginOpen(u) \/ TakeLock(u) \/ Refuse(u) \/ translate_release(u)
  PROVE  /\ CoreInv' /\ QueueLength' = QueueLength
         /\ UNCHANGED <<minor, buffer, read_pos, write_pos, todo, left, got>>
         /\ \E at \in {"closed", "opening", "open"} :
              pc[u] \in {"closed", "opening", "open"} /\ pc' = [pc EXCEPT ![u] = at]
<1>1. RoomInv /\ CountTypes /\ PortInv  BY DEF CoreInv, RoomInv
<1>2. PICK at \in {"closed", "opening", "open"} :
        /\ pc[u] \in {"closed", "opening", "open"} /\ pc' = [pc EXCEPT ![u] = at]
        /\ UNCHANGED <<loaded, minor, devs, counts, locals>>
  BY DEF BeginOpen, TakeLock, Refuse, translate_release, Goto
<1>3. UNCHANGED <<loaded, itemsInBuffer, minor, buffer, read_pos, write_pos, todo, left,
                  got, index>>
  BY <1>2 DEF devs, counts, locals
<1>4. /\ pc[u] \notin WritePlaces /\ pc[u] \notin ReadPlaces /\ pc[u] \notin WriterPlaces
      /\ at \notin WritePlaces /\ at \notin ReadPlaces /\ pc[u] \notin ReaderPlaces
      /\ at \notin WriterPlaces /\ at \notin ReaderPlaces
      /\ pc[u] # "up items" /\ pc[u] # "up free" /\ at # "up items" /\ at # "up free"
  BY <1>2 DEF WritePlaces, ReadPlaces, WriterPlaces, ReaderPlaces
<1>5. RoomInv' /\ PortInv' /\ DeviceTypes'
  BY OpenKeepsRoom, PortsOpened DEF CoreInv
<1>6. QueueLength' = QueueLength  BY <1>1, <1>2, <1>3, <1>4, LengthMoves
<1>7. CallInv'
  <2>1. pc'[u] = at  BY <1>1, <1>2, OthersStay
  <2>2. CallInvOf(u)'  BY <1>3, <1>4, <2>1 DEF CallInvOf, CoreInv, CallInv
  <2> QED  BY <1>1, <1>2, <1>3, <2>2, CallsKept DEF CoreInv
<1>8. DistanceInv'
  <2>1. WriterAhead' = WriterAhead /\ ReaderAhead' = ReaderAhead
    BY <1>1, <1>2, <1>4, AheadMoves
  <2> QED  BY <1>3, <1>6, <2>1, DistanceKept DEF CoreInv
<1> QED  BY <1>2, <1>3, <1>5, <1>6, <1>7, <1>8 DEF CoreInv

\* A step of a call, from one place of the process with a file to another.
CallStep(u, at) ==
  /\ pc[u] \notin {"closed", "opening"} /\ at \notin {"closed", "opening"}
  /\ pc' = [pc EXCEPT ![u] = at]
  /\ UNCHANGED <<loaded, minor, opens, mode>>
  /\ at \in WritePlaces => Writes(mode[u])
  /\ at \in ReadPlaces => ReadsAlone(u)
  /\ \A v \in Users : v # u => /\ index'[v] = index[v] /\ todo'[v] = todo[v]
                               /\ left'[v] = left[v] /\ got'[v] = got[v]

LEMMA CallKeepsCore ==
  ASSUME CoreInv, RoomInv', NEW u \in Users, NEW at, CallStep(u, at),
         DeviceTypes', CallInvOf(u)', DistanceInv',
         UNCHANGED write_pos \/ pc[u] \in WritePlaces,
         UNCHANGED read_pos \/ pc[u] \in ReadPlaces
  PROVE  CoreInv'
<1>1. CountTypes /\ PortInv /\ CallInv  BY DEF CoreInv, RoomInv
<1>2. PortInv'  BY <1>1, PortsKept DEF CallStep
<1>3. CallInv'  BY <1>1, CallsKept DEF CallStep
<1> QED  BY <1>2, <1>3 DEF CoreInv

\* A step that neither moves a pointer nor adds or takes a character.
LengthStays(u, at) ==
  \/ /\ pc[u] \in ReaderPlaces <=> at \in ReaderPlaces
     /\ UNCHANGED itemsInBuffer
  \/ /\ pc[u] \notin ReaderPlaces /\ at \in ReaderPlaces
     /\ itemsInBuffer' = itemsInBuffer - 1
  \/ /\ pc[u] \in ReaderPlaces /\ at \notin ReaderPlaces
     /\ itemsInBuffer' = itemsInBuffer + 1

LEMMA IsLoaded ==
  ASSUME CoreInv, NEW u \in Users, pc[u] # "closed"
  PROVE  loaded
  BY AllClosed DEF CoreInv

LEMMA CallRests ==
  ASSUME CoreInv, RoomInv', NEW u \in Users, NEW at, CallStep(u, at),
         DeviceTypes', CallInvOf(u)', UNCHANGED <<read_pos, write_pos>>,
         {pc[u], at} \cap {"up items", "up free"} = {},
         LengthStays(u, at)
  PROVE  CoreInv' /\ QueueLength' = QueueLength
<1>1. CountTypes /\ PortInv /\ loaded /\ UNCHANGED loaded /\ pc' = [pc EXCEPT ![u] = at]
  BY IsLoaded DEF CoreInv, RoomInv, CallStep
<1>2. QueueLength' = QueueLength  BY <1>1, LengthMoves DEF LengthStays, CoreInv
<1>3. WriterAhead' = WriterAhead /\ ReaderAhead' = ReaderAhead
  BY <1>1, AheadMoves
<1>4. DistanceInv'  BY <1>2, <1>3, DistanceKept DEF CoreInv
<1> QED  BY <1>2, <1>4, CallKeepsCore

\* The locals of a call that returns.
LEMMA LeavesIsStep ==
  ASSUME CoreInv, NEW u \in Users, pc[u] \notin {"closed", "opening"}, Leaves(u)
  PROVE  /\ CallStep(u, "open") /\ CallInvOf(u)' /\ DeviceTypes'
         /\ UNCHANGED <<read_pos, write_pos, buffer>>
<1>1. /\ pc' = [pc EXCEPT ![u] = "open"] /\ todo' = [todo EXCEPT ![u] = <<>>]
      /\ left' = [left EXCEPT ![u] = 0] /\ got' = [got EXCEPT ![u] = <<>>]
      /\ index' = [index EXCEPT ![u] = 0]
      /\ UNCHANGED <<loaded, minor, devs, opens, mode>>
  BY DEF Leaves, Goto
<1>2. UNCHANGED <<read_pos, write_pos, buffer>>  BY <1>1 DEF devs
<1>3. UNCHANGED <<writer_open_lock, reader_open_lock>>  BY <1>1 DEF opens
<1>4. CountTypes /\ DeviceTypes  BY DEF CoreInv, RoomInv
<1>5. /\ "open" \notin WritePlaces /\ "open" \notin ReadPlaces
      /\ "open" \notin WriterPlaces /\ "open" \notin ReaderPlaces
  BY DEF WritePlaces, ReadPlaces, WriterPlaces, ReaderPlaces
<1>6. /\ pc'[u] = "open" /\ left'[u] = 0 /\ got'[u] = <<>>
      /\ \A v \in Users : v # u => /\ index'[v] = index[v] /\ todo'[v] = todo[v]
                                   /\ left'[v] = left[v] /\ got'[v] = got[v]
  BY <1>1, <1>4 DEF CountTypes, DeviceTypes
<1>7. CallStep(u, "open")  BY <1>1, <1>5, <1>6 DEF CallStep
<1>8. CallInvOf(u)'  BY <1>5, <1>6 DEF CallInvOf
<1>9. DeviceTypes'
  <2>1. <<>> \in Seq(Inputs) /\ <<>> \in Seq(Bytes) /\ 0 \in Cells
    BY SizeAssumption DEF Cells
  <2> QED  BY <1>1, <1>2, <1>3, <1>4, <2>1 DEF DeviceTypes
<1> QED  BY <1>2, <1>7, <1>8, <1>9

\* A call returns before or behind its loop, or because copy_to_user fails.
LEMMA ReturnKeepsCore ==
  ASSUME CoreInv, NEW u \in Users,
         Done(u) \/ WouldBlock(u) \/ Interrupted(u) \/ FailCopyTo(u)
  PROVE  CoreInv' /\ QueueLength' = QueueLength
<1>1. RoomInv'  BY CallHoldsWhatItHeld, CallReturnsCell DEF CoreInv
<1>2. /\ Leaves(u)
      /\ \/ pc[u] \in {"write", "read"} /\ UNCHANGED itemsInBuffer
         \/ pc[u] = "to user" /\ itemsInBuffer' = itemsInBuffer + 1
  BY DEF Done, WouldBlock, Interrupted, FailCopyTo, Loops, counts
<1>3. pc[u] \notin {"closed", "opening"}  BY <1>2
<1>4. /\ CallStep(u, "open") /\ CallInvOf(u)' /\ DeviceTypes'
      /\ UNCHANGED <<read_pos, write_pos>>
  BY <1>2, <1>3, LeavesIsStep
<1>5. LengthStays(u, "open")  BY <1>2 DEF LengthStays, ReaderPlaces
<1>6. {pc[u], "open"} \cap {"up items", "up free"} = {}  BY <1>2
<1> QED  BY <1>1, <1>4, <1>5, <1>6, CallRests

LEMMA BeginKeepsCore ==
  ASSUME CoreInv, NEW u \in Users, BeginWrite(u) \/ BeginRead(u), ~overlapped'
  PROVE  CoreInv' /\ QueueLength' = QueueLength
<1>1. RoomInv' /\ CountTypes /\ DeviceTypes /\ CallInv
  BY CallHoldsWhatItHeld DEF CoreInv, RoomInv
<1>2. PICK at \in {"write", "read"} :
        /\ pc[u] = "open" /\ pc' = [pc EXCEPT ![u] = at]
        /\ UNCHANGED <<loaded, minor, devs, opens, counts, mode, got>>
        /\ \/ /\ at = "write" /\ Writes(mode[u]) /\ UNCHANGED left
              /\ index' = [index EXCEPT ![u] = write_pos]
              /\ \E buf \in Buffers : todo' = [todo EXCEPT ![u] = buf]
           \/ /\ at = "read" /\ ReadsAlone(u) /\ UNCHANGED todo
              /\ index' = [index EXCEPT ![u] = read_pos]
              /\ \E count \in 0 .. MaxCount : left' = [left EXCEPT ![u] = count]
  BY DEF BeginWrite, BeginRead, Goto, Reading, ReadsAlone, ReadPlaces, ReaderPlaces
<1>3. UNCHANGED <<itemsInBuffer, buffer, read_pos, write_pos>>  BY <1>2 DEF counts, devs
<1>4. UNCHANGED <<writer_open_lock, reader_open_lock>>  BY <1>2 DEF opens
<1>5. DeviceTypes'
  <2>1. Buffers \subseteq Seq(Inputs)  BY SizeAssumption DEF Buffers
  <2>2. 0 .. MaxCount \subseteq Nat  BY SizeAssumption
  <2>3. /\ todo' \in [Users -> Seq(Inputs)] /\ left' \in [Users -> Nat]
        /\ index' \in [Users -> Cells]
    BY <1>1, <1>2, <2>1, <2>2 DEF DeviceTypes
  <2> QED  BY <1>1, <1>2, <1>3, <1>4, <2>3 DEF DeviceTypes
<1>6. /\ pc'[u] = at
      /\ \A v \in Users : v # u => /\ index'[v] = index[v] /\ todo'[v] = todo[v]
                                   /\ left'[v] = left[v] /\ got'[v] = got[v]
      /\ at = "write" => index'[u] = write_pos' /\ left'[u] = left[u]
      /\ at = "read" => index'[u] = read_pos'
  BY <1>1, <1>2, <1>3 DEF DeviceTypes, CountTypes
<1>7. /\ at \in WritePlaces <=> at = "write"
      /\ at \in ReadPlaces <=> at = "read"
      /\ at \notin WriterPlaces /\ at \notin ReaderPlaces
      /\ pc[u] \notin ReadPlaces /\ pc[u] \notin ReaderPlaces
  BY <1>2 DEF WritePlaces, ReadPlaces, WriterPlaces, ReaderPlaces
<1>8. CallStep(u, at)  BY <1>2, <1>6, <1>7 DEF CallStep
<1>9. CallInvOf(u)'
  <2>1. left[u] = 0 /\ got'[u] = <<>>  BY <1>1, <1>2, <1>7 DEF CallInv
  <2> QED  BY <1>6, <1>7, <2>1 DEF CallInvOf
<1>10. LengthStays(u, at)  BY <1>3, <1>7 DEF LengthStays
<1>11. {pc[u], at} \cap {"up items", "up free"} = {}  BY <1>2
<1> QED  BY <1>1, <1>3, <1>5, <1>8, <1>9, <1>10, <1>11, CallRests

\* A step of a call between two places within it that leaves its locals alone.
LEMMA WithinCall ==
  ASSUME CoreInv, NEW u \in Users, NEW at,
         \/ pc[u] \in WritePlaces /\ at \in WritePlaces
         \/ pc[u] \in ReadPlaces /\ at \in ReadPlaces,
         pc' = [pc EXCEPT ![u] = at],
         UNCHANGED <<loaded, minor, opens, mode>>,
         \A v \in Users : v # u => /\ index'[v] = index[v] /\ todo'[v] = todo[v]
                                   /\ left'[v] = left[v] /\ got'[v] = got[v]
  PROVE  CallStep(u, at) /\ pc'[u] = at
<1>1. \A x \in WritePlaces \union ReadPlaces : x \notin {"closed", "opening"}
  BY DEF WritePlaces, ReadPlaces, WriterPlaces, ReaderPlaces
<1>2. \A x \in WritePlaces : x \notin ReadPlaces
  BY DEF WritePlaces, ReadPlaces, WriterPlaces, ReaderPlaces
<1>3. /\ pc[u] \in WritePlaces => Writes(mode[u])
      /\ pc[u] \in ReadPlaces => ReadsAlone(u)
      /\ pc'[u] = at
  BY DEF CoreInv, RoomInv, CountTypes, PortInv, ReadsAlone
<1> QED  BY <1>1, <1>2, <1>3 DEF CallStep

LEMMA WriterKeepsCore ==
  ASSUME CoreInv, NEW u \in Users,
         DownFree(u) \/ CopyFromUser(u) \/ Encode(u)
  PROVE  CoreInv' /\ QueueLength' = QueueLength
<1>1. RoomInv' /\ CountTypes /\ DeviceTypes /\ CallInv
  BY CallHoldsWhatItHeld, CallTakesCell DEF CoreInv, RoomInv
<1>2. PICK at \in {"from user", "encode", "move write"} :
        /\ pc[u] \in {"write", "from user", "encode"} /\ pc' = [pc EXCEPT ![u] = at]
        /\ UNCHANGED <<loaded, minor, opens, mode, locals, itemsInBuffer>>
        /\ UNCHANGED <<read_pos, write_pos>>
        /\ pc[u] = "write" => todo[u] # <<>>
  BY DEF DownFree, CopyFromUser, Encode, Goto, devs, counts
<1>3. UNCHANGED <<todo, left, got, index>>  BY <1>2 DEF locals
<1>4. UNCHANGED <<writer_open_lock, reader_open_lock>>  BY <1>2 DEF opens
<1>5. /\ pc[u] \in WritePlaces /\ at \in WritePlaces /\ at \in WriterPlaces
      /\ pc[u] \notin ReaderPlaces /\ at \notin ReaderPlaces
      /\ pc[u] \notin ReadPlaces /\ at \notin ReadPlaces
      /\ pc[u] # "write" => pc[u] \in WriterPlaces
  BY <1>2 DEF WritePlaces, ReadPlaces, WriterPlaces, ReaderPlaces
<1>6. CallStep(u, at) /\ pc'[u] = at  BY <1>2, <1>3, <1>5, WithinCall
<1>7. buffer' \in [Cells -> Bytes]
  <2>1. CASE UNCHANGED buffer  BY <1>1, <2>1 DEF DeviceTypes
  <2>2. CASE CopyFromUser(u)
    <3>1. todo[u] # <<>> /\ todo[u] \in Seq(Inputs)
      BY <1>1, <1>5, <2>2 DEF CallInv, DeviceTypes, CopyFromUser
    <3>2. Head(todo[u]) \in Inputs  BY <3>1, HeadTailProperties
    <3>3. Head(todo[u]) \in Bytes  BY <3>2 DEF Bytes
    <3> QED  BY <1>1, <2>2, <3>3 DEF CopyFromUser, DeviceTypes
  <2>3. CASE Encode(u)
    <3>1. write_pos \in Cells /\ buffer \in [Cells -> Bytes]  BY <1>1 DEF DeviceTypes
    <3>2. encode(buffer[write_pos]) \in Bytes  BY <3>1, CodecTyped
    <3> QED  BY <2>3, <3>1, <3>2 DEF Encode
  <2> QED  BY <2>1, <2>2, <2>3 DEF DownFree, devs
<1>8. DeviceTypes'  BY <1>1, <1>2, <1>3, <1>4, <1>7 DEF DeviceTypes
<1>9. CallInvOf(u)'  BY <1>1, <1>2, <1>3, <1>5, <1>6 DEF CallInv, CallInvOf
<1>10. LengthStays(u, at)  BY <1>2, <1>5 DEF LengthStays
<1>11. {pc[u], at} \cap {"up items", "up free"} = {}  BY <1>2
<1> QED  BY <1>1, <1>2, <1>6, <1>8, <1>9, <1>10, <1>11, CallRests

LEMMA FailCopyFromKeepsCore ==
  ASSUME CoreInv, NEW u \in Users, FailCopyFrom(u)
  PROVE  CoreInv' /\ QueueLength' = QueueLength
<1>1. RoomInv' /\ CountTypes /\ DeviceTypes /\ CallInv
  BY CallReturnsCell DEF CoreInv, RoomInv
<1>2. /\ pc[u] = "from user" /\ pc' = [pc EXCEPT ![u] = "open"]
      /\ todo' = [todo EXCEPT ![u] = <<>>] /\ index' = [index EXCEPT ![u] = 0]
      /\ buffer' = [buffer EXCEPT ![write_pos] = 0]
      /\ UNCHANGED <<loaded, minor, opens, mode, left, got, itemsInBuffer>>
      /\ UNCHANGED <<read_pos, write_pos>>
  BY DEF FailCopyFrom, Goto
<1>3. UNCHANGED <<writer_open_lock, reader_open_lock>>  BY <1>2 DEF opens
<1>4. DeviceTypes'
  <2>1. <<>> \in Seq(Inputs) /\ 0 \in Cells /\ 0 \in Bytes
    BY SizeAssumption DEF Cells, Bytes
  <2> QED  BY <1>1, <1>2, <1>3, <2>1 DEF DeviceTypes
<1>5. /\ pc'[u] = "open"
      /\ \A v \in Users : v # u => /\ index'[v] = index[v] /\ todo'[v] = todo[v]
                                   /\ left'[v] = left[v] /\ got'[v] = got[v]
  BY <1>1, <1>2 DEF DeviceTypes, CountTypes
<1>6. /\ "open" \notin WritePlaces /\ "open" \notin ReadPlaces
      /\ "open" \notin WriterPlaces /\ "open" \notin ReaderPlaces
      /\ pc[u] \notin ReadPlaces /\ pc[u] \notin ReaderPlaces
  BY <1>2 DEF WritePlaces, ReadPlaces, WriterPlaces, ReaderPlaces
<1>7. CallStep(u, "open")  BY <1>2, <1>5, <1>6 DEF CallStep
<1>8. CallInvOf(u)'  BY <1>1, <1>2, <1>5, <1>6 DEF CallInv, CallInvOf
<1>9. LengthStays(u, "open")  BY <1>2, <1>6 DEF LengthStays
<1>10. {pc[u], "open"} \cap {"up items", "up free"} = {}  BY <1>2
<1> QED  BY <1>1, <1>2, <1>4, <1>7, <1>8, <1>9, <1>10, CallRests

LEMMA ReaderKeepsCore ==
  ASSUME CoreInv, NEW u \in Users,
         DownItems(u) \/ Decode(u) \/ CopyToUser(u)
  PROVE  CoreInv' /\ QueueLength' = QueueLength
<1>1. RoomInv' /\ CountTypes /\ DeviceTypes /\ CallInv
  BY CallHoldsWhatItHeld, CallTakesCell DEF CoreInv, RoomInv
<1>2. PICK at \in {"decode", "to user", "move read"} :
        /\ pc[u] \in {"read", "decode", "to user"} /\ pc' = [pc EXCEPT ![u] = at]
        /\ UNCHANGED <<loaded, minor, opens, mode, todo, left, index>>
        /\ UNCHANGED <<read_pos, write_pos>>
        /\ pc[u] = "read" => left[u] > 0 /\ itemsInBuffer' = itemsInBuffer - 1
        /\ pc[u] # "read" => UNCHANGED itemsInBuffer
        /\ UNCHANGED got \/ got' = [got EXCEPT ![u] = Append(@, buffer[read_pos])]
  BY DEF DownItems, Decode, CopyToUser, Goto, devs, counts, locals
<1>3. UNCHANGED <<writer_open_lock, reader_open_lock>>  BY <1>2 DEF opens
<1>4. read_pos \in Cells /\ buffer \in [Cells -> Bytes]  BY <1>1 DEF DeviceTypes
<1>5. /\ pc[u] \in ReadPlaces /\ at \in ReadPlaces /\ at \in ReaderPlaces
      /\ pc[u] \notin WritePlaces /\ at \notin WritePlaces /\ at \notin WriterPlaces
      /\ pc[u] # "read" <=> pc[u] \in ReaderPlaces
  BY <1>2 DEF WritePlaces, ReadPlaces, WriterPlaces, ReaderPlaces
<1>6. got' \in [Users -> Seq(Bytes)] /\ \A v \in Users : v # u => got'[v] = got[v]
  <2>1. got \in [Users -> Seq(Bytes)] /\ buffer[read_pos] \in Bytes
    BY <1>1, <1>4 DEF DeviceTypes
  <2>2. Append(got[u], buffer[read_pos]) \in Seq(Bytes)  BY <2>1, AppendProperties
  <2> QED  BY <1>2, <2>1, <2>2
<1>7. CallStep(u, at) /\ pc'[u] = at  BY <1>2, <1>5, <1>6, WithinCall
<1>8. buffer' \in [Cells -> Bytes]
  <2>1. CASE UNCHANGED buffer  BY <1>4, <2>1
  <2>2. CASE Decode(u)
    <3>1. decode(buffer[read_pos]) \in Bytes  BY <1>4, CodecTyped
    <3> QED  BY <1>4, <2>2, <3>1 DEF Decode
  <2> QED  BY <2>1, <2>2 DEF DownItems, CopyToUser, devs
<1>9. DeviceTypes'  BY <1>1, <1>2, <1>3, <1>6, <1>8 DEF DeviceTypes
<1>10. CallInvOf(u)'  BY <1>1, <1>2, <1>5, <1>7 DEF CallInv, CallInvOf
<1>11. LengthStays(u, at)  BY <1>2, <1>5 DEF LengthStays
<1>12. {pc[u], at} \cap {"up items", "up free"} = {}  BY <1>2
<1> QED  BY <1>1, <1>2, <1>7, <1>9, <1>10, <1>11, <1>12, CallRests

\* The pointers move one step ahead of the count, and the count follows.
LEMMA MoveWriteKeepsCore ==
  ASSUME CoreInv, NEW u \in Users, MoveWritePos(u)
  PROVE  CoreInv' /\ QueueLength' = QueueLength
<1>1. RoomInv' /\ RoomInv /\ CountTypes /\ DeviceTypes /\ CallInv /\ PortInv
  BY CallHoldsWhatItHeld DEF CoreInv, RoomInv
<1>2. /\ pc[u] = "move write" /\ pc' = [pc EXCEPT ![u] = "up items"]
      /\ write_pos' = NextPos(index[u]) /\ index' = [index EXCEPT ![u] = write_pos']
      /\ UNCHANGED <<loaded, minor, opens, mode, todo, left, got, itemsInBuffer>>
      /\ UNCHANGED <<read_pos, buffer>>
  BY DEF MoveWritePos, Goto, counts
<1>3. UNCHANGED <<writer_open_lock, reader_open_lock>>  BY <1>2 DEF opens
<1>4. /\ pc[u] \in WritePlaces /\ "up items" \in WritePlaces /\ "up items" \notin ReadPlaces
      /\ pc[u] \in WriterPlaces /\ pc[u] \notin ReadPlaces
      /\ pc[u] \notin ReaderPlaces /\ "up items" \notin ReaderPlaces
  BY <1>2 DEF WritePlaces, ReadPlaces, WriterPlaces, ReaderPlaces
<1>5. /\ index[u] = write_pos /\ read_pos \in Cells /\ write_pos \in Cells
      /\ write_pos' \in Cells
      /\ write_pos' = write_pos + 1 \/ write_pos' = write_pos + 1 - translate_bufsize
  <2>1. index[u] = write_pos /\ read_pos \in Cells /\ write_pos \in Cells
    BY <1>1, <1>4 DEF CallInv, DeviceTypes
  <2> QED  BY <1>2, <2>1, NextPosWraps
<1>6. DeviceTypes'  BY <1>1, <1>2, <1>3, <1>5 DEF DeviceTypes
<1>7. /\ index'[u] = write_pos'
      /\ \A v \in Users : v # u => index'[v] = index[v]
  BY <1>1, <1>2 DEF DeviceTypes
<1>8. CallStep(u, "up items") /\ pc'[u] = "up items"
  BY <1>2, <1>4, <1>7, WithinCall
<1>9. CallInvOf(u)'  BY <1>1, <1>2, <1>4, <1>7, <1>8 DEF CallInv, CallInvOf
<1>10. QueueLength' = QueueLength  BY <1>1, <1>2, <1>4, LengthMoves
<1>11. DistanceInv'
  <2>1. /\ WriterAhead = 0 /\ WriterAhead' = 1 /\ ReaderAhead' = ReaderAhead
        /\ ReaderAhead \in {0, 1}
    BY <1>1, <1>2, <1>4, AheadMoves, AheadIs
  <2>2. QueueLength \in 0 .. translate_bufsize /\ QueueLength < translate_bufsize
    BY <1>1, <1>4, LengthFacts
  <2> DEFINE d == Distance
             e == Distance'
             w == write_pos'
  <2>3. /\ e = d + 1 /\ d \in Int /\ d < translate_bufsize
        /\ write_pos = read_pos + d \/ write_pos = read_pos + d - translate_bufsize
    <3> DEFINE n == QueueLength
               m == QueueLength'
    <3>1. d = n + 0 - ReaderAhead /\ e = m + 1 - ReaderAhead
      BY <2>1 DEF Distance
    <3>2. n \in Int /\ m = n /\ n < translate_bufsize /\ ReaderAhead \in {0, 1}
          /\ translate_bufsize \in Int
      BY <1>10, <2>1, <2>2, SizeAssumption
    <3>3. write_pos = read_pos + d \/ write_pos = read_pos + d - translate_bufsize
      BY DEF CoreInv, DistanceInv
    <3> HIDE DEF n, m, d, e
    <3> QED  BY <3>1, <3>2, <3>3
  <2>4. w = write_pos + 1 \/ w = write_pos + 1 - translate_bufsize  BY <1>5
  <2>5. w \in Cells  BY <1>5
  <2> HIDE DEF d, e, w
  <2>6. w = read_pos + e \/ w = read_pos + e - translate_bufsize
    BY <1>5, <2>3, <2>4, <2>5, SizeAssumption DEF Cells
  <2> QED  BY <1>2, <2>6 DEF DistanceInv, e, w
<1> QED  BY <1>1, <1>2, <1>4, <1>6, <1>8, <1>9, <1>10, <1>11, CallKeepsCore

LEMMA MoveReadKeepsCore ==
  ASSUME CoreInv, NEW u \in Users, MoveReadPos(u)
  PROVE  CoreInv' /\ QueueLength' = QueueLength
<1>1. RoomInv' /\ RoomInv /\ CountTypes /\ DeviceTypes /\ CallInv /\ PortInv
  BY CallHoldsWhatItHeld DEF CoreInv, RoomInv
<1>2. /\ pc[u] = "move read" /\ pc' = [pc EXCEPT ![u] = "up free"]
      /\ read_pos' = NextPos(index[u]) /\ index' = [index EXCEPT ![u] = read_pos']
      /\ UNCHANGED <<loaded, minor, opens, mode, todo, left, got, itemsInBuffer>>
      /\ UNCHANGED <<write_pos, buffer>>
  BY DEF MoveReadPos, Goto, counts
<1>3. UNCHANGED <<writer_open_lock, reader_open_lock>>  BY <1>2 DEF opens
<1>4. /\ pc[u] \in ReadPlaces /\ "up free" \in ReadPlaces /\ "up free" \notin WritePlaces
      /\ pc[u] \in ReaderPlaces /\ pc[u] \notin WritePlaces
      /\ "up free" \in ReaderPlaces /\ "up free" \notin WriterPlaces
  BY <1>2 DEF WritePlaces, ReadPlaces, WriterPlaces, ReaderPlaces
<1>5. /\ index[u] = read_pos /\ read_pos \in Cells /\ write_pos \in Cells
      /\ read_pos' \in Cells
      /\ read_pos' = read_pos + 1 \/ read_pos' = read_pos + 1 - translate_bufsize
  <2>1. index[u] = read_pos /\ read_pos \in Cells /\ write_pos \in Cells
    BY <1>1, <1>4 DEF CallInv, DeviceTypes
  <2> QED  BY <1>2, <2>1, NextPosWraps
<1>6. DeviceTypes'  BY <1>1, <1>2, <1>3, <1>5 DEF DeviceTypes
<1>7. /\ index'[u] = read_pos'
      /\ \A v \in Users : v # u => index'[v] = index[v]
  BY <1>1, <1>2 DEF DeviceTypes
<1>8. CallStep(u, "up free") /\ pc'[u] = "up free"
  BY <1>2, <1>4, <1>7, WithinCall
<1>9. CallInvOf(u)'  BY <1>1, <1>2, <1>4, <1>7, <1>8 DEF CallInv, CallInvOf
<1>10. QueueLength' = QueueLength  BY <1>1, <1>2, <1>4, LengthMoves
<1>11. DistanceInv'
  <2>1. /\ ReaderAhead = 0 /\ ReaderAhead' = 1 /\ WriterAhead' = WriterAhead
        /\ WriterAhead \in {0, 1}
    BY <1>1, <1>2, <1>4, AheadMoves, AheadIs
  <2>2. QueueLength \in 0 .. translate_bufsize /\ QueueLength > 0
    BY <1>1, <1>4, LengthFacts
  <2> DEFINE d == Distance
             e == Distance'
             r == read_pos'
  <2>3. /\ e = d - 1 /\ d \in Int /\ d > 0
        /\ write_pos = read_pos + d \/ write_pos = read_pos + d - translate_bufsize
    <3> DEFINE n == QueueLength
               m == QueueLength'
    <3>1. d = n + WriterAhead - 0 /\ e = m + WriterAhead - 1
      BY <2>1 DEF Distance
    <3>2. n \in Int /\ m = n /\ n > 0 /\ WriterAhead \in {0, 1}
      BY <1>10, <2>1, <2>2, SizeAssumption
    <3>3. write_pos = read_pos + d \/ write_pos = read_pos + d - translate_bufsize
      BY DEF CoreInv, DistanceInv
    <3> HIDE DEF n, m, d, e
    <3> QED  BY <3>1, <3>2, <3>3
  <2>4. r = read_pos + 1 \/ r = read_pos + 1 - translate_bufsize  BY <1>5
  <2>5. r \in Cells  BY <1>5
  <2> HIDE DEF d, e, r
  <2>6. write_pos = r + e \/ write_pos = r + e - translate_bufsize
    BY <1>5, <2>3, <2>4, <2>5, SizeAssumption DEF Cells
  <2> QED  BY <1>2, <2>6 DEF DistanceInv, e, r
<1> QED  BY <1>1, <1>2, <1>4, <1>6, <1>8, <1>9, <1>10, <1>11, CallKeepsCore

LEMMA UpItemsKeepsCore ==
  ASSUME CoreInv, NEW u \in Users, UpItems(u)
  PROVE  CoreInv' /\ QueueLength' = QueueLength + 1
<1>1. RoomInv' /\ RoomInv /\ CountTypes /\ DeviceTypes /\ CallInv /\ PortInv
  BY CallReturnsCell DEF CoreInv, RoomInv
<1>2. /\ pc[u] = "up items" /\ pc' = [pc EXCEPT ![u] = "write"]
      /\ todo' = [todo EXCEPT ![u] = Tail(@)] /\ itemsInBuffer' = itemsInBuffer + 1
      /\ UNCHANGED <<loaded, minor, devs, opens, mode, left, got, index>>
  BY DEF UpItems, Goto
<1>3. UNCHANGED <<writer_open_lock, reader_open_lock, buffer, read_pos, write_pos>>
  BY <1>2 DEF opens, devs
<1>4. /\ pc[u] \in WritePlaces /\ "write" \in WritePlaces /\ "write" \notin ReadPlaces
      /\ pc[u] \in WriterPlaces /\ pc[u] \notin ReadPlaces
      /\ pc[u] \notin ReaderPlaces /\ "write" \notin ReaderPlaces
      /\ "write" \notin WriterPlaces
  BY <1>2 DEF WritePlaces, ReadPlaces, WriterPlaces, ReaderPlaces
<1>5. /\ todo' \in [Users -> Seq(Inputs)]
      /\ \A v \in Users : v # u => todo'[v] = todo[v]
  <2>1. todo \in [Users -> Seq(Inputs)] /\ todo[u] # <<>>
    BY <1>1, <1>4 DEF DeviceTypes, CallInv
  <2>2. Tail(todo[u]) \in Seq(Inputs)  BY <2>1, HeadTailProperties
  <2> QED  BY <1>2, <2>1, <2>2
<1>6. DeviceTypes'  BY <1>1, <1>2, <1>3, <1>5 DEF DeviceTypes
<1>7. CallStep(u, "write") /\ pc'[u] = "write"
  BY <1>2, <1>4, <1>5, WithinCall
<1>8. CallInvOf(u)'  BY <1>1, <1>2, <1>3, <1>4, <1>7 DEF CallInv, CallInvOf
<1>9. QueueLength' = QueueLength + 1
  <2>1. loaded  BY <1>2, IsLoaded
  <2> QED  BY <1>1, <1>2, <1>4, <2>1, LengthMoves
<1>10. DistanceInv'
  <2>1. /\ WriterAhead = 1 /\ WriterAhead' = 0 /\ ReaderAhead' = ReaderAhead
        /\ ReaderAhead \in {0, 1}
    <3>1. pc[u] = "up free" <=> "write" = "up free"  BY <1>2
    <3>2. ReaderAhead' = ReaderAhead  BY <1>1, <1>2, <3>1, AheadMoves
    <3>3. /\ WriterAhead = IF pc[u] = "up items" THEN 1 ELSE 0
          /\ WriterAhead' = IF "write" = "up items" THEN 1 ELSE 0
      BY <1>1, <1>2, <1>4, AheadMoves
    <3>4. WriterAhead = 1 /\ WriterAhead' = 0  BY <1>2, <3>3
    <3> QED  BY <3>2, <3>4, AheadIs
  <2> DEFINE n == QueueLength
             m == QueueLength'
  <2>2. n \in Int /\ m = n + 1  BY <1>1, <1>9, LengthFacts, SizeAssumption
  <2>3. Distance = n + 1 - ReaderAhead /\ Distance' = m + 0 - ReaderAhead
    BY <2>1 DEF Distance
  <2> HIDE DEF n, m
  <2>4. Distance' = Distance  BY <2>1, <2>2, <2>3
  <2> QED  BY <1>3, <2>4 DEF DistanceInv, CoreInv
<1> QED  BY <1>1, <1>3, <1>6, <1>7, <1>8, <1>9, <1>10, CallKeepsCore

LEMMA UpFreeKeepsCore ==
  ASSUME CoreInv, NEW u \in Users, UpFree(u)
  PROVE  CoreInv' /\ QueueLength' = QueueLength - 1
<1>1. RoomInv' /\ RoomInv /\ CountTypes /\ DeviceTypes /\ CallInv /\ PortInv
  BY CallReturnsCell DEF CoreInv, RoomInv
<1>2. /\ pc[u] = "up free" /\ pc' = [pc EXCEPT ![u] = "read"]
      /\ left' = [left EXCEPT ![u] = @ - 1]
      /\ UNCHANGED <<loaded, minor, devs, opens, mode, todo, got, index, itemsInBuffer>>
  BY DEF UpFree, Goto
<1>3. UNCHANGED <<writer_open_lock, reader_open_lock, buffer, read_pos, write_pos>>
  BY <1>2 DEF opens, devs
<1>4. /\ pc[u] \in ReadPlaces /\ "read" \in ReadPlaces /\ "read" \notin WritePlaces
      /\ pc[u] \in ReaderPlaces /\ "read" \notin ReaderPlaces
      /\ "read" \notin WriterPlaces
  BY <1>2 DEF WritePlaces, ReadPlaces, WriterPlaces, ReaderPlaces
<1>5. /\ left' \in [Users -> Nat]
      /\ \A v \in Users : v # u => left'[v] = left[v]
  <2>1. left \in [Users -> Nat] /\ left[u] > 0
    BY <1>1, <1>4 DEF DeviceTypes, CallInv
  <2>2. left[u] - 1 \in Nat  BY <2>1
  <2> QED  BY <1>2, <2>1, <2>2
<1>6. DeviceTypes'  BY <1>1, <1>2, <1>3, <1>5 DEF DeviceTypes
<1>7. CallStep(u, "read") /\ pc'[u] = "read"
  BY <1>2, <1>4, <1>5, WithinCall
<1>8. CallInvOf(u)'  BY <1>1, <1>2, <1>3, <1>4, <1>7 DEF CallInv, CallInvOf
<1>9. QueueLength' = QueueLength - 1
  <2>1. loaded  BY <1>2, IsLoaded
  <2> QED  BY <1>1, <1>2, <1>4, <2>1, LengthMoves
<1>10. DistanceInv'
  <2>1. /\ ReaderAhead = 1 /\ ReaderAhead' = 0 /\ WriterAhead' = WriterAhead
        /\ WriterAhead \in {0, 1}
    BY <1>1, <1>2, <1>4, AheadMoves, AheadIs
  <2> DEFINE n == QueueLength
             m == QueueLength'
  <2>2. n \in Int /\ m = n - 1  BY <1>1, <1>9, LengthFacts, SizeAssumption
  <2>3. Distance = n + WriterAhead - 1 /\ Distance' = m + WriterAhead - 0
    BY <2>1 DEF Distance
  <2> HIDE DEF n, m
  <2>4. Distance' = Distance  BY <2>1, <2>2, <2>3
  <2> QED  BY <1>3, <2>4 DEF DistanceInv, CoreInv
<1> QED  BY <1>1, <1>3, <1>6, <1>7, <1>8, <1>9, <1>10, CallKeepsCore

LEMMA CoreStep ==
  ASSUME CoreInv, [Next]_vars, ~overlapped'
  PROVE  CoreInv'
<1>1. CASE translate_init \/ translate_cleanup  BY <1>1, LoadKeepsCore
<1>2. ASSUME NEW u \in Users,
             BeginOpen(u) \/ TakeLock(u) \/ Refuse(u) \/ translate_release(u)
      PROVE  CoreInv'
  BY <1>2, OpenKeepsCore
<1>3. ASSUME NEW u \in Users,
             BeginWrite(u) \/ BeginRead(u) \/ Interrupted(u) \/ Proceed(u)
      PROVE  CoreInv'
  <2>1. CASE BeginWrite(u) \/ BeginRead(u)  BY <2>1, BeginKeepsCore
  <2>2. CASE Interrupted(u) \/ Done(u) \/ WouldBlock(u) \/ FailCopyTo(u)
    BY <2>2, ReturnKeepsCore
  <2>3. CASE DownFree(u) \/ CopyFromUser(u) \/ Encode(u)  BY <2>3, WriterKeepsCore
  <2>4. CASE DownItems(u) \/ Decode(u) \/ CopyToUser(u)  BY <2>4, ReaderKeepsCore
  <2>5. CASE FailCopyFrom(u)  BY <2>5, FailCopyFromKeepsCore
  <2>6. CASE MoveWritePos(u)  BY <2>6, MoveWriteKeepsCore
  <2>7. CASE MoveReadPos(u)  BY <2>7, MoveReadKeepsCore
  <2>8. CASE UpItems(u)  BY <2>8, UpItemsKeepsCore
  <2>9. CASE UpFree(u)  BY <2>9, UpFreeKeepsCore
  <2> QED
    BY <1>3, <2>1, <2>2, <2>3, <2>4, <2>5, <2>6, <2>7, <2>8, <2>9
    DEF Proceed, Write, Read
<1>4. CASE UNCHANGED vars
  <2>1. /\ UNCHANGED <<loaded, usage, minor, buffer, read_pos, write_pos, mode, pc>>
        /\ UNCHANGED <<writer_open_lock, reader_open_lock, itemsInBuffer>>
        /\ UNCHANGED <<todo, left, got, index>>
    BY <1>4 DEF vars, devs, opens, counts, locals
  <2>2. RoomInv'  BY <1>4, RoomStep DEF CoreInv
  <2>3. DeviceTypes'  BY <2>1 DEF CoreInv, DeviceTypes
  <2>4. PortInv'  BY <2>1 DEF CoreInv, PortInv, HasPort
  <2>5. CallInv'  BY <2>1 DEF CoreInv, CallInv
  <2>6. DistanceInv'
    <3>1. QueueLength' = QueueLength  BY <2>1 DEF QueueLength, ReaderHolds
    <3>2. WriterAhead' = WriterAhead /\ ReaderAhead' = ReaderAhead
      BY <2>1 DEF WriterAhead, ReaderAhead
    <3> QED  BY <2>1, <3>1, <3>2, DistanceKept DEF CoreInv
  <2> QED  BY <2>2, <2>3, <2>4, <2>5, <2>6 DEF CoreInv
<1> QED  BY <1>1, <1>2, <1>3, <1>4 DEF Next

-----------------------------------------------------------------------------
(* The views of the refinement *)

\* A character as the next reads will return it.
LEMMA QueueIs ==
  /\ DOMAIN QueueView = 1 .. QueueLength
  /\ \A i \in 1 .. QueueLength :
       QueueView[i] = IF minor = 1 /\ ~(i = 1 /\ FirstIsDecoded)
                        THEN decode(buffer[Cell(i)])
                        ELSE buffer[Cell(i)]
  BY DEF QueueView, Cell

LEMMA QueueTyped ==
  ASSUME CoreInv
  PROVE  QueueView \in Seq(Bytes) /\ Len(QueueView) = QueueLength
<1> DEFINE n == QueueLength
<1>1. n \in Nat /\ n <= translate_bufsize /\ translate_bufsize \in Nat
  BY LengthFacts, SizeAssumption DEF CoreInv
<1>2. \A i \in 1 .. n : QueueView[i] \in Bytes
  <2> TAKE i \in 1 .. n
  <2>1. i \in 1 .. translate_bufsize
    <3> HIDE DEF n
    <3> QED  BY <1>1
  <2>2. buffer[Cell(i)] \in Bytes  BY <2>1, CellsInRow DEF CoreInv, DeviceTypes
  <2> QED  BY <2>2, CodecTyped, QueueIs
<1>3. QueueView = [i \in 1 .. n |-> QueueView[i]]  BY DEF QueueView
<1> HIDE DEF n
<1>4. QueueView \in Seq(Bytes) /\ Len(QueueView) = n  BY <1>1, <1>2, <1>3
<1> QED  BY <1>4 DEF n

LEMMA QueueBecomes ==
  ASSUME NEW s \in Seq(Bytes), QueueLength' = Len(s),
         \A i \in 1 .. QueueLength' : QueueView'[i] = s[i]
  PROVE  QueueView' = s
<1>1. QueueView' = [i \in 1 .. QueueLength' |-> QueueView'[i]]  BY DEF QueueView
<1> HIDE DEF QueueView
<1>2. Len(s) \in Nat /\ \A i \in 1 .. QueueLength' : QueueView'[i] \in Bytes  OBVIOUS
<1>3. QueueView' \in Seq(Bytes) /\ Len(QueueView') = Len(s)  BY <1>1, <1>2
<1> QED  BY <1>3, SeqEqual

\* The views change where the process does that makes the step.
CallOf(at) == IF at \in WritePlaces THEN "write"
              ELSE IF at \in ReadPlaces THEN "read" ELSE "none"

GotOf(at, s) == IF at \in {"move read", "up free"} THEN SubSeq(s, 1, Len(s) - 1) ELSE s

LEMMA CallOfPlaces ==
  /\ \A at \in WritePlaces : CallOf(at) = "write" /\ at \notin ReadPlaces
  /\ \A at \in ReadPlaces : CallOf(at) = "read" /\ at \notin WritePlaces
  /\ CallOf("open") = "none" /\ CallOf("opening") = "none" /\ CallOf("closed") = "none"
  BY DEF CallOf, WritePlaces, ReadPlaces, WriterPlaces, ReaderPlaces

LEMMA CallViewIs ==
  /\ CallView = [v \in Users |-> CallOf(pc[v])]
  /\ GotView = [v \in Users |-> GotOf(pc[v], got[v])]
<1>1. \A v \in Users : (Writing(v) <=> pc[v] \in WritePlaces)
                       /\ (Reading(v) <=> pc[v] \in ReadPlaces)
  BY DEF Writing, Reading, WritePlaces, ReadPlaces, WriterPlaces, ReaderPlaces
<1> QED  BY <1>1 DEF CallView, CallOf, GotView, GotOf

LEMMA ViewsMove ==
  ASSUME CountTypes, NEW u \in Users, NEW at, pc' = [pc EXCEPT ![u] = at],
         \A v \in Users : v # u => got'[v] = got[v]
  PROVE  /\ CallView' = [CallView EXCEPT ![u] = CallOf(at)]
         /\ GotView' = [GotView EXCEPT ![u] = GotOf(at, got'[u])]
         /\ CallView[u] = CallOf(pc[u]) /\ GotView[u] = GotOf(pc[u], got[u])
         /\ CallOf(at) = CallOf(pc[u]) => CallView' = CallView
         /\ GotOf(at, got'[u]) = GotOf(pc[u], got[u]) => GotView' = GotView
<1>1. DOMAIN pc = Users /\ pc'[u] = at /\ \A v \in Users : v # u => pc'[v] = pc[v]
  BY DEF CountTypes
<1>2. /\ CallView = [v \in Users |-> CallOf(pc[v])]
      /\ CallView' = [v \in Users |-> CallOf(pc'[v])]
      /\ GotView = [v \in Users |-> GotOf(pc[v], got[v])]
      /\ GotView' = [v \in Users |-> GotOf(pc'[v], got'[v])]
  <2>1. (/\ CallView = [v \in Users |-> CallOf(pc[v])]
         /\ GotView = [v \in Users |-> GotOf(pc[v], got[v])])'
    BY CallViewIs, PTL
  <2> QED  BY <2>1, CallViewIs DEF CallOf, GotOf
<1>4. /\ CallOf(at) = CallOf(pc[u]) => CallView' = CallView
      /\ GotOf(at, got'[u]) = GotOf(pc[u], got[u]) => GotView' = GotView
  BY <1>1, <1>2
<1>5. CallView' = [CallView EXCEPT ![u] = CallOf(at)]  BY <1>1, <1>2
<1>6. GotView' = [GotView EXCEPT ![u] = GotOf(at, got'[u])]  BY <1>1, <1>2
<1> QED  BY <1>2, <1>4, <1>5, <1>6

LEMMA FlagsMove ==
  ASSUME CoreInv, NEW u \in Users, NEW at, pc' = [pc EXCEPT ![u] = at]
  PROVE  /\ (pc[u] \in TakePlaces <=> at \in TakePlaces) =>
              (FirstIsDecoded' <=> FirstIsDecoded)
         /\ (pc[u] = "up free" <=> at = "up free") => (FirstIsPassed' <=> FirstIsPassed)
         /\ pc[u] \in ReadPlaces =>
              /\ FirstIsDecoded <=> pc[u] \in TakePlaces
              /\ FirstIsPassed <=> pc[u] = "up free"
              /\ FirstIsDecoded' <=> at \in TakePlaces
              /\ FirstIsPassed' <=> at = "up free"
         /\ pc[u] \in WritePlaces \ {"up items"} => WriterAhead = 0
<1>1. DOMAIN pc = Users /\ pc'[u] = at /\ \A v \in Users : v # u => pc'[v] = pc[v]
  BY DEF CoreInv, RoomInv, CountTypes
<1>2. \A v \in Users : /\ pc[u] \in WritePlaces /\ pc[v] \in WritePlaces => u = v
                       /\ pc[u] \in ReadPlaces /\ pc[v] \in ReadPlaces => u = v
  BY OneCaller DEF CoreInv
<1>3. /\ TakePlaces \subseteq ReadPlaces /\ "up free" \in ReadPlaces
      /\ "up items" \in WritePlaces
  BY DEF TakePlaces, ReadPlaces, WritePlaces, ReaderPlaces, WriterPlaces
<1>4. (FirstIsDecoded <=> \E v \in Users : pc[v] \in TakePlaces)
      /\ (FirstIsDecoded' <=> \E v \in Users : pc'[v] \in TakePlaces)
  BY DEF FirstIsDecoded, TakePlaces
<1>5. (FirstIsPassed <=> \E v \in Users : pc[v] = "up free")
      /\ (FirstIsPassed' <=> \E v \in Users : pc'[v] = "up free")
  BY DEF FirstIsPassed
<1>6. (pc[u] \in TakePlaces <=> at \in TakePlaces) => (FirstIsDecoded' <=> FirstIsDecoded)
  BY <1>1, <1>4
<1>7. (pc[u] = "up free" <=> at = "up free") => (FirstIsPassed' <=> FirstIsPassed)
  BY <1>1, <1>5
<1>8. ASSUME pc[u] \in ReadPlaces
      PROVE  /\ FirstIsDecoded <=> pc[u] \in TakePlaces
             /\ FirstIsPassed <=> pc[u] = "up free"
             /\ FirstIsDecoded' <=> at \in TakePlaces
             /\ FirstIsPassed' <=> at = "up free"
  <2>1. FirstIsDecoded <=> pc[u] \in TakePlaces  BY <1>2, <1>3, <1>4, <1>8
  <2>2. FirstIsPassed <=> pc[u] = "up free"  BY <1>2, <1>3, <1>5, <1>8
  <2>3. FirstIsDecoded' <=> at \in TakePlaces  BY <1>1, <1>2, <1>3, <1>4, <1>8
  <2>4. FirstIsPassed' <=> at = "up free"  BY <1>1, <1>2, <1>3, <1>5, <1>8
  <2> QED  BY <2>1, <2>2, <2>3, <2>4
<1>9. pc[u] \in WritePlaces \ {"up items"} => WriterAhead = 0
  BY <1>2, <1>3 DEF WriterAhead
<1> QED  BY <1>6, <1>7, <1>8, <1>9

LEMMA FirstPosStays ==
  ASSUME UNCHANGED read_pos, FirstIsPassed' <=> FirstIsPassed
  PROVE  FirstPos' = FirstPos /\ \A i : Cell(i)' = Cell(i)
<1>1. FirstPos' = FirstPos  BY DEF FirstPos
<1> QED  BY <1>1 DEF Cell

LEMMA QueueStays ==
  ASSUME UNCHANGED <<minor, FirstPos>>, QueueLength' = QueueLength,
         FirstIsDecoded' <=> FirstIsDecoded,
         \A i \in 1 .. QueueLength : buffer'[Cell(i)] = buffer[Cell(i)]
  PROVE  QueueView' = QueueView
<1>1. \A i \in 1 .. QueueLength :
        buffer'[(FirstPos' + i - 1) % translate_bufsize] =
          buffer[(FirstPos + i - 1) % translate_bufsize]
  BY DEF Cell
<1>2. /\ FirstIsDecoded' <=> FirstIsDecoded
      /\ minor' = minor /\ QueueLength' = QueueLength
  OBVIOUS
<1> HIDE DEF FirstIsDecoded, QueueLength
<1> QED  BY <1>1, <1>2 DEF QueueView

\* Where the device has nothing of the process that is not yet, or no more, a
\* character of the queue.
Between == {"closed", "opening", "open", "write", "from user", "read", "decode"}

\* A step that leaves the device alone.
LEMMA DeviceRests ==
  ASSUME QueueInv, NEW u \in Users, NEW at \in Between, pc[u] \in Between,
         pc' = [pc EXCEPT ![u] = at], UNCHANGED <<minor, buffer, read_pos, write_pos>>,
         QueueLength' = QueueLength,
         \A v \in Users : v # u => todo'[v] = todo[v] /\ got'[v] = got[v]
  PROVE  /\ QueueView' = QueueView /\ minor' = minor /\ StoredInv' /\ GotInv'
         /\ CallView[u] = CallOf(pc[u])
         /\ CallView' = [CallView EXCEPT ![u] = CallOf(at)]
         /\ CallOf(at) = CallOf(pc[u]) => CallView' = CallView
         /\ GotView' = [GotView EXCEPT ![u] = got'[u]]
         /\ got'[u] = got[u] => GotView' = GotView
<1>1. CoreInv /\ CountTypes  BY DEF QueueInv, CoreInv, RoomInv
<1>2. /\ pc[u] \notin TakePlaces /\ at \notin TakePlaces
      /\ pc[u] # "up free" /\ at # "up free"
  BY DEF Between, TakePlaces
<1>3. (FirstIsDecoded' <=> FirstIsDecoded) /\ (FirstIsPassed' <=> FirstIsPassed)
  BY <1>1, <1>2, FlagsMove
<1>4. FirstPos' = FirstPos /\ \A i : Cell(i)' = Cell(i)  BY <1>3, FirstPosStays
<1>5. QueueView' = QueueView  BY <1>3, <1>4, QueueStays
<1>6. pc'[u] = at /\ \A v \in Users : v # u => pc'[v] = pc[v]  BY <1>1 DEF CountTypes
<1>8. StoredInv'
  <2>1. \A v \in Users : pc'[v] \in {"encode", "move write", "up items"} =>
          v # u /\ pc'[v] = pc[v] /\ todo'[v] = todo[v]
    BY <1>6 DEF Between
  <2>2. Cell(QueueLength + 1)' = Cell(QueueLength + 1)  BY <1>4 DEF Cell
  <2> QED  BY <2>1, <2>2 DEF StoredInv, QueueInv, Stored
<1>9. GotInv'
  <2>1. \A v \in Users : pc'[v] \in {"move read", "up free"} =>
          v # u /\ pc'[v] = pc[v] /\ got'[v] = got[v]
    BY <1>6 DEF Between
  <2> QED  BY <1>4, <2>1 DEF GotInv, QueueInv
<1>10. GotOf(at, got'[u]) = got'[u] /\ GotOf(pc[u], got[u]) = got[u]
  BY DEF GotOf, Between
<1>11. \A v \in Users : v # u => got'[v] = got[v]  OBVIOUS
<1>12. /\ CallView' = [CallView EXCEPT ![u] = CallOf(at)]
       /\ GotView' = [GotView EXCEPT ![u] = GotOf(at, got'[u])]
       /\ CallView[u] = CallOf(pc[u])
       /\ CallOf(at) = CallOf(pc[u]) => CallView' = CallView
       /\ GotOf(at, got'[u]) = GotOf(pc[u], got[u]) => GotView' = GotView
  BY <1>1, <1>11, ViewsMove
<1> QED  BY <1>5, <1>8, <1>9, <1>10, <1>12

-----------------------------------------------------------------------------
(* Each action is a step of the queue, or leaves it alone *)

LEMMA NoCallNoDebt ==
  ASSUME \A u \in Users : pc[u] = "closed"
  PROVE  StoredInv /\ GotInv
  BY DEF StoredInv, GotInv

LEMMA EmptyQueue == QueueLength = 0 => QueueView = <<>>
<1>1. QueueView = [i \in 1 .. QueueLength |-> QueueView[i]]  BY DEF QueueView
<1> HIDE DEF QueueView
<1> QED  BY <1>1

LEMMA LoadAsFifo ==
  ASSUME QueueInv, translate_init \/ translate_cleanup
  PROVE  StoredInv' /\ GotInv' /\ Reload
<1>1. QueueLength' = 0 /\ \A u \in Users : pc[u] = "closed"
  BY LoadKeepsCore DEF QueueInv
<1>2. UNCHANGED <<pc, minor>> /\ loaded' # loaded
  BY DEF translate_init, translate_cleanup
<1>3. CallView' = CallView  BY <1>2 DEF CallView, Writing, Reading
<1>4. QueueView' = <<>>
  <2>1. (QueueLength = 0 => QueueView = <<>>)'  BY EmptyQueue, PTL
  <2> QED  BY <1>1, <2>1
<1>5. \A u \in Users : pc'[u] = "closed"  BY <1>1, <1>2
<1>6. StoredInv' /\ GotInv'  BY <1>5 DEF StoredInv, GotInv
<1> QED  BY <1>2, <1>3, <1>4, <1>6 DEF Reload

LEMMA OpenCloseAsFifo ==
  ASSUME QueueInv, NEW u \in Users,
         BeginOpen(u) \/ TakeLock(u) \/ Refuse(u) \/ translate_release(u)
  PROVE  StoredInv' /\ GotInv' /\ UNCHANGED Fifo!fifovars
<1>1. /\ QueueLength' = QueueLength
      /\ UNCHANGED <<minor, buffer, read_pos, write_pos, todo, left, got>>
      /\ \E at \in {"closed", "opening", "open"} :
           pc[u] \in {"closed", "opening", "open"} /\ pc' = [pc EXCEPT ![u] = at]
  BY OpenKeepsCore DEF QueueInv
<1>2. PICK at \in {"closed", "opening", "open"} :
        pc[u] \in {"closed", "opening", "open"} /\ pc' = [pc EXCEPT ![u] = at]
  BY <1>1
<1>3. at \in Between /\ pc[u] \in Between /\ CallOf(at) = CallOf(pc[u])
  BY <1>2, CallOfPlaces DEF Between
<1>4. /\ QueueView' = QueueView /\ StoredInv' /\ GotInv'
      /\ CallView' = CallView /\ GotView' = GotView
  BY <1>1, <1>2, <1>3, DeviceRests
<1> QED  BY <1>1, <1>4 DEF Fifo!fifovars

LEMMA BeginAsFifo ==
  ASSUME QueueInv, NEW u \in Users, BeginWrite(u) \/ BeginRead(u), ~overlapped'
  PROVE  StoredInv' /\ GotInv' /\ (Fifo!StartWrite(u) \/ Fifo!StartRead(u))
<1>1. DeviceTypes /\ QueueLength' = QueueLength
  BY BeginKeepsCore DEF QueueInv, CoreInv
<1>2. CASE BeginWrite(u)
  <2>1. PICK buf \in Buffers :
          /\ pc[u] = "open" /\ todo' = [todo EXCEPT ![u] = buf]
          /\ pc' = [pc EXCEPT ![u] = "write"]
          /\ UNCHANGED <<minor, buffer, read_pos, write_pos, left, got>>
    BY <1>2 DEF BeginWrite, Goto, devs
  <2>2. "write" \in Between /\ pc[u] \in Between  BY <2>1 DEF Between
  <2>3. \A v \in Users : v # u => todo'[v] = todo[v] /\ got'[v] = got[v]
    BY <1>1, <2>1 DEF DeviceTypes
  <2>4. /\ QueueView' = QueueView /\ minor' = minor /\ StoredInv' /\ GotInv'
        /\ CallView[u] = CallOf("open")
        /\ CallView' = [CallView EXCEPT ![u] = CallOf("write")]
        /\ GotView' = GotView
    BY <1>1, <2>1, <2>2, <2>3, DeviceRests
  <2>5. CallOf("write") = "write" /\ CallOf("open") = "none"
    BY CallOfPlaces DEF WritePlaces
  <2>6. buf \in Fifo!Buffers  BY DEF Buffers, Fifo!Buffers
  <2> QED  BY <2>1, <2>4, <2>5, <2>6 DEF Fifo!StartWrite
<1>3. CASE BeginRead(u)
  <2>1. PICK count \in 0 .. MaxCount :
          /\ pc[u] = "open" /\ left' = [left EXCEPT ![u] = count]
          /\ pc' = [pc EXCEPT ![u] = "read"]
          /\ UNCHANGED <<minor, buffer, read_pos, write_pos, todo, got>>
    BY <1>3 DEF BeginRead, Goto, devs
  <2>2. "read" \in Between /\ pc[u] \in Between  BY <2>1 DEF Between
  <2>3. /\ QueueView' = QueueView /\ minor' = minor /\ StoredInv' /\ GotInv'
        /\ CallView[u] = CallOf("open")
        /\ CallView' = [CallView EXCEPT ![u] = CallOf("read")]
        /\ GotView' = GotView
    BY <1>1, <2>1, <2>2, DeviceRests
  <2>4. CallOf("read") = "read" /\ CallOf("open") = "none"
    BY CallOfPlaces DEF ReadPlaces
  <2> QED  BY <2>1, <2>3, <2>4 DEF Fifo!StartRead
<1> QED  BY <1>2, <1>3

\* A call that returns.
LEMMA EndsAsFifo ==
  ASSUME QueueInv, NEW u \in Users,
         pc' = [pc EXCEPT ![u] = "open"], got' = [got EXCEPT ![u] = <<>>],
         todo' = [todo EXCEPT ![u] = <<>>], left' = [left EXCEPT ![u] = 0],
         minor' = minor
  PROVE  Fifo!Ends(u)
<1>1. CountTypes /\ DeviceTypes  BY DEF QueueInv, CoreInv, RoomInv
<1>3. got'[u] = <<>> /\ \A v \in Users : v # u => got'[v] = got[v]
  BY <1>1 DEF DeviceTypes
<1>4. CallOf("open") = "none" /\ GotOf("open", got'[u]) = <<>>
  BY <1>3, CallOfPlaces DEF GotOf
<1>5. /\ CallView' = [CallView EXCEPT ![u] = "none"]
      /\ GotView' = [GotView EXCEPT ![u] = <<>>]
  <2>1. /\ CallView' = [CallView EXCEPT ![u] = CallOf("open")]
        /\ GotView' = [GotView EXCEPT ![u] = GotOf("open", got'[u])]
    BY <1>1, <1>3, ViewsMove
  <2> QED  BY <1>4, <2>1
<1> QED  BY <1>5 DEF Fifo!Ends

\* A semaphore at 0 tells a call that the queue is full or empty.
LEMMA ReturnAsFifo ==
  ASSUME QueueInv, NEW u \in Users, Done(u) \/ WouldBlock(u) \/ Interrupted(u)
  PROVE  StoredInv' /\ GotInv' /\ (Fifo!EndWrite(u) \/ Fifo!EndRead(u))
<1>1. /\ RoomInv /\ PortInv /\ DeviceTypes /\ Len(QueueView) = QueueLength
      /\ QueueLength' = QueueLength
  BY QueueTyped, ReturnKeepsCore DEF QueueInv, CoreInv
<1>2. /\ Leaves(u)
      /\ \/ pc[u] = "write" /\ (todo[u] = <<>> \/ freeBufferSpace = 0)
         \/ pc[u] = "read" /\ (left[u] = 0 \/ itemsInBuffer = 0)
  BY DEF Done, WouldBlock, Interrupted, Loops, Needs
<1>3. /\ pc' = [pc EXCEPT ![u] = "open"] /\ got' = [got EXCEPT ![u] = <<>>]
      /\ todo' = [todo EXCEPT ![u] = <<>>] /\ left' = [left EXCEPT ![u] = 0]
      /\ UNCHANGED <<minor, buffer, read_pos, write_pos>>
  BY <1>2 DEF Leaves, Goto, devs
<1>4. pc[u] \in Between /\ "open" \in Between  BY <1>2 DEF Between
<1>5. \A v \in Users : v # u => todo'[v] = todo[v] /\ got'[v] = got[v]
  BY <1>1, <1>3 DEF DeviceTypes
<1>6. /\ QueueView' = QueueView /\ StoredInv' /\ GotInv'
      /\ CallView[u] = CallOf(pc[u])
  BY <1>1, <1>3, <1>4, <1>5, DeviceRests
<1>7. Fifo!Ends(u)  BY <1>3, EndsAsFifo
<1>8. CASE pc[u] = "write"
  <2>1. CallView[u] = "write"  BY <1>6, <1>8, CallOfPlaces DEF WritePlaces
  <2>2. todo[u] = <<>> \/ QueueLength = translate_bufsize
    BY <1>1, <1>2, <1>8, LengthFacts
  <2> QED  BY <1>1, <1>6, <1>7, <2>1, <2>2 DEF Fifo!EndWrite
<1>9. CASE pc[u] = "read"
  <2>1. CallView[u] = "read"  BY <1>6, <1>9, CallOfPlaces DEF ReadPlaces
  <2>2. left[u] = 0 \/ QueueLength = 0  BY <1>1, <1>2, <1>9, LengthFacts
  <2>3. left[u] = 0 \/ QueueView = <<>>  BY <2>2, EmptyQueue
  <2> QED  BY <1>6, <1>7, <2>1, <2>3 DEF Fifo!EndRead
<1> QED  BY <1>2, <1>8, <1>9

LEMMA DownAsFifo ==
  ASSUME QueueInv, NEW u \in Users, DownFree(u) \/ DownItems(u)
  PROVE  StoredInv' /\ GotInv' /\ UNCHANGED Fifo!fifovars
<1>1. QueueLength' = QueueLength
  BY WriterKeepsCore, ReaderKeepsCore DEF QueueInv
<1>2. PICK at \in {"from user", "decode"} :
        /\ pc' = [pc EXCEPT ![u] = at]
        /\ \/ pc[u] = "write" /\ at = "from user"
           \/ pc[u] = "read" /\ at = "decode"
        /\ UNCHANGED <<minor, buffer, read_pos, write_pos, todo, left, got>>
  BY DEF DownFree, DownItems, Goto, devs, locals
<1>3. at \in Between /\ pc[u] \in Between  BY <1>2 DEF Between
<1>4. CallOf(at) = CallOf(pc[u])
  BY <1>2, CallOfPlaces DEF WritePlaces, ReadPlaces, WriterPlaces, ReaderPlaces
<1>5. /\ QueueView' = QueueView /\ StoredInv' /\ GotInv'
      /\ CallView' = CallView /\ GotView' = GotView
  BY <1>1, <1>2, <1>3, <1>4, DeviceRests
<1> QED  BY <1>2, <1>5 DEF Fifo!fifovars

\* What the invariant says of the cells the reader and the writer work on.
LEMMA EndsOfQueue ==
  ASSUME CoreInv
  PROVE  /\ Cell(1) = FirstPos
         /\ \A v \in Users : pc[v] \in WriterPlaces =>
              /\ QueueLength + 1 \in 1 .. translate_bufsize /\ todo[v] # <<>>
              /\ pc[v] # "up items" => write_pos = Cell(QueueLength + 1)
         /\ \A v \in Users : pc[v] \in ReaderPlaces =>
              QueueLength > 0 /\ left[v] > 0
         /\ \A i \in 1 .. QueueLength, k \in 1 .. translate_bufsize :
              Cell(i) = Cell(k) => i = k
<1> DEFINE n == QueueLength
           k1 == QueueLength + 1
<1>1. RoomInv /\ PortInv /\ translate_bufsize \in Nat \ {0}
  BY SizeAssumption DEF CoreInv
<1>2. n \in 0 .. translate_bufsize /\ FirstPos \in Cells
  BY <1>1, LengthFacts, CellsInRow
<1>3. Cell(1) = FirstPos
  <2>1. /\ Cell(1) \in Cells
        /\ Cell(1) = FirstPos + 1 - 1 \/ Cell(1) = FirstPos + 1 - 1 - translate_bufsize
    BY <1>1, CellsInRow
  <2> QED  BY <1>1, <1>2, <2>1 DEF Cells
<1>4. ASSUME NEW v \in Users, pc[v] \in WriterPlaces
      PROVE  /\ k1 \in 1 .. translate_bufsize /\ todo[v] # <<>>
             /\ pc[v] # "up items" => write_pos = Cell(k1)
  <2>1. n < translate_bufsize /\ todo[v] # <<>>
    BY <1>1, <1>4, LengthFacts DEF CoreInv, CallInv
  <2>2. pc[v] # "up items" => WriterAhead = 0
    <3>1. pc[v] \in WritePlaces /\ "up items" \in WritePlaces
      BY <1>4 DEF WritePlaces, WriterPlaces
    <3>2. \A x \in Users : pc[v] \in WritePlaces /\ pc[x] \in WritePlaces => v = x
      BY <1>1, OneCaller
    <3> QED  BY <3>1, <3>2 DEF WriterAhead
  <2>3. k1 \in 1 .. translate_bufsize
    <3>1. k1 = n + 1  OBVIOUS
    <3> HIDE DEF n, k1
    <3> QED  BY <1>1, <1>2, <2>1, <3>1
  <2>4. WriterAhead = 0 => write_pos = Cell(k1)  BY <2>1, CellsInRow
  <2> QED  BY <2>1, <2>2, <2>3, <2>4
<1>5. \A v \in Users : pc[v] \in ReaderPlaces => n > 0 /\ left[v] > 0
  BY <1>1, LengthFacts DEF CoreInv, CallInv
<1>6. ASSUME NEW i \in 1 .. n, NEW k \in 1 .. translate_bufsize, Cell(i) = Cell(k)
      PROVE  i = k
  <2>1. i \in 1 .. translate_bufsize
    <3> HIDE DEF n
    <3> QED  BY <1>1, <1>2
  <2> QED  BY <1>6, <2>1, CellsApart
<1> QED  BY <1>3, <1>4, <1>5, <1>6

LEMMA PlacesInQueue ==
  ASSUME CoreInv
  PROVE  /\ QueueLength \in Nat /\ QueueLength <= translate_bufsize
         /\ \A i \in 1 .. QueueLength : i # QueueLength + 1 /\ i \in 1 .. translate_bufsize
         /\ QueueLength > 0 => 1 \in 1 .. QueueLength
<1> DEFINE n == QueueLength
<1>1. n \in 0 .. translate_bufsize /\ translate_bufsize \in Nat
  BY LengthFacts, SizeAssumption DEF CoreInv
<1> HIDE DEF n
<1>2. n \in Nat /\ n <= translate_bufsize /\ (n > 0 => 1 \in 1 .. n)  BY <1>1
<1>3. \A i \in 1 .. n : i # n + 1 /\ i \in 1 .. translate_bufsize  BY <1>1
<1> QED  BY <1>2, <1>3 DEF n

\* The writer changes the cell behind the queue, and nobody sees it.
LEMMA WriterStores ==
  ASSUME QueueInv, NEW u \in Users, pc[u] \in {"from user", "encode"},
         NEW at \in {"encode", "move write", "open"}, pc' = [pc EXCEPT ![u] = at],
         NEW c, buffer' = [buffer EXCEPT ![write_pos] = c],
         UNCHANGED <<minor, read_pos, write_pos>>, QueueLength' = QueueLength,
         \A v \in Users : v # u => got'[v] = got[v]
  PROVE  /\ QueueView' = QueueView /\ buffer'[write_pos] = c /\ GotInv'
         /\ \A v \in Users : v # u => pc'[v] \notin WritePlaces
<1> DEFINE n == QueueLength
           k == QueueLength + 1
<1>1. CoreInv /\ CountTypes /\ PortInv /\ RoomInv  BY DEF QueueInv, CoreInv, RoomInv
<1>2. /\ pc[u] \in WriterPlaces /\ pc[u] \in WritePlaces /\ pc[u] # "up items"
      /\ pc[u] \notin TakePlaces /\ at \notin TakePlaces
      /\ pc[u] # "up free" /\ at # "up free"
  BY DEF WritePlaces, WriterPlaces, TakePlaces
<1>3. k \in 1 .. translate_bufsize /\ write_pos = Cell(k)
  BY <1>1, <1>2, EndsOfQueue
<1>4. (FirstIsDecoded' <=> FirstIsDecoded) /\ (FirstIsPassed' <=> FirstIsPassed)
  BY <1>1, <1>2, FlagsMove
<1>5. FirstPos' = FirstPos  BY <1>4, FirstPosStays
<1>6. /\ \A i \in 1 .. n : i # k
      /\ n > 0 => 1 \in 1 .. n
  BY <1>1, PlacesInQueue
<1>7. \A i \in 1 .. n : Cell(i) # write_pos
  <2> TAKE i \in 1 .. n
  <2>1. i # k  BY <1>6
  <2>2. Cell(i) = Cell(k) => i = k
    <3> HIDE DEF k
    <3> QED  BY <1>1, <1>3, EndsOfQueue
  <2> QED  BY <1>3, <2>1, <2>2
<1>8. DOMAIN buffer = Cells /\ write_pos \in Cells  BY <1>1 DEF CoreInv, DeviceTypes
<1>9. buffer'[write_pos] = c /\ \A i \in 1 .. n : buffer'[Cell(i)] = buffer[Cell(i)]
  <2>1. \A i \in 1 .. n : Cell(i) \in Cells
    <3>1. \A i \in 1 .. translate_bufsize : Cell(i) \in Cells  BY <1>1, CellsInRow
    <3>2. \A i \in 1 .. n : i \in 1 .. translate_bufsize  BY <1>1, PlacesInQueue
    <3> QED  BY <3>1, <3>2
  <2>2. \A x \in Cells : x # write_pos => buffer'[x] = buffer[x]  BY <1>8
  <2> HIDE DEF n
  <2>3. \A i \in 1 .. n : buffer'[Cell(i)] = buffer[Cell(i)]  BY <1>7, <2>1, <2>2
  <2>4. buffer'[write_pos] = c  BY <1>8
  <2> QED  BY <2>3, <2>4
<1>10. QueueView' = QueueView  BY <1>4, <1>5, <1>9, QueueStays
<1>11. /\ pc'[u] = at
       /\ \A v \in Users : v # u => pc'[v] = pc[v] /\ pc'[v] \notin WritePlaces
  BY <1>1, <1>2, OthersStay
<1>12. GotInv'
  <2> SUFFICES ASSUME NEW v \in Users, pc'[v] \in {"move read", "up free"}
               PROVE  got'[v] # <<>> /\ got'[v][Len(got'[v])] = buffer'[FirstPos']
    BY DEF GotInv
  <2>1. v # u /\ pc[v] = pc'[v] /\ got'[v] = got[v]  BY <1>11
  <2>2. buffer'[FirstPos] = buffer[FirstPos]
    <3>1. pc[v] \in ReaderPlaces  BY <2>1 DEF ReaderPlaces
    <3>2. n > 0 /\ Cell(1) = FirstPos  BY <1>1, <3>1, EndsOfQueue
    <3>3. 1 \in 1 .. n  BY <1>6, <3>2
    <3> QED  BY <1>9, <3>2, <3>3
  <2>3. got[v] # <<>> /\ got[v][Len(got[v])] = buffer[FirstPos]
    BY <2>1 DEF QueueInv, GotInv
  <2> QED  BY <1>5, <2>1, <2>2, <2>3
<1> QED  BY <1>9, <1>10, <1>11, <1>12

LEMMA CopyFromAsFifo ==
  ASSUME QueueInv, NEW u \in Users, CopyFromUser(u) \/ FailCopyFrom(u) \/ Encode(u)
  PROVE  /\ StoredInv' /\ GotInv'
         /\ Fifo!FailWrite(u) \/ UNCHANGED Fifo!fifovars
<1>1. /\ CoreInv /\ CountTypes /\ DeviceTypes /\ RoomInv /\ PortInv
      /\ QueueLength' = QueueLength
  BY WriterKeepsCore, FailCopyFromKeepsCore DEF QueueInv, CoreInv, RoomInv
<1>2. ASSUME pc[u] \in {"from user", "encode"}
      PROVE  /\ todo[u] # <<>> /\ CallOf(pc[u]) = "write"
             /\ Len(QueueView) < translate_bufsize
  <2>1. pc[u] \in WriterPlaces /\ pc[u] \in WritePlaces
    BY <1>2 DEF WritePlaces, WriterPlaces
  <2>2. QueueLength < translate_bufsize  BY <1>1, <2>1, LengthFacts
  <2> QED  BY <1>1, <2>1, <2>2, EndsOfQueue, CallOfPlaces, QueueTyped
<1>3. CASE CopyFromUser(u)
  <2>1. /\ pc[u] = "from user" /\ pc' = [pc EXCEPT ![u] = "encode"]
        /\ buffer' = [buffer EXCEPT ![write_pos] = Head(todo[u])]
        /\ UNCHANGED <<minor, read_pos, write_pos, todo, left, got>>
    BY <1>3 DEF CopyFromUser, Goto, locals
  <2>2. /\ QueueView' = QueueView /\ buffer'[write_pos] = Head(todo[u]) /\ GotInv'
        /\ \A v \in Users : v # u => pc'[v] \notin WritePlaces
    BY <1>1, <2>1, WriterStores
  <2>3. StoredInv'
    <3>1. pc'[u] = "encode"  BY <1>1, <2>1 DEF CountTypes
    <3> QED  BY <2>1, <2>2, <3>1 DEF StoredInv, WritePlaces, WriterPlaces
  <2>4. /\ CallOf("encode") = CallOf(pc[u])
        /\ GotOf("encode", got'[u]) = GotOf(pc[u], got[u])
    BY <2>1, CallOfPlaces DEF GotOf, WritePlaces, WriterPlaces
  <2>5. CallView' = CallView /\ GotView' = GotView
    <3>1. \A v \in Users : v # u => got'[v] = got[v]  BY <2>1
    <3> QED  BY <1>1, <2>1, <2>4, <3>1, ViewsMove
  <2> QED  BY <2>1, <2>2, <2>3, <2>5 DEF Fifo!fifovars
<1>4. CASE FailCopyFrom(u)
  <2>1. /\ pc[u] = "from user" /\ pc' = [pc EXCEPT ![u] = "open"]
        /\ buffer' = [buffer EXCEPT ![write_pos] = 0]
        /\ UNCHANGED <<minor, read_pos, write_pos, left, got>>
        /\ todo' = [todo EXCEPT ![u] = <<>>]
    BY <1>4 DEF FailCopyFrom, Goto
  <2>2. /\ QueueView' = QueueView /\ GotInv'
        /\ \A v \in Users : v # u => pc'[v] \notin WritePlaces
    BY <1>1, <2>1, WriterStores
  <2>3. StoredInv'
    <3>1. pc'[u] = "open"  BY <1>1, <2>1 DEF CountTypes
    <3> QED  BY <2>2, <3>1 DEF StoredInv, WritePlaces, WriterPlaces
  <2>4. /\ CallView[u] = "write"
        /\ got' = [got EXCEPT ![u] = <<>>] /\ left' = [left EXCEPT ![u] = 0]
    <3>1. left[u] = 0 /\ got[u] = <<>>
      <4>1. pc[u] \notin ReadPlaces  BY <2>1 DEF ReadPlaces, ReaderPlaces
      <4> QED  BY <4>1 DEF QueueInv, CoreInv, CallInv
    <3>2. \A v \in Users : v # u => got'[v] = got[v]  BY <2>1
    <3>3. CallView[u] = CallOf(pc[u])  BY <1>1, <2>1, <3>2, ViewsMove
    <3>4. CallOf(pc[u]) = "write"  BY <1>2, <2>1
    <3> QED  BY <1>1, <2>1, <3>1, <3>3, <3>4 DEF DeviceTypes
  <2>5. Fifo!Ends(u)  BY <2>1, <2>4, EndsAsFifo
  <2>6. todo[u] # <<>> /\ Len(QueueView) < translate_bufsize  BY <1>2, <2>1
  <2> QED  BY <2>2, <2>3, <2>4, <2>5, <2>6 DEF Fifo!FailWrite
<1>5. CASE Encode(u)
  <2>1. /\ pc[u] = "encode" /\ pc' = [pc EXCEPT ![u] = "move write"]
        /\ buffer' = [buffer EXCEPT ![write_pos] =
                        IF minor = 0 THEN encode(buffer[write_pos])
                                     ELSE buffer[write_pos]]
        /\ UNCHANGED <<minor, read_pos, write_pos, todo, left, got>>
    BY <1>5 DEF Encode, Goto, locals
  <2>2. buffer' = [buffer EXCEPT ![write_pos] = Stored(buffer[write_pos])]
    BY <2>1 DEF Stored
  <2>3. /\ QueueView' = QueueView /\ buffer'[write_pos] = Stored(buffer[write_pos])
        /\ GotInv' /\ \A v \in Users : v # u => pc'[v] \notin WritePlaces
    BY <1>1, <2>1, <2>2, WriterStores
  <2>4. StoredInv'
    <3>1. pc'[u] = "move write"  BY <1>1, <2>1 DEF CountTypes
    <3>2. buffer'[write_pos'] = Stored(Head(todo[u]))'
      BY <2>1, <2>3 DEF QueueInv, StoredInv, Stored
    <3> QED  BY <2>3, <3>1, <3>2 DEF StoredInv, WritePlaces, WriterPlaces
  <2>5. /\ CallOf("move write") = CallOf(pc[u])
        /\ GotOf("move write", got'[u]) = GotOf(pc[u], got[u])
    BY <2>1, CallOfPlaces DEF GotOf, WritePlaces, WriterPlaces
  <2>6. CallView' = CallView /\ GotView' = GotView
    <3>1. \A v \in Users : v # u => got'[v] = got[v]  BY <2>1
    <3> QED  BY <1>1, <2>1, <2>5, <3>1, ViewsMove
  <2> QED  BY <2>1, <2>3, <2>4, <2>6 DEF Fifo!fifovars
<1> QED  BY <1>3, <1>4, <1>5

LEMMA MoveWritePosAsFifo ==
  ASSUME QueueInv, NEW u \in Users, MoveWritePos(u)
  PROVE  StoredInv' /\ GotInv' /\ UNCHANGED Fifo!fifovars
<1>1. /\ CoreInv /\ CountTypes /\ PortInv /\ QueueLength' = QueueLength
  BY MoveWriteKeepsCore DEF QueueInv, CoreInv, RoomInv
<1>2. /\ pc[u] = "move write" /\ pc' = [pc EXCEPT ![u] = "up items"]
      /\ UNCHANGED <<minor, buffer, read_pos, todo, left, got>>
  BY DEF MoveWritePos, Goto
<1>3. (FirstIsDecoded' <=> FirstIsDecoded) /\ (FirstIsPassed' <=> FirstIsPassed)
  <2>1. /\ pc[u] \notin TakePlaces /\ "up items" \notin TakePlaces
        /\ pc[u] # "up free" /\ "up items" # "up free"
    BY <1>2 DEF TakePlaces
  <2> QED  BY <1>1, <1>2, <2>1, FlagsMove
<1>4. FirstPos' = FirstPos /\ \A i : Cell(i)' = Cell(i)  BY <1>2, <1>3, FirstPosStays
<1>5. QueueView' = QueueView  BY <1>1, <1>2, <1>3, <1>4, QueueStays
<1>6. pc[u] \in WriterPlaces /\ pc[u] \in WritePlaces /\ pc[u] # "up items"
  BY <1>2 DEF WritePlaces, WriterPlaces
<1>7. /\ pc'[u] = "up items"
      /\ \A v \in Users : v # u => pc'[v] = pc[v] /\ pc'[v] \notin WritePlaces
  BY <1>1, <1>2, <1>6, OthersStay
<1>8. StoredInv'
  <2>1. buffer[Cell(QueueLength + 1)] = Stored(Head(todo[u]))
    <3>1. write_pos = Cell(QueueLength + 1)  BY <1>1, <1>6, EndsOfQueue
    <3> QED  BY <1>2, <3>1 DEF QueueInv, StoredInv
  <2>2. Cell(QueueLength + 1)' = Cell(QueueLength + 1)  BY <1>1, <1>4 DEF Cell
  <2>3. buffer'[Cell(QueueLength + 1)'] = Stored(Head(todo[u]))'
    BY <1>2, <2>1, <2>2 DEF Stored
  <2> QED  BY <1>7, <2>3 DEF StoredInv, WritePlaces, WriterPlaces
<1>9. GotInv'  BY <1>2, <1>4, <1>7 DEF GotInv, QueueInv
<1>10. /\ CallOf("up items") = CallOf(pc[u])
       /\ GotOf("up items", got'[u]) = GotOf(pc[u], got[u])
  BY <1>2, CallOfPlaces DEF GotOf, WritePlaces, WriterPlaces
<1>11. CallView' = CallView /\ GotView' = GotView
  <2>1. \A v \in Users : v # u => got'[v] = got[v]  BY <1>2
  <2> QED  BY <1>1, <1>2, <1>10, <2>1, ViewsMove
<1> QED  BY <1>2, <1>5, <1>8, <1>9, <1>11 DEF Fifo!fifovars

LEMMA UpItemsAsFifo ==
  ASSUME FullTable, QueueInv, NEW u \in Users, UpItems(u)
  PROVE  StoredInv' /\ GotInv' /\ Fifo!Put(u)
<1> DEFINE n == QueueLength
           k == QueueLength + 1
<1>1. /\ CoreInv /\ CountTypes /\ PortInv /\ DeviceTypes /\ QueueLength' = k
  BY UpItemsKeepsCore DEF QueueInv, CoreInv, RoomInv
<1>2. /\ pc[u] = "up items" /\ pc' = [pc EXCEPT ![u] = "write"]
      /\ todo' = [todo EXCEPT ![u] = Tail(@)]
      /\ UNCHANGED <<minor, buffer, read_pos, write_pos, left, got>>
  BY DEF UpItems, Goto, devs
<1>3. (FirstIsDecoded' <=> FirstIsDecoded) /\ (FirstIsPassed' <=> FirstIsPassed)
  <2>1. /\ pc[u] \notin TakePlaces /\ "write" \notin TakePlaces
        /\ pc[u] # "up free" /\ "write" # "up free"
    BY <1>2 DEF TakePlaces
  <2> QED  BY <1>1, <1>2, <2>1, FlagsMove
<1>4. FirstPos' = FirstPos /\ \A i : Cell(i)' = Cell(i)  BY <1>2, <1>3, FirstPosStays
<1>5. pc[u] \in WriterPlaces /\ pc[u] \in WritePlaces
  BY <1>2 DEF WritePlaces, WriterPlaces
<1>6. /\ k \in 1 .. translate_bufsize /\ todo[u] # <<>>
      /\ QueueView \in Seq(Bytes) /\ Len(QueueView) = n
      /\ n \in Nat /\ n <= translate_bufsize /\ \A i \in 1 .. n : i # k
      /\ \A v \in Users : pc[v] \in ReaderPlaces => n > 0
  BY <1>1, <1>5, EndsOfQueue, QueueTyped, PlacesInQueue
<1>7. /\ pc'[u] = "write"
      /\ \A v \in Users : v # u => pc'[v] = pc[v] /\ pc'[v] \notin WritePlaces
  BY <1>1, <1>2, <1>5, OthersStay
<1>8. StoredInv'  BY <1>7 DEF StoredInv, WritePlaces, WriterPlaces
<1>9. GotInv'  BY <1>2, <1>4, <1>7 DEF GotInv, QueueInv
<1>10. \A i \in 1 .. k :
         QueueView'[i] = IF minor = 1 /\ ~(i = 1 /\ FirstIsDecoded)
                           THEN decode(buffer[Cell(i)])
                           ELSE buffer[Cell(i)]
  <2>1. \A i \in 1 .. QueueLength' :
          QueueView'[i] = IF minor' = 1 /\ ~(i = 1 /\ FirstIsDecoded')
                            THEN decode(buffer'[Cell(i)'])
                            ELSE buffer'[Cell(i)']
    BY DEF QueueView, Cell
  <2>2. minor' = minor /\ buffer' = buffer  BY <1>2
  <2> HIDE DEF FirstIsDecoded, QueueView, k
  <2> QED  BY <1>1, <1>3, <1>4, <2>1, <2>2
<1>11. QueueView' = Append(QueueView, Fifo!Translated(Head(todo[u])))
  <2> DEFINE h == Head(todo[u])
             c == Fifo!Translated(h)
  <2>1. h \in Bytes
    <3>1. todo[u] \in Seq(Inputs)  BY <1>1 DEF DeviceTypes
    <3>2. h \in Inputs  BY <1>6, <3>1, HeadTailProperties
    <3> QED  BY <3>2 DEF Bytes
  <2>2. c = IF minor = 0 THEN encode(h) ELSE decode(h)
    BY <2>1, CodecIsShared DEF Fifo!Translated
  <2>3. c \in Bytes  BY <2>1, <2>2, CodecTyped
  <2>4. QueueView'[k] = c
    <3>1. buffer[Cell(k)] = Stored(h)  BY <1>2 DEF QueueInv, StoredInv
    <3>2. k = 1 => ~FirstIsDecoded
      <4>1. ASSUME FirstIsDecoded PROVE n > 0
        <5>1. PICK v \in Users : pc[v] \in ReaderPlaces
          BY <4>1 DEF FirstIsDecoded, ReaderPlaces
        <5> QED  BY <1>6, <5>1
      <4> QED  BY <1>6, <4>1
    <3>3. k \in 1 .. k
      <4> HIDE DEF k
      <4> QED  BY <1>6
    <3>4. QueueView'[k] = IF minor = 1 THEN decode(buffer[Cell(k)]) ELSE buffer[Cell(k)]
      BY <1>10, <3>2, <3>3
    <3>5. minor \in {0, 1}  BY <1>1 DEF DeviceTypes
    <3> QED  BY <2>2, <3>1, <3>4, <3>5 DEF Stored
  <2> HIDE DEF c
  <2>5. \A i \in 1 .. n : QueueView'[i] = QueueView[i]
    <3>1. \A i \in 1 .. n : i \in 1 .. k
      <4>1. k = n + 1  OBVIOUS
      <4> HIDE DEF n, k
      <4> QED  BY <1>6, <4>1
    <3> QED  BY <1>10, <3>1, QueueIs
  <2> DEFINE q == Append(QueueView, c)
  <2>6. q \in Seq(Bytes) /\ Len(q) = k /\ \A i \in 1 .. k : QueueView'[i] = q[i]
    <3>1. /\ q \in Seq(Bytes) /\ Len(q) = n + 1 /\ q[n + 1] = c
          /\ \A i \in 1 .. n : q[i] = QueueView[i]
      BY <1>6, <2>3, AppendProperties
    <3>2. k = n + 1  OBVIOUS
    <3> HIDE DEF n, k, q
    <3>3. \A i \in 1 .. k : i \in 1 .. n \/ i = k  BY <1>6, <3>2
    <3> QED  BY <2>4, <2>5, <3>1, <3>2, <3>3
  <2> HIDE DEF q
  <2>7. QueueView' = q  BY <1>1, <2>6, QueueBecomes
  <2> QED  BY <2>7 DEF q, c
<1>12. /\ CallOf("write") = CallOf(pc[u]) /\ CallOf(pc[u]) = "write"
       /\ GotOf("write", got'[u]) = GotOf(pc[u], got[u])
  BY <1>2, CallOfPlaces DEF GotOf, WritePlaces, WriterPlaces
<1>13. CallView' = CallView /\ GotView' = GotView /\ CallView[u] = "write"
  <2>1. \A v \in Users : v # u => got'[v] = got[v]  BY <1>2
  <2> QED  BY <1>1, <1>2, <1>12, <2>1, ViewsMove
<1>14. Len(QueueView) < translate_bufsize
  <2>1. k = n + 1  OBVIOUS
  <2>2. translate_bufsize \in Nat  BY SizeAssumption
  <2> HIDE DEF n, k
  <2>3. n < translate_bufsize  BY <1>6, <2>1, <2>2
  <2> QED  BY <1>6, <2>3
<1> QED  BY <1>2, <1>6, <1>8, <1>9, <1>11, <1>13, <1>14 DEF Fifo!Put

\* Where a process stands that stores is outside the steps of the reader.
LEMMA StoredStays ==
  ASSUME QueueInv, NEW u \in Users, pc[u] \in ReadPlaces, NEW at, at \notin WritePlaces,
         pc' = [pc EXCEPT ![u] = at], UNCHANGED <<minor, write_pos>>,
         \A v \in Users : v # u => todo'[v] = todo[v],
         QueueLength + 1 \in 1 .. translate_bufsize =>
           /\ buffer'[Cell(QueueLength + 1)] = buffer[Cell(QueueLength + 1)]
           /\ Cell(QueueLength + 1)' = Cell(QueueLength + 1)
  PROVE  StoredInv'
<1>1. CoreInv /\ CountTypes /\ PortInv  BY DEF QueueInv, CoreInv, RoomInv
<1> SUFFICES ASSUME NEW v \in Users, pc'[v] \in WriterPlaces
             PROVE  /\ pc'[v] = "encode" => buffer'[write_pos'] = Head(todo'[v])
                    /\ pc'[v] = "move write" => buffer'[write_pos'] = Stored(Head(todo[v]))'
                    /\ pc'[v] = "up items" =>
                         buffer'[Cell(QueueLength + 1)'] = Stored(Head(todo[v]))'
  BY DEF StoredInv, WriterPlaces
<1>2. v # u /\ pc[v] = pc'[v]  BY <1>1, OthersStay DEF WritePlaces
<1>3. /\ QueueLength + 1 \in 1 .. translate_bufsize
      /\ pc[v] # "up items" => write_pos = Cell(QueueLength + 1)
  BY <1>1, <1>2, EndsOfQueue
<1>4. /\ buffer'[Cell(QueueLength + 1)] = buffer[Cell(QueueLength + 1)]
      /\ Cell(QueueLength + 1)' = Cell(QueueLength + 1)
  BY <1>3
<1>5. todo'[v] = todo[v] /\ Stored(Head(todo[v]))' = Stored(Head(todo[v]))
  BY <1>2 DEF Stored
<1> QED  BY <1>2, <1>3, <1>4, <1>5 DEF QueueInv, StoredInv

LEMMA DecodeAsFifo ==
  ASSUME QueueInv, NEW u \in Users, Decode(u)
  PROVE  StoredInv' /\ GotInv' /\ UNCHANGED Fifo!fifovars
<1> DEFINE n == QueueLength
<1>1. /\ CoreInv /\ CountTypes /\ PortInv /\ DeviceTypes /\ QueueLength' = n
  BY ReaderKeepsCore DEF QueueInv, CoreInv, RoomInv
<1>2. /\ pc[u] = "decode" /\ pc' = [pc EXCEPT ![u] = "to user"]
      /\ buffer' = [buffer EXCEPT ![read_pos] =
                      IF minor = 1 THEN decode(buffer[read_pos]) ELSE buffer[read_pos]]
      /\ UNCHANGED <<minor, read_pos, write_pos, todo, left, got>>
  BY DEF Decode, Goto, locals
<1>3. /\ pc[u] \in ReaderPlaces /\ pc[u] \in ReadPlaces
      /\ "to user" \in ReadPlaces /\ "to user" \notin WritePlaces
      /\ pc[u] \notin TakePlaces /\ "to user" \in TakePlaces
      /\ pc[u] # "up free" /\ "to user" # "up free"
  BY <1>2 DEF ReadPlaces, ReaderPlaces, TakePlaces, WritePlaces, WriterPlaces
<1>4. ~FirstIsDecoded /\ ~FirstIsPassed /\ FirstIsDecoded' /\ ~FirstIsPassed'
  BY <1>1, <1>2, <1>3, FlagsMove
<1>5. FirstPos = read_pos /\ FirstPos' = FirstPos /\ \A i : Cell(i)' = Cell(i)
  BY <1>2, <1>4, FirstPosStays DEF FirstPos
<1>6. /\ n > 0 /\ n \in Nat /\ n <= translate_bufsize /\ 1 \in 1 .. n
      /\ translate_bufsize \in Nat /\ read_pos = Cell(1)
      /\ QueueView \in Seq(Bytes) /\ Len(QueueView) = n
      /\ DOMAIN buffer = Cells /\ read_pos \in Cells
  BY <1>1, <1>3, <1>5, EndsOfQueue, PlacesInQueue, QueueTyped, SizeAssumption
  DEF DeviceTypes
<1>7. /\ \A k \in 2 .. translate_bufsize : buffer'[Cell(k)] = buffer[Cell(k)]
      /\ buffer'[Cell(1)] = IF minor = 1 THEN decode(buffer[Cell(1)]) ELSE buffer[Cell(1)]
  <2>1. \A k \in 2 .. translate_bufsize : Cell(k) \in Cells /\ Cell(k) # read_pos
    <3> TAKE k \in 2 .. translate_bufsize
    <3>1. k # 1 /\ k \in 1 .. translate_bufsize  BY <1>6
    <3>2. Cell(k) \in Cells  BY <1>1, <3>1, CellsInRow
    <3>3. Cell(1) = Cell(k) => 1 = k  BY <1>1, <1>6, <3>1, EndsOfQueue
    <3> QED  BY <1>6, <3>1, <3>2, <3>3
  <2>2. \A x \in Cells : x # read_pos => buffer'[x] = buffer[x]  BY <1>2, <1>6
  <2>3. buffer'[read_pos] = IF minor = 1 THEN decode(buffer[read_pos]) ELSE buffer[read_pos]
    BY <1>2, <1>6
  <2> QED  BY <1>6, <2>1, <2>2, <2>3
<1>8. QueueView' = QueueView
  <2>1. \A i \in 1 .. n :
          QueueView'[i] = IF minor = 1 /\ i # 1 THEN decode(buffer'[Cell(i)])
                                                ELSE buffer'[Cell(i)]
    <3>1. \A i \in 1 .. QueueLength' :
            QueueView'[i] = IF minor' = 1 /\ ~(i = 1 /\ FirstIsDecoded')
                              THEN decode(buffer'[Cell(i)'])
                              ELSE buffer'[Cell(i)']
      BY DEF QueueView, Cell
    <3>2. minor' = minor  BY <1>2
    <3> HIDE DEF FirstIsDecoded, QueueView, n
    <3> QED  BY <1>1, <1>4, <1>5, <3>1, <3>2
  <2>2. \A i \in 1 .. n :
          QueueView[i] = IF minor = 1 THEN decode(buffer[Cell(i)]) ELSE buffer[Cell(i)]
    BY <1>4, QueueIs
  <2>3. \A i \in 1 .. n : i = 1 \/ (i # 1 /\ i \in 2 .. translate_bufsize)
    <3> HIDE DEF n
    <3> QED  BY <1>6
  <2>4. \A i \in 1 .. n : QueueView'[i] = QueueView[i]
    <3> TAKE i \in 1 .. n
    <3>1. CASE i = 1  BY <1>7, <2>1, <2>2, <3>1
    <3>2. CASE i # 1 /\ i \in 2 .. translate_bufsize  BY <1>7, <2>1, <2>2, <3>2
    <3> QED  BY <2>3, <3>1, <3>2
  <2> QED  BY <1>1, <1>6, <2>4, QueueBecomes
<1>9. StoredInv'
  <2>1. n + 1 \in 1 .. translate_bufsize => n + 1 \in 2 .. translate_bufsize
    <3> HIDE DEF n
    <3> QED  BY <1>6
  <2>2. ASSUME n + 1 \in 1 .. translate_bufsize
        PROVE  buffer'[Cell(n + 1)] = buffer[Cell(n + 1)]
    <3> DEFINE k == n + 1
    <3>1. k \in 2 .. translate_bufsize  BY <2>1, <2>2
    <3> HIDE DEF k
    <3>2. buffer'[Cell(k)] = buffer[Cell(k)]  BY <1>7, <3>1
    <3> QED  BY <3>2 DEF k
  <2>3. \A v \in Users : v # u => todo'[v] = todo[v]  BY <1>2
  <2>4. Cell(n + 1)' = Cell(n + 1)  BY <1>1, <1>5 DEF Cell
  <2> QED  BY <1>2, <1>3, <2>2, <2>3, <2>4, StoredStays
<1>10. GotInv'
  <2>1. pc'[u] = "to user" /\ \A v \in Users : v # u => pc'[v] \notin ReadPlaces
    BY <1>1, <1>2, <1>3, OthersStay
  <2> QED  BY <2>1 DEF GotInv, ReadPlaces, ReaderPlaces
<1>11. /\ CallOf("to user") = CallOf(pc[u])
       /\ GotOf("to user", got'[u]) = GotOf(pc[u], got[u])
  BY <1>2, <1>3, CallOfPlaces DEF GotOf
<1>12. CallView' = CallView /\ GotView' = GotView
  <2>1. \A v \in Users : v # u => got'[v] = got[v]  BY <1>2
  <2> QED  BY <1>1, <1>2, <1>11, <2>1, ViewsMove
<1> QED  BY <1>2, <1>8, <1>9, <1>10, <1>12 DEF Fifo!fifovars

\* The last element of a sequence, put on and taken off.
LEMMA LastOfAppend ==
  ASSUME NEW S, NEW s \in Seq(S), NEW x \in S
  PROVE  /\ Append(s, x) # <<>> /\ Append(s, x)[Len(Append(s, x))] = x
         /\ SubSeq(Append(s, x), 1, Len(Append(s, x)) - 1) = s
<1> DEFINE a == Append(s, x)
<1>1. /\ a \in Seq(S) /\ a # <<>> /\ Len(a) = Len(s) + 1 /\ Len(s) \in Nat
      /\ \A i \in 1 .. Len(s) : a[i] = s[i]
      /\ a[Len(s) + 1] = x
  BY AppendProperties
<1> HIDE DEF a
<1> DEFINE b == SubSeq(a, 1, Len(s))
<1>2. \A i \in 1 .. Len(s) : a[i] \in S  BY <1>1
<1>3. b \in Seq(S) /\ Len(b) = Len(s) /\ \A i \in 1 .. Len(s) : b[i] = s[i]
  <2>1. /\ b \in Seq(S) /\ Len(b) = IF 1 <= Len(s) THEN Len(s) - 1 + 1 ELSE 0
        /\ \A i \in 1 .. Len(s) - 1 + 1 : b[i] = a[1 + i - 1]
    BY <1>1, <1>2, SubSeqProperties
  <2> QED  BY <1>1, <2>1
<1> HIDE DEF b
<1>4. b = s  BY <1>3, SeqEqual
<1> QED  BY <1>1, <1>4 DEF a, b

LEMMA LastTakenOff ==
  ASSUME NEW S, NEW s \in Seq(S), s # <<>>
  PROVE  Append(SubSeq(s, 1, Len(s) - 1), s[Len(s)]) = s
<1> DEFINE n == Len(s) - 1
           b == SubSeq(s, 1, n)
<1>1. n \in Nat /\ Len(s) = n + 1 /\ s[Len(s)] \in S  OBVIOUS
<1>2. \A i \in 1 .. n : s[i] \in S  BY <1>1
<1> HIDE DEF n
<1>3. b \in Seq(S) /\ Len(b) = n /\ \A i \in 1 .. n : b[i] = s[i]
  <2>1. /\ b \in Seq(S) /\ Len(b) = IF 1 <= n THEN n - 1 + 1 ELSE 0
        /\ \A i \in 1 .. n - 1 + 1 : b[i] = s[1 + i - 1]
    BY <1>1, <1>2, SubSeqProperties
  <2> QED  BY <1>1, <2>1
<1> HIDE DEF b
<1> DEFINE a == Append(b, s[Len(s)])
<1>4. /\ a \in Seq(S) /\ Len(a) = Len(b) + 1 /\ a[Len(b) + 1] = s[Len(s)]
      /\ \A i \in 1 .. Len(b) : a[i] = b[i]
  BY <1>1, <1>3, AppendProperties
<1> HIDE DEF a
<1>5. Len(a) = Len(s) /\ \A i \in 1 .. Len(s) : a[i] = s[i]  BY <1>1, <1>3, <1>4
<1>6. a = s  BY <1>4, <1>5, SeqEqual
<1> QED  BY <1>6 DEF a, b, n

LEMMA CopyToUserAsFifo ==
  ASSUME QueueInv, NEW u \in Users, CopyToUser(u)
  PROVE  StoredInv' /\ GotInv' /\ UNCHANGED Fifo!fifovars
<1>1. /\ CoreInv /\ CountTypes /\ PortInv /\ DeviceTypes /\ QueueLength' = QueueLength
  BY ReaderKeepsCore DEF QueueInv, CoreInv, RoomInv
<1>2. /\ pc[u] = "to user" /\ pc' = [pc EXCEPT ![u] = "move read"]
      /\ got' = [got EXCEPT ![u] = Append(got[u], buffer[read_pos])]
      /\ UNCHANGED <<minor, buffer, read_pos, write_pos, todo, left>>
  BY DEF CopyToUser, Goto, devs
<1>3. /\ pc[u] \in ReaderPlaces /\ pc[u] \in ReadPlaces
      /\ "move read" \in ReadPlaces /\ "move read" \notin WritePlaces
      /\ pc[u] \in TakePlaces /\ "move read" \in TakePlaces
      /\ pc[u] # "up free" /\ "move read" # "up free"
  BY <1>2 DEF ReadPlaces, ReaderPlaces, TakePlaces, WritePlaces, WriterPlaces
<1>4. /\ ~FirstIsPassed /\ (FirstIsPassed' <=> FirstIsPassed)
      /\ (FirstIsDecoded' <=> FirstIsDecoded)
  BY <1>1, <1>2, <1>3, FlagsMove
<1>5. FirstPos = read_pos /\ FirstPos' = FirstPos /\ \A i : Cell(i)' = Cell(i)
  BY <1>2, <1>4, FirstPosStays DEF FirstPos
<1>6. QueueView' = QueueView  BY <1>1, <1>2, <1>4, <1>5, QueueStays
<1>7. StoredInv'  BY <1>1, <1>2, <1>3, <1>5, StoredStays
<1>8. /\ got[u] \in Seq(Bytes) /\ buffer[read_pos] \in Bytes
      /\ got'[u] = Append(got[u], buffer[read_pos])
      /\ \A v \in Users : v # u => got'[v] = got[v]
  BY <1>1, <1>2 DEF DeviceTypes
<1>9. /\ got'[u] # <<>> /\ got'[u][Len(got'[u])] = buffer[read_pos]
      /\ SubSeq(got'[u], 1, Len(got'[u]) - 1) = got[u]
  BY <1>8, LastOfAppend
<1>10. GotInv'
  <2>1. pc'[u] = "move read" /\ \A v \in Users : v # u => pc'[v] \notin ReadPlaces
    BY <1>1, <1>2, <1>3, OthersStay
  <2>2. got'[u] # <<>> /\ got'[u][Len(got'[u])] = buffer'[FirstPos']
    BY <1>2, <1>5, <1>9
  <2> QED  BY <2>1, <2>2 DEF GotInv, ReadPlaces, ReaderPlaces
<1>11. /\ CallOf("move read") = CallOf(pc[u])
       /\ GotOf("move read", got'[u]) = GotOf(pc[u], got[u])
  BY <1>2, <1>3, <1>9, CallOfPlaces DEF GotOf
<1>12. CallView' = CallView /\ GotView' = GotView
  BY <1>1, <1>2, <1>8, <1>11, ViewsMove
<1> QED  BY <1>2, <1>6, <1>7, <1>10, <1>12 DEF Fifo!fifovars

LEMMA FailCopyToAsFifo ==
  ASSUME FullTable, QueueInv, NEW u \in Users, FailCopyTo(u)
  PROVE  StoredInv' /\ GotInv' /\ Fifo!FailRead(u)
<1> DEFINE n == QueueLength
           q == [QueueView EXCEPT ![1] = Fifo!Spoilt(@)]
<1>1. /\ CoreInv /\ CountTypes /\ PortInv /\ DeviceTypes /\ QueueLength' = n
  BY ReturnKeepsCore DEF QueueInv, CoreInv, RoomInv
<1>2. /\ pc[u] = "to user" /\ pc' = [pc EXCEPT ![u] = "open"]
      /\ got' = [got EXCEPT ![u] = <<>>] /\ todo' = [todo EXCEPT ![u] = <<>>]
      /\ left' = [left EXCEPT ![u] = 0]
      /\ UNCHANGED <<minor, buffer, read_pos, write_pos>>
  BY DEF FailCopyTo, Leaves, Goto, devs
<1>3. /\ pc[u] \in ReaderPlaces /\ pc[u] \in ReadPlaces
      /\ "open" \notin ReadPlaces /\ "open" \notin WritePlaces
      /\ pc[u] \in TakePlaces /\ "open" \notin TakePlaces
      /\ pc[u] # "up free" /\ "open" # "up free"
  BY <1>2 DEF ReadPlaces, ReaderPlaces, TakePlaces, WritePlaces, WriterPlaces
<1>4. FirstIsDecoded /\ ~FirstIsPassed /\ ~FirstIsDecoded' /\ ~FirstIsPassed'
  BY <1>1, <1>2, <1>3, FlagsMove
<1>5. FirstPos = read_pos /\ FirstPos' = FirstPos /\ \A i : Cell(i)' = Cell(i)
  BY <1>2, <1>4, FirstPosStays DEF FirstPos
<1>6. /\ n > 0 /\ n \in Nat /\ 1 \in 1 .. n /\ left[u] > 0
      /\ QueueView \in Seq(Bytes) /\ Len(QueueView) = n /\ minor \in {0, 1}
  BY <1>1, <1>3, EndsOfQueue, PlacesInQueue, QueueTyped DEF DeviceTypes
<1>7. \A v \in Users : v # u => todo'[v] = todo[v] /\ got'[v] = got[v]
  BY <1>1, <1>2 DEF DeviceTypes
<1>8. StoredInv'  BY <1>1, <1>2, <1>3, <1>5, <1>7, StoredStays
<1>9. GotInv'
  <2>1. pc'[u] = "open" /\ \A v \in Users : v # u => pc'[v] \notin ReadPlaces
    BY <1>1, <1>2, <1>3, OthersStay
  <2> QED  BY <2>1 DEF GotInv, ReadPlaces, ReaderPlaces
<1>10. \A i \in 1 .. n :
         QueueView'[i] = IF minor = 1 THEN decode(buffer[Cell(i)]) ELSE buffer[Cell(i)]
  <2>1. \A i \in 1 .. QueueLength' :
          QueueView'[i] = IF minor' = 1 /\ ~(i = 1 /\ FirstIsDecoded')
                            THEN decode(buffer'[Cell(i)'])
                            ELSE buffer'[Cell(i)']
    BY DEF QueueView, Cell
  <2>2. minor' = minor /\ buffer' = buffer  BY <1>2
  <2> HIDE DEF FirstIsDecoded, QueueView, n
  <2> QED  BY <1>1, <1>4, <1>5, <2>1, <2>2
<1>11. \A i \in 1 .. n :
         QueueView[i] = IF minor = 1 /\ i # 1 THEN decode(buffer[Cell(i)])
                                              ELSE buffer[Cell(i)]
  BY <1>4, QueueIs
<1>12. QueueView' = q
  <2> DEFINE x == QueueView[1]
             y == Fifo!Spoilt(x)
  <2>1. x \in Bytes  BY <1>6
  <2>2. y = IF minor = 1 THEN decode(x) ELSE x
    BY <1>6, <2>1, CodecIsShared DEF Fifo!Spoilt
  <2>3. y \in Bytes  BY <2>1, <2>2, CodecTyped
  <2>4. QueueView'[1] = y
    <3>1. x = buffer[Cell(1)]  BY <1>6, <1>11
    <3>2. QueueView'[1] = IF minor = 1 THEN decode(buffer[Cell(1)]) ELSE buffer[Cell(1)]
      BY <1>6, <1>10
    <3> QED  BY <2>2, <3>1, <3>2
  <2>5. \A i \in 1 .. n : i # 1 => QueueView'[i] = QueueView[i]  BY <1>10, <1>11
  <2>6. q = [QueueView EXCEPT ![1] = y]  OBVIOUS
  <2> HIDE DEF y, q, n, QueueView
  <2>7. /\ q \in Seq(Bytes) /\ Len(q) = n /\ q[1] = y
        /\ \A i \in 1 .. n : i # 1 => q[i] = QueueView[i]
    BY <1>6, <2>3, <2>6
  <2>8. \A i \in 1 .. n : QueueView'[i] = q[i]  BY <2>4, <2>5, <2>7
  <2> QED  BY <1>1, <2>7, <2>8, QueueBecomes DEF n
<1>13. CallView[u] = "read"
  <2>1. CallView[u] = CallOf(pc[u])  BY <1>1, <1>2, <1>7, ViewsMove
  <2> QED  BY <1>3, <2>1, CallOfPlaces
<1>14. Fifo!Ends(u)  BY <1>2, EndsAsFifo
<1>15. QueueView # <<>>  BY <1>6
<1> QED  BY <1>6, <1>8, <1>9, <1>12, <1>13, <1>14, <1>15 DEF Fifo!FailRead

LEMMA MoveReadPosAsFifo ==
  ASSUME QueueInv, NEW u \in Users, MoveReadPos(u)
  PROVE  StoredInv' /\ GotInv' /\ UNCHANGED Fifo!fifovars
<1>1. /\ CoreInv /\ CountTypes /\ PortInv /\ DeviceTypes /\ CallInv
      /\ QueueLength' = QueueLength
  BY MoveReadKeepsCore DEF QueueInv, CoreInv, RoomInv
<1>2. /\ pc[u] = "move read" /\ pc' = [pc EXCEPT ![u] = "up free"]
      /\ UNCHANGED <<minor, buffer, write_pos, todo, left, got>>
      /\ read_pos' = NextPos(index[u])
  BY DEF MoveReadPos, Goto
<1>3. /\ pc[u] \in ReaderPlaces /\ pc[u] \in ReadPlaces
      /\ "up free" \in ReadPlaces /\ "up free" \notin WritePlaces
      /\ pc[u] \in TakePlaces /\ "up free" \in TakePlaces /\ pc[u] # "up free"
  BY <1>2 DEF ReadPlaces, ReaderPlaces, TakePlaces, WritePlaces, WriterPlaces
<1>4. (FirstIsDecoded' <=> FirstIsDecoded) /\ ~FirstIsPassed /\ FirstIsPassed'
  BY <1>1, <1>2, <1>3, FlagsMove
<1>5. FirstPos' = FirstPos
  <2>1. index[u] = read_pos /\ read_pos \in Cells /\ translate_bufsize \in Nat \ {0}
    BY <1>1, <1>3, SizeAssumption DEF CallInv, DeviceTypes
  <2> DEFINE r == read_pos'
             x == r + translate_bufsize - 1
  <2>2. r \in Cells /\ (r = read_pos + 1 \/ r = read_pos + 1 - translate_bufsize)
    BY <1>2, <2>1, NextPosWraps
  <2>3. FirstPos' = x % translate_bufsize /\ FirstPos = read_pos
    BY <1>4 DEF FirstPos
  <2>4. x = r + translate_bufsize - 1  OBVIOUS
  <2> HIDE DEF r, x
  <2>5. r \in Int /\ 0 <= r /\ r < translate_bufsize  BY <2>1, <2>2 DEF Cells
  <2>6. x \in Nat /\ x < 2 * translate_bufsize  BY <2>1, <2>4, <2>5
  <2>7. x = read_pos \/ x = read_pos + translate_bufsize
    BY <2>1, <2>2, <2>4, <2>5 DEF Cells
  <2>8. FirstPos' \in Cells /\ (FirstPos' = x \/ FirstPos' = x - translate_bufsize)
    BY <2>3, <2>6, WrapsOnce
  <2> QED  BY <2>1, <2>3, <2>6, <2>7, <2>8 DEF Cells
<1>6. \A i : Cell(i)' = Cell(i)  BY <1>5 DEF Cell
<1>7. \A i \in 1 .. QueueLength : buffer'[Cell(i)] = buffer[Cell(i)]  BY <1>2
<1>8. QueueView' = QueueView
  <2>1. UNCHANGED <<minor, FirstPos>>  BY <1>2, <1>5
  <2> QED  BY <1>1, <1>4, <1>7, <2>1, QueueStays
<1>9. StoredInv'
  <2>1. Cell(QueueLength + 1)' = Cell(QueueLength + 1)  BY <1>1, <1>5 DEF Cell
  <2>2. buffer'[Cell(QueueLength + 1)] = buffer[Cell(QueueLength + 1)]  BY <1>2
  <2>3. \A v \in Users : v # u => todo'[v] = todo[v]  BY <1>2
  <2> QED  BY <1>2, <1>3, <2>1, <2>2, <2>3, StoredStays
<1>10. GotInv'
  <2>1. pc'[u] = "up free" /\ \A v \in Users : v # u => pc'[v] \notin ReadPlaces
    BY <1>1, <1>2, <1>3, OthersStay
  <2>2. got'[u] # <<>> /\ got'[u][Len(got'[u])] = buffer'[FirstPos']
    BY <1>2, <1>5 DEF QueueInv, GotInv
  <2> QED  BY <2>1, <2>2 DEF GotInv, ReadPlaces, ReaderPlaces
<1>11. /\ CallOf("up free") = CallOf(pc[u])
       /\ GotOf("up free", got'[u]) = GotOf(pc[u], got[u])
  BY <1>2, <1>3, CallOfPlaces DEF GotOf
<1>12. CallView' = CallView /\ GotView' = GotView
  <2>1. \A v \in Users : v # u => got'[v] = got[v]  BY <1>2
  <2> QED  BY <1>1, <1>2, <1>11, <2>1, ViewsMove
<1> QED  BY <1>2, <1>8, <1>9, <1>10, <1>12 DEF Fifo!fifovars

LEMMA UpFreeAsFifo ==
  ASSUME QueueInv, NEW u \in Users, UpFree(u)
  PROVE  StoredInv' /\ GotInv' /\ Fifo!Get(u)
<1> DEFINE n == QueueLength
           m == QueueLength - 1
<1>1. /\ CoreInv /\ CountTypes /\ PortInv /\ DeviceTypes /\ QueueLength' = m
  BY UpFreeKeepsCore DEF QueueInv, CoreInv, RoomInv
<1>2. /\ pc[u] = "up free" /\ pc' = [pc EXCEPT ![u] = "read"]
      /\ left' = [left EXCEPT ![u] = @ - 1]
      /\ UNCHANGED <<minor, buffer, read_pos, write_pos, todo, got>>
  BY DEF UpFree, Goto, devs
<1>3. /\ pc[u] \in ReaderPlaces /\ pc[u] \in ReadPlaces
      /\ "read" \in ReadPlaces /\ "read" \notin WritePlaces
      /\ pc[u] \in TakePlaces /\ "read" \notin TakePlaces /\ "read" # "up free"
  BY <1>2 DEF ReadPlaces, ReaderPlaces, TakePlaces, WritePlaces, WriterPlaces
<1>4. FirstIsDecoded /\ FirstIsPassed /\ ~FirstIsDecoded' /\ ~FirstIsPassed'
  BY <1>1, <1>2, <1>3, FlagsMove
<1>5. /\ n > 0 /\ n \in Nat /\ n <= translate_bufsize /\ 1 \in 1 .. n
      /\ translate_bufsize \in Nat \ {0} /\ left[u] > 0 /\ Cell(1) = FirstPos
      /\ QueueView \in Seq(Bytes) /\ Len(QueueView) = n
  BY <1>1, <1>3, EndsOfQueue, PlacesInQueue, QueueTyped, SizeAssumption
<1>6. m \in Nat /\ n = m + 1 /\ m + 1 <= translate_bufsize
      /\ \A i \in 1 .. m : i + 1 \in 1 .. n /\ i + 1 # 1 /\ i \in 1 .. translate_bufsize - 1
  <2>1. m = n - 1  OBVIOUS
  <2> HIDE DEF n, m
  <2> QED  BY <1>5, <2>1
<1>7. FirstPos' = read_pos /\ read_pos \in Cells
  BY <1>1, <1>2, <1>4 DEF FirstPos, DeviceTypes
<1>8. \A i \in 1 .. translate_bufsize - 1 :
        (read_pos + i - 1) % translate_bufsize = Cell(i + 1)
  <2> TAKE i \in 1 .. translate_bufsize - 1
  <2> DEFINE k == i + 1
             x == read_pos + i - 1
             y == x % translate_bufsize
             z == Cell(k)
  <2>1. k \in 1 .. translate_bufsize /\ x \in Nat /\ x < 2 * translate_bufsize
    BY <1>5, <1>7 DEF Cells
  <2>2. /\ z \in Cells /\ FirstPos \in Cells
        /\ z = FirstPos + k - 1 \/ z = FirstPos + k - 1 - translate_bufsize
        /\ FirstPos = read_pos - 1 \/ FirstPos = read_pos - 1 + translate_bufsize
    BY <1>1, <1>4, <2>1, CellsInRow
  <2>3. x = read_pos + k - 2 /\ k \in Int  BY <1>7 DEF Cells
  <2> HIDE DEF x, k
  <2>4. y \in Cells /\ (y = x \/ y = x - translate_bufsize)
    BY <2>1, WrapsOnce
  <2> HIDE DEF y, z
  <2>5. y = z  BY <1>5, <1>7, <2>2, <2>3, <2>4 DEF Cells
  <2> QED  BY <2>5 DEF k, x, y, z
<1>9. \A i \in 1 .. m : (FirstPos' + i - 1) % translate_bufsize = Cell(i + 1)
  <2> HIDE DEF m, n
  <2> QED  BY <1>6, <1>7, <1>8
<1>10. StoredInv'
  <2> SUFFICES ASSUME NEW v \in Users, pc'[v] \in WriterPlaces
               PROVE  /\ pc'[v] = "encode" => buffer'[write_pos'] = Head(todo'[v])
                      /\ pc'[v] = "move write" =>
                           buffer'[write_pos'] = Stored(Head(todo[v]))'
                      /\ pc'[v] = "up items" =>
                           buffer'[Cell(QueueLength + 1)'] = Stored(Head(todo[v]))'
    BY DEF StoredInv, WriterPlaces
  <2>1. v # u /\ pc[v] = pc'[v]
    <3>1. pc'[u] = "read" /\ \A w \in Users : w # u => pc'[w] = pc[w]
      BY <1>1, <1>2, OthersStay
    <3> QED  BY <3>1 DEF WriterPlaces
  <2>2. n + 1 \in 1 .. translate_bufsize  BY <1>1, <2>1, EndsOfQueue
  <2>3. Cell(QueueLength + 1)' = Cell(n + 1)
    <3>1. n \in 1 .. translate_bufsize - 1
      <4> HIDE DEF n, m
      <4> QED  BY <1>5, <2>2
    <3>2. Cell(QueueLength + 1)' = (FirstPos' + (m + 1) - 1) % translate_bufsize
      BY <1>1 DEF Cell
    <3> HIDE DEF n, m
    <3>3. Cell(QueueLength + 1)' = (FirstPos' + n - 1) % translate_bufsize
      BY <1>6, <3>2
    <3> QED  BY <1>7, <1>8, <3>1, <3>3
  <2>4. Stored(Head(todo[v]))' = Stored(Head(todo[v]))  BY <1>2 DEF Stored
  <2>5. /\ pc'[v] = "encode" => buffer'[write_pos'] = Head(todo'[v])
        /\ pc'[v] = "move write" => buffer'[write_pos'] = Stored(Head(todo[v]))'
    BY <1>2, <2>1, <2>4 DEF QueueInv, StoredInv
  <2>6. pc'[v] = "up items" =>
          buffer'[Cell(QueueLength + 1)'] = Stored(Head(todo[v]))'
    BY <1>2, <2>1, <2>3, <2>4 DEF QueueInv, StoredInv
  <2> QED  BY <2>5, <2>6
<1>11. GotInv'
  <2>1. pc'[u] = "read" /\ \A v \in Users : v # u => pc'[v] \notin ReadPlaces
    BY <1>1, <1>2, <1>3, OthersStay
  <2> QED  BY <2>1 DEF GotInv, ReadPlaces, ReaderPlaces
<1>12. QueueView' = Tail(QueueView)
  <2>1. \A i \in 1 .. m :
          QueueView'[i] = IF minor = 1 THEN decode(buffer[Cell(i + 1)])
                                       ELSE buffer[Cell(i + 1)]
    <3>1. \A i \in 1 .. QueueLength' :
            QueueView'[i] = IF minor' = 1 /\ ~(i = 1 /\ FirstIsDecoded')
                              THEN decode(buffer'[(FirstPos' + i - 1) % translate_bufsize])
                              ELSE buffer'[(FirstPos' + i - 1) % translate_bufsize]
      BY DEF QueueView
    <3>2. minor' = minor /\ buffer' = buffer  BY <1>2
    <3> HIDE DEF FirstIsDecoded, QueueView, m, n
    <3> QED  BY <1>1, <1>4, <1>9, <3>1, <3>2
  <2>2. \A i \in 1 .. m :
          QueueView[i + 1] = IF minor = 1 THEN decode(buffer[Cell(i + 1)])
                                          ELSE buffer[Cell(i + 1)]
    <3> TAKE i \in 1 .. m
    <3> DEFINE k == i + 1
    <3>1. k \in 1 .. n /\ k # 1  BY <1>6
    <3> HIDE DEF k
    <3>2. QueueView[k] = IF minor = 1 THEN decode(buffer[Cell(k)]) ELSE buffer[Cell(k)]
      BY <3>1, QueueIs
    <3> QED  BY <3>2 DEF k
  <2> DEFINE q == Tail(QueueView)
  <2>3. q \in Seq(Bytes) /\ Len(q) = m /\ \A i \in 1 .. m : q[i] = QueueView[i + 1]
    <3>1. QueueView # <<>>  BY <1>5
    <3> HIDE DEF QueueView, n, m
    <3> QED  BY <1>5, <1>6, <3>1, HeadTailProperties
  <2> HIDE DEF q
  <2>4. \A i \in 1 .. m : QueueView'[i] = q[i]  BY <2>1, <2>2, <2>3
  <2>5. QueueView' = q  BY <1>1, <2>3, <2>4, QueueBecomes
  <2> QED  BY <2>5 DEF q
<1>13. /\ CallView' = CallView /\ CallView[u] = "read"
       /\ GotView' = [GotView EXCEPT ![u] = GotOf("read", got'[u])]
       /\ GotView[u] = GotOf("up free", got[u])
  <2>1. \A v \in Users : v # u => got'[v] = got[v]  BY <1>2
  <2>2. CallOf("read") = CallOf(pc[u]) /\ CallOf(pc[u]) = "read"  BY <1>3, CallOfPlaces
  <2> QED  BY <1>1, <1>2, <2>1, <2>2, ViewsMove
<1>14. GotView' = [GotView EXCEPT ![u] = Append(@, Head(QueueView))]
  <2>1. Head(QueueView) = buffer[FirstPos]
    <3>1. QueueView[1] = buffer[Cell(1)]  BY <1>4, <1>5, QueueIs
    <3>2. Head(QueueView) = QueueView[1]
      <4> HIDE DEF QueueView
      <4> QED  BY <1>5
    <3> QED  BY <1>5, <3>1, <3>2
  <2>2. got[u] # <<>> /\ got[u][Len(got[u])] = buffer[FirstPos]
    BY <1>2 DEF QueueInv, GotInv
  <2>3. got[u] \in Seq(Bytes)  BY <1>1 DEF DeviceTypes
  <2>4. Append(SubSeq(got[u], 1, Len(got[u]) - 1), buffer[FirstPos]) = got[u]
    BY <2>2, <2>3, LastTakenOff
  <2>5. GotOf("up free", got[u]) = SubSeq(got[u], 1, Len(got[u]) - 1)
        /\ GotOf("read", got'[u]) = got[u]
    BY <1>2 DEF GotOf
  <2> QED  BY <1>13, <2>1, <2>4, <2>5
<1>15. QueueView # <<>>  BY <1>5
<1> QED  BY <1>2, <1>5, <1>10, <1>11, <1>12, <1>13, <1>14, <1>15 DEF Fifo!Get

-----------------------------------------------------------------------------
(* The refinement *)

LEMMA QueueInit == Init => StoredInv /\ GotInv /\ Fifo!Init
<1> SUFFICES ASSUME Init PROVE StoredInv /\ GotInv /\ Fifo!Init
  OBVIOUS
<1>1. \A u \in Users : pc[u] = "closed"  BY DEF Init
<1>2. StoredInv /\ GotInv  BY <1>1, NoCallNoDebt
<1>3. QueueView = <<>>
  <2>1. QueueLength = 0  BY DEF Init, QueueLength
  <2> QED  BY <2>1, EmptyQueue
<1>4. CallView = [u \in Users |-> "none"]
  BY <1>1 DEF CallView, Writing, Reading
<1>5. GotView = [u \in Users |-> <<>>]  BY <1>1 DEF GotView, Init
<1> QED  BY <1>2, <1>3, <1>4, <1>5 DEF Init, Fifo!Init

LEMMA CallAsFifo ==
  ASSUME FullTable, QueueInv, NEW u \in Users,
         BeginWrite(u) \/ BeginRead(u) \/ Interrupted(u) \/ Proceed(u), ~overlapped'
  PROVE  StoredInv' /\ GotInv' /\ [Fifo!Next]_(Fifo!fifovars)
<1>1. CASE BeginWrite(u) \/ BeginRead(u)  BY <1>1, BeginAsFifo DEF Fifo!Next
<1>2. CASE Interrupted(u) \/ Done(u) \/ WouldBlock(u)
  BY <1>2, ReturnAsFifo DEF Fifo!Next
<1>3. CASE DownFree(u) \/ DownItems(u)  BY <1>3, DownAsFifo
<1>4. CASE CopyFromUser(u) \/ FailCopyFrom(u) \/ Encode(u)
  BY <1>4, CopyFromAsFifo DEF Fifo!Next
<1>5. CASE MoveWritePos(u)  BY <1>5, MoveWritePosAsFifo
<1>6. CASE UpItems(u)  BY <1>6, UpItemsAsFifo DEF Fifo!Next
<1>7. CASE Decode(u)  BY <1>7, DecodeAsFifo
<1>8. CASE CopyToUser(u)  BY <1>8, CopyToUserAsFifo
<1>9. CASE FailCopyTo(u)  BY <1>9, FailCopyToAsFifo DEF Fifo!Next
<1>10. CASE MoveReadPos(u)  BY <1>10, MoveReadPosAsFifo
<1>11. CASE UpFree(u)  BY <1>11, UpFreeAsFifo DEF Fifo!Next
<1> QED
  BY <1>1, <1>2, <1>3, <1>4, <1>5, <1>6, <1>7, <1>8, <1>9, <1>10, <1>11
  DEF Proceed, Write, Read

LEMMA StepAsFifo ==
  ASSUME FullTable, QueueInv, [Next]_vars, ~overlapped'
  PROVE  StoredInv' /\ GotInv' /\ [Fifo!Next \/ Reload]_(Fifo!fifovars)
<1>1. CASE translate_init \/ translate_cleanup  BY <1>1, LoadAsFifo
<1>2. ASSUME NEW u \in Users,
             BeginOpen(u) \/ TakeLock(u) \/ Refuse(u) \/ translate_release(u)
      PROVE  StoredInv' /\ GotInv' /\ [Fifo!Next \/ Reload]_(Fifo!fifovars)
  BY <1>2, OpenCloseAsFifo
<1>3. ASSUME NEW u \in Users,
             BeginWrite(u) \/ BeginRead(u) \/ Interrupted(u) \/ Proceed(u)
      PROVE  StoredInv' /\ GotInv' /\ [Fifo!Next \/ Reload]_(Fifo!fifovars)
  BY <1>3, CallAsFifo
<1>4. CASE UNCHANGED vars
  <2>1. /\ UNCHANGED <<minor, buffer, read_pos, write_pos, pc, todo, left, got>>
        /\ UNCHANGED <<loaded, itemsInBuffer>>
    BY <1>4 DEF vars, devs, counts, locals
  <2>2. QueueLength' = QueueLength  BY <2>1 DEF QueueLength, ReaderHolds
  <2>3. FirstPos' = FirstPos /\ (FirstIsDecoded' <=> FirstIsDecoded)
    BY <2>1 DEF FirstPos, FirstIsPassed, FirstIsDecoded
  <2>4. QueueView' = QueueView
    <3>1. \A i \in 1 .. QueueLength : buffer'[Cell(i)] = buffer[Cell(i)]  BY <2>1
    <3>2. UNCHANGED <<minor, FirstPos>>  BY <2>1, <2>3
    <3> QED  BY <2>2, <2>3, <3>1, <3>2, QueueStays
  <2>5. CallView' = CallView /\ GotView' = GotView
    BY <2>1 DEF CallView, GotView, Writing, Reading
  <2>6. StoredInv'
    <3>1. Cell(QueueLength + 1)' = Cell(QueueLength + 1)  BY <2>2, <2>3 DEF Cell
    <3> QED  BY <2>1, <3>1 DEF QueueInv, StoredInv, Stored
  <2>7. GotInv'  BY <2>1, <2>3 DEF QueueInv, GotInv
  <2> QED  BY <2>1, <2>4, <2>5, <2>6, <2>7 DEF Fifo!fifovars
<1> QED  BY <1>1, <1>2, <1>3, <1>4 DEF Next

\* Two reads that have overlapped stay on record.
LEMMA OverlapIsKept == overlapped /\ [Next]_vars => overlapped'
BY DEF Next, translate_init, translate_cleanup, BeginOpen, TakeLock, Refuse,
       translate_release, BeginWrite, BeginRead, Interrupted, Leaves, Proceed, Write, Read,
       Done, WouldBlock, DownFree, CopyFromUser, FailCopyFrom, Encode, MoveWritePos,
       UpItems, DownItems, Decode, CopyToUser, FailCopyTo, MoveReadPos, UpFree, vars

\* The blocking device is the same queue of translated bytes as the final one:
\* each byte whose up was made is counted out once, in order and translated
\* once, through waits, interrupted calls, failed copies and reopened files,
\* until the module is removed, or until two processes read at the same time,
\* one of them by a file opened for reading and writing (translate.c:85,
\* 151-380).
THEOREM TheBlockingDeviceIsAFifo ==
  ASSUME FullTable
  PROVE  Spec => ImplementsFifo
<1> DEFINE IInv == overlapped \/ QueueInv
<1>1. Init => IInv /\ Fifo!Init  BY CoreInit, QueueInit DEF QueueInv
<1>2. IInv /\ [Next]_vars =>
        IInv' /\ [overlapped' \/ Fifo!Next \/ Reload]_(Fifo!fifovars)
  <2> SUFFICES ASSUME IInv, [Next]_vars, ~overlapped'
               PROVE  QueueInv' /\ [Fifo!Next \/ Reload]_(Fifo!fifovars)
    OBVIOUS
  <2>1. QueueInv  BY OverlapIsKept
  <2>2. CoreInv'  BY <2>1, CoreStep DEF QueueInv
  <2> QED  BY <2>1, <2>2, StepAsFifo DEF QueueInv
<1> HIDE DEF IInv
<1> QED  BY <1>1, <1>2, PTL DEF Spec, ImplementsFifo
=============================================================================
