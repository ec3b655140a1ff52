-------------------------- MODULE BlockingTranslate --------------------------
(***************************************************************************)
(* A device of the blocking translate driver (Aufgabe4/vorlauf/translate/  *)
(* translate.c): two counting semaphores say how many characters are in    *)
(* the buffer and how much room is left.  The first character of a call    *)
(* waits for its semaphore and can be interrupted by a signal, the others  *)
(* only try it.  The driver counts its users itself, besides the kernel.   *)
(*                                                                         *)
(* dev->items is left out: it is counted without a lock and shown in debug *)
(* messages, but nothing depends on it.                                    *)
(***************************************************************************)
EXTENDS Integers, Sequences, FiniteSets

CONSTANTS Users,              \* the processes
          translate_bufsize,
          translate_subst,    \* the table, a function from positions
          TableSize,          \* strlen(translate_subst)
          Modes,              \* how they open the device, of "r", "w", "rw"
          Inputs,             \* the characters that are written
          MaxCount,           \* bound on the length of a call
          GoOn                \* bound: whether calls begin once two reads have
                              \* overlapped; nothing is said of the queue then

ASSUME SizeAssumption == /\ IsFiniteSet(Users)
                         /\ translate_bufsize \in Nat \ {0}
                         /\ MaxCount \in Nat
                         /\ TableSize \in Nat
                         /\ Modes \subseteq {"r", "w", "rw"}
                         /\ GoOn \in BOOLEAN

VARIABLES
  loaded,            \* the module is loaded
  usage,             \* its use count
  minor,             \* MINOR(dev->cdev.dev)
  buffer, read_pos, write_pos,
  writer_open_lock, reader_open_lock,
  itemsInBuffer, freeBufferSpace,
  mode,              \* the access mode of each process' file
  pc,                \* where each process is
  todo,              \* the characters its write has still to copy
  left,              \* how many its read has still to copy
  got,               \* what its read has copied
  itemsCopied,
  index,             \* writePointerIndex or readPointerIndex
  overlapped         \* (history) two reads have been under way at once

devs   == <<buffer, read_pos, write_pos>>
opens  == <<writer_open_lock, reader_open_lock>>
counts == <<itemsInBuffer, freeBufferSpace>>
locals == <<todo, left, got, itemsCopied, index>>
vars   == <<loaded, usage, minor, devs, opens, counts, mode, pc, locals,
            overlapped>>

Cells   == 0 .. translate_bufsize - 1

NextPos(i) == (i + 1) % translate_bufsize

Buffers == UNION {[1 .. n -> Inputs] : n \in 0 .. MaxCount}

-----------------------------------------------------------------------------
(* encode, decode and getEncodedCharIndex *)

LOWER_OFFSET == 97
UPPER_OFFSET == 39

getEncodedCharIndex(c) == IF c \in 65 .. 90 THEN c - UPPER_OFFSET
                          ELSE IF c \in 97 .. 122 THEN c - LOWER_OFFSET ELSE -1

encode(c) == LET i == getEncodedCharIndex(c)
             IN IF i >= 0 /\ i < TableSize THEN translate_subst[i] ELSE c

\* strchr also finds the NUL that ends the table.
Found(c) == {i \in 0 .. TableSize : IF i = TableSize THEN c = 0
                                                     ELSE translate_subst[i] = c}

\* (Faulty: the letters behind 'z' are taken to follow it.)
FromLower(i) == 97 + i

FromIndex(i) == IF 97 + i > 122 THEN UPPER_OFFSET + i ELSE 97 + i

decode(c) == IF Found(c) = {} THEN c
             ELSE FromIndex(CHOOSE i \in Found(c) : \A j \in Found(c) : i <= j)

-----------------------------------------------------------------------------
(* translate_init and translate_cleanup *)

Init == /\ loaded = FALSE /\ usage = 0 /\ minor \in {0, 1}
        /\ buffer = [c \in Cells |-> 0] /\ read_pos = 0 /\ write_pos = 0
        /\ writer_open_lock = 0 /\ reader_open_lock = 0
        /\ itemsInBuffer = 0 /\ freeBufferSpace = 0
        /\ mode = [u \in Users |-> "none"] /\ pc = [u \in Users |-> "closed"]
        /\ todo = [u \in Users |-> <<>>] /\ left = [u \in Users |-> 0]
        /\ got = [u \in Users |-> <<>>] /\ itemsCopied = [u \in Users |-> 0]
        /\ index = [u \in Users |-> 0] /\ overlapped = FALSE

\* translate_init that gets all it asks for.  One that fails takes everything
\* back; TranslateModule shows such an init step by step.
translate_init ==
  /\ ~loaded
  /\ loaded' = TRUE
  /\ writer_open_lock' = 1 /\ reader_open_lock' = 1
  /\ itemsInBuffer' = 0 /\ freeBufferSpace' = translate_bufsize
  /\ read_pos' = 0 /\ write_pos' = 0
  /\ UNCHANGED <<usage, minor, overlapped, buffer, mode, pc, locals>>

\* rmmod: the kernel calls translate_cleanup when the use count is 0.
translate_cleanup ==
  /\ loaded /\ usage = 0
  /\ loaded' = FALSE
  /\ read_pos' = 0 /\ write_pos' = 0
  /\ buffer' = [c \in Cells |-> 0]
  /\ UNCHANGED <<usage, minor, overlapped, opens, counts, mode, pc, locals>>

-----------------------------------------------------------------------------
(* translate_open and translate_release *)

Goto(u, at) == pc' = [pc EXCEPT ![u] = at]

\* FMODE_WRITE is set.
Writes(m) == m \in {"w", "rw"}

\* The kernel's reference for .owner, and try_module_get.
BeginOpen(u) == \E m \in Modes :
  /\ pc[u] = "closed" /\ loaded
  /\ usage' = usage + 2
  /\ mode' = [mode EXCEPT ![u] = m]
  /\ Goto(u, "opening")
  /\ UNCHANGED <<loaded, minor, overlapped, devs, opens, counts, locals>>

\* down_trylock of the lock for the mode: a file that is opened for reading and
\* writing takes the writers' lock alone.
TakeLock(u) ==
  /\ pc[u] = "opening"
  /\ IF Writes(mode[u])
       THEN /\ writer_open_lock > 0
            /\ writer_open_lock' = writer_open_lock - 1
            /\ UNCHANGED reader_open_lock
       ELSE /\ reader_open_lock > 0
            /\ reader_open_lock' = reader_open_lock - 1
            /\ UNCHANGED writer_open_lock
  /\ Goto(u, "open")
  /\ UNCHANGED <<loaded, usage, minor, overlapped, devs, counts, mode, locals>>

\* (Faulty: only the kernel's reference is returned.)
RefuseWithoutPut(u) ==
  /\ pc[u] = "opening"
  /\ (IF Writes(mode[u]) THEN writer_open_lock ELSE reader_open_lock) = 0
  /\ usage' = usage - 1
  /\ mode' = [mode EXCEPT ![u] = "none"]
  /\ Goto(u, "closed")
  /\ UNCHANGED <<loaded, minor, overlapped, devs, opens, counts, locals>>

\* -EBUSY: module_put, and the kernel returns its reference.
Refuse(u) ==
  /\ pc[u] = "opening"
  /\ (IF Writes(mode[u]) THEN writer_open_lock ELSE reader_open_lock) = 0
  /\ usage' = usage - 2
  /\ mode' = [mode EXCEPT ![u] = "none"]
  /\ Goto(u, "closed")
  /\ UNCHANGED <<loaded, minor, overlapped, devs, opens, counts, locals>>

translate_release(u) ==
  /\ pc[u] = "open"
  /\ IF Writes(mode[u])
       THEN /\ writer_open_lock' = writer_open_lock + 1
            /\ UNCHANGED reader_open_lock
       ELSE /\ reader_open_lock' = reader_open_lock + 1
            /\ UNCHANGED writer_open_lock
  /\ usage' = usage - 2
  /\ mode' = [mode EXCEPT ![u] = "none"]
  /\ Goto(u, "closed")
  /\ UNCHANGED <<loaded, minor, overlapped, devs, counts, locals>>

-----------------------------------------------------------------------------
(* Calls in general *)

\* A call returns: a count, -EFAULT or -ERESTARTSYS.
Leaves(u) == /\ Goto(u, "open")
             /\ todo' = [todo EXCEPT ![u] = <<>>]
             /\ left' = [left EXCEPT ![u] = 0]
             /\ got' = [got EXCEPT ![u] = <<>>]
             /\ itemsCopied' = [itemsCopied EXCEPT ![u] = 0]
             /\ index' = [index EXCEPT ![u] = 0]
             /\ UNCHANGED <<loaded, usage, minor, overlapped, devs, opens,
                            mode>>

\* The loop ends.
Done(u) == /\ \/ pc[u] = "write" /\ todo[u] = <<>>
              \/ pc[u] = "read" /\ left[u] = 0
           /\ Leaves(u) /\ UNCHANGED counts

MayBegin == overlapped => GoOn

\* The semaphore a call needs next.
Needs(u) == IF pc[u] = "write" THEN freeBufferSpace ELSE itemsInBuffer

\* The loop goes on.
Loops(u) == \/ pc[u] = "write" /\ todo[u] # <<>>
            \/ pc[u] = "read" /\ left[u] > 0

\* (Faulty: every character is waited for.)
WaitsForAll(u) == itemsCopied[u] <= MaxCount

\* Only the first character is waited for.
Waits(u) == itemsCopied[u] = 0

\* down_trylock fails: the call returns what it has copied.
WouldBlock(u) == /\ Loops(u) /\ ~Waits(u) /\ Needs(u) = 0
                 /\ Leaves(u) /\ UNCHANGED counts

\* A signal interrupts down_interruptible: -ERESTARTSYS.
Interrupted(u) == /\ Loops(u) /\ Waits(u) /\ Needs(u) = 0
                  /\ Leaves(u) /\ UNCHANGED counts

-----------------------------------------------------------------------------
(* translate_write *)

BeginWrite(u) == \E buf \in Buffers :
  /\ pc[u] = "open" /\ Writes(mode[u]) /\ MayBegin
  /\ todo' = [todo EXCEPT ![u] = buf]
  /\ index' = [index EXCEPT ![u] = write_pos]
  /\ Goto(u, "write")
  /\ UNCHANGED <<loaded, usage, minor, overlapped, devs, opens, counts, mode,
                 left, got, itemsCopied>>

\* down_interruptible or down_trylock of freeBufferSpace.
DownFree(u) == /\ pc[u] = "write" /\ todo[u] # <<>> /\ freeBufferSpace > 0
               /\ freeBufferSpace' = freeBufferSpace - 1
               /\ Goto(u, "from user")
               /\ UNCHANGED <<loaded, usage, minor, overlapped, devs, opens,
                              itemsInBuffer, mode, locals>>

CopyFromUser(u) == /\ pc[u] = "from user"
                   /\ buffer' = [buffer EXCEPT ![write_pos] = Head(todo[u])]
                   /\ Goto(u, "encode")
                   /\ UNCHANGED <<loaded, usage, minor, overlapped, read_pos,
                                  write_pos, opens,
                                  counts, mode, locals>>

\* copy_from_user fails (the kernel fills the cell with 0); the room is given
\* back.
FailCopyFrom(u) == /\ pc[u] = "from user"
                   /\ freeBufferSpace' = freeBufferSpace + 1
                   /\ Goto(u, "open")
                   /\ buffer' = [buffer EXCEPT ![write_pos] = 0]
                   /\ todo' = [todo EXCEPT ![u] = <<>>]
                   /\ itemsCopied' = [itemsCopied EXCEPT ![u] = 0]
                   /\ index' = [index EXCEPT ![u] = 0]
                   /\ UNCHANGED <<loaded, usage, minor, overlapped, read_pos,
                                  write_pos, opens,
                                  itemsInBuffer, mode,
                                  left, got>>

\* translate0 encodes in place.
Encode(u) == /\ pc[u] = "encode"
             /\ buffer' = [buffer EXCEPT ![write_pos] =
                             IF minor = 0 THEN encode(@) ELSE @]
             /\ Goto(u, "move write")
             /\ UNCHANGED <<loaded, usage, minor, overlapped, read_pos,
                            write_pos, opens, counts, mode,
                            locals>>

MoveWritePos(u) ==
  /\ pc[u] = "move write"
  /\ itemsCopied' = [itemsCopied EXCEPT ![u] = @ + 1]
  /\ write_pos' = NextPos(index[u])
  /\ index' = [index EXCEPT ![u] = write_pos']
  /\ Goto(u, "up items")
  /\ UNCHANGED <<loaded, usage, minor, overlapped, buffer, read_pos, opens,
                 counts, mode, todo, left, got>>

UpItems(u) == /\ pc[u] = "up items"
              /\ todo' = [todo EXCEPT ![u] = Tail(@)]
              /\ itemsInBuffer' = itemsInBuffer + 1
              /\ Goto(u, "write")
              /\ UNCHANGED <<loaded, usage, minor, overlapped, devs, opens,
                             freeBufferSpace, mode, left, got,
                             itemsCopied, index>>

-----------------------------------------------------------------------------
(* translate_read *)

Reading(u) == pc[u] \in {"read", "decode", "to user", "move read", "up free"}

BeginRead(u) == \E count \in 0 .. MaxCount :
  /\ pc[u] = "open" /\ mode[u] \in {"r", "rw"} /\ MayBegin
  /\ left' = [left EXCEPT ![u] = count]
  /\ index' = [index EXCEPT ![u] = read_pos]
  /\ overlapped' = (overlapped \/ \E v \in Users : Reading(v))
  /\ Goto(u, "read")
  /\ UNCHANGED <<loaded, usage, minor, devs, opens, counts, mode, todo, got,
                 itemsCopied>>

\* down_interruptible or down_trylock of itemsInBuffer.
DownItems(u) == /\ pc[u] = "read" /\ left[u] > 0 /\ itemsInBuffer > 0
                /\ itemsInBuffer' = itemsInBuffer - 1
                /\ Goto(u, "decode")
                /\ UNCHANGED <<loaded, usage, minor, overlapped, devs, opens,
                               freeBufferSpace, mode,
                               locals>>

\* translate1 decodes in place.
Decode(u) == /\ pc[u] = "decode"
             /\ buffer' = [buffer EXCEPT ![read_pos] =
                             IF minor = 1 THEN decode(@) ELSE @]
             /\ Goto(u, "to user")
             /\ UNCHANGED <<loaded, usage, minor, overlapped, read_pos,
                            write_pos, opens, counts, mode,
                            locals>>

CopyToUser(u) == /\ pc[u] = "to user"
                 /\ got' = [got EXCEPT ![u] = Append(@, buffer[read_pos])]
                 /\ Goto(u, "move read")
                 /\ UNCHANGED <<loaded, usage, minor, overlapped, devs, opens,
                                counts, mode, todo, left,
                                itemsCopied, index>>

\* (Faulty: the character that was not delivered is not counted any more.)
FailWithoutUp(u) == pc[u] = "to user" /\ Leaves(u) /\ UNCHANGED counts

\* copy_to_user fails: the character stays in the buffer.
FailCopyTo(u) == /\ pc[u] = "to user"
                 /\ itemsInBuffer' = itemsInBuffer + 1
                 /\ Leaves(u)
                 /\ UNCHANGED freeBufferSpace

MoveReadPos(u) ==
  /\ pc[u] = "move read"
  /\ itemsCopied' = [itemsCopied EXCEPT ![u] = @ + 1]
  /\ read_pos' = NextPos(index[u])
  /\ index' = [index EXCEPT ![u] = read_pos']
  /\ Goto(u, "up free")
  /\ UNCHANGED <<loaded, usage, minor, overlapped, buffer, write_pos, opens,
                 counts, mode, todo, left, got>>

UpFree(u) == /\ pc[u] = "up free"
             /\ left' = [left EXCEPT ![u] = @ - 1]
             /\ freeBufferSpace' = freeBufferSpace + 1
             /\ Goto(u, "read")
             /\ UNCHANGED <<loaded, usage, minor, overlapped, devs, opens,
                            itemsInBuffer, mode, todo, got,
                            itemsCopied, index>>

-----------------------------------------------------------------------------

Write(u) == \/ DownFree(u) \/ CopyFromUser(u) \/ FailCopyFrom(u) \/ Encode(u)
            \/ MoveWritePos(u) \/ UpItems(u)

Read(u) == \/ DownItems(u) \/ Decode(u) \/ CopyToUser(u) \/ FailCopyTo(u)
           \/ MoveReadPos(u) \/ UpFree(u)

\* What a process in a call does as soon as it can.
Proceed(u) == Write(u) \/ Read(u) \/ Done(u) \/ WouldBlock(u)

Next == \/ translate_init \/ translate_cleanup
        \/ \E u \in Users :
             \/ BeginOpen(u) \/ TakeLock(u) \/ Refuse(u) \/ translate_release(u)
             \/ BeginWrite(u) \/ BeginRead(u) \/ Interrupted(u) \/ Proceed(u)

\* A process in a call runs when it can; up() wakes the one that waits.
Spec == Init /\ [][Next]_vars /\ \A u \in Users : WF_vars(Proceed(u))
=============================================================================
