--------------------------- MODULE TranslateDevice ---------------------------
(***************************************************************************)
(* One device of the translate driver (Aufgabe4_final/translate.c) and the *)
(* processes that use it: open, close, write and read.  Nothing is locked  *)
(* between open and close, so a writer and a reader interleave at each     *)
(* access to the device.  A process uses a file by one call at a time.     *)
(***************************************************************************)
EXTENDS TranslateCodec, Sequences, FiniteSets

CONSTANTS Users,             \* the processes
          Modes,             \* how they open the device, of "r", "w", "rw"
          translate_bufsize,
          translate_subst,
          Inputs,            \* the characters they write
          Leftovers,         \* what kmalloc may leave in the buffer
          MaxCount,          \* bound on the length of a call
          GoOn,              \* bound: whether calls begin once two of them
                             \* have overlapped; nothing is said of items then
          SMP                \* whether items++ and items-- of two processors
                             \* can overlap; on one they are one instruction

ASSUME SizeAssumption == /\ translate_bufsize \in Nat \ {0}
                         /\ MaxCount \in Nat

ASSUME UseAssumption == /\ translate_subst \in Substs
                        /\ Inputs \subseteq Char
                        /\ Leftovers \subseteq Char
                        /\ Modes \subseteq {"r", "w", "rw"}
                        /\ {SMP, GoOn} \subseteq BOOLEAN

VARIABLES
  minor,             \* MINOR(dev->cdev.dev)
  buffer,
  items,
  read_pos,          \* as an index into the buffer
  write_pos,
  writer_open_lock,
  reader_open_lock,
  mode,              \* filp->f_mode of each process, "none" if it has no file
  pc,                \* where each process is
  todo,              \* the characters its write has still to copy
  left,              \* how many its read has still to copy
  got,               \* what its read has copied to it
  pos,               \* p_writer or p_reader
  loaded,            \* items, as it was when items++ or items-- began
  overlapped         \* (history) two reads have been under way at once, or an
                     \* items++ and an items-- have overlapped

device == <<minor, buffer, items, read_pos, write_pos>>
locks  == <<writer_open_lock, reader_open_lock>>
locals == <<todo, left, got, pos, loaded>>
vars   == <<device, locks, mode, pc, locals, overlapped>>

Cells   == 0 .. translate_bufsize - 1
Buffers == UNION {[1 .. n -> Inputs] : n \in 0 .. MaxCount}

NUM_SIMULT_ACCESS_USERS == 1

\* (Faulty: the modulo is forgotten.)
NextWithoutModulo(i) == i + 1
NextPos(i) == (i + 1) % translate_bufsize

Init ==
  /\ minor \in {0, 1}
  /\ buffer \in [Cells -> Leftovers]
  /\ items = 0 /\ read_pos = 0 /\ write_pos = 0
  /\ writer_open_lock = NUM_SIMULT_ACCESS_USERS
  /\ reader_open_lock = NUM_SIMULT_ACCESS_USERS
  /\ mode = [u \in Users |-> "none"]
  /\ pc = [u \in Users |-> "closed"]
  /\ todo = [u \in Users |-> <<>>]
  /\ left = [u \in Users |-> 0]
  /\ got = [u \in Users |-> <<>>]
  /\ pos = [u \in Users |-> 0]
  /\ loaded = [u \in Users |-> 0]
  /\ overlapped = FALSE

Goto(u, at) == pc' = [pc EXCEPT ![u] = at]

\* A call returns, with a count or with -EFAULT.
Leaves(u) == /\ Goto(u, "open")
             /\ todo' = [todo EXCEPT ![u] = <<>>]
             /\ left' = [left EXCEPT ![u] = 0]
             /\ got' = [got EXCEPT ![u] = <<>>]
             /\ pos' = [pos EXCEPT ![u] = 0]
             /\ loaded' = [loaded EXCEPT ![u] = 0]

-----------------------------------------------------------------------------
(* translate_open and translate_close *)

\* FMODE_WRITE is set.
Writes(m) == m \in {"w", "rw"}

\* (Faulty: the readers' lock is only looked at.)
LookAtReaderLock == reader_open_lock > 0 /\ UNCHANGED reader_open_lock
DownReaderLock == /\ reader_open_lock > 0
                  /\ reader_open_lock' = reader_open_lock - 1

\* down_trylock of one lock; -EBUSY changes nothing.
Open(u) == \E m \in Modes :
  /\ pc[u] = "closed"
  /\ IF Writes(m) THEN /\ writer_open_lock > 0
                       /\ writer_open_lock' = writer_open_lock - 1
                       /\ UNCHANGED reader_open_lock
                  ELSE DownReaderLock /\ UNCHANGED writer_open_lock
  /\ mode' = [mode EXCEPT ![u] = m]
  /\ Goto(u, "open")
  /\ UNCHANGED <<device, overlapped, locals>>

Close(u) ==
  /\ pc[u] = "open"
  /\ IF Writes(mode[u]) THEN /\ writer_open_lock' = writer_open_lock + 1
                             /\ UNCHANGED reader_open_lock
                        ELSE /\ reader_open_lock' = reader_open_lock + 1
                             /\ UNCHANGED writer_open_lock
  /\ mode' = [mode EXCEPT ![u] = "none"]
  /\ Goto(u, "closed")
  /\ UNCHANGED <<device, overlapped, locals>>

-----------------------------------------------------------------------------
(* Calls that disturb each other *)

ReadPlaces == {"checkEmpty", "decode", "copyTo", "moveRead", "decItems"}

ReadsOverlap == \E v \in Users : pc[v] \in ReadPlaces

\* Another process is between the load and the store of items.
CountsOverlap == SMP /\ \E v \in Users : pc[v] \in {"incItems", "decItems"}

MayBegin == overlapped => GoOn

-----------------------------------------------------------------------------
(* translate_write *)

BeginWrite(u) == \E buf \in Buffers :
  /\ pc[u] = "open" /\ Writes(mode[u]) /\ MayBegin
  /\ todo' = [todo EXCEPT ![u] = buf]
  /\ pos' = [pos EXCEPT ![u] = write_pos]
  /\ Goto(u, "checkFull")
  /\ UNCHANGED <<device, locks, mode, overlapped, left, got, loaded>>

\* (Faulty: full one character too late.)
OverFull == items = translate_bufsize + 1
IsFull   == items = translate_bufsize

\* The loop's condition, and the test of items.
CheckFull(u) ==
  /\ pc[u] = "checkFull"
  /\ IF todo[u] = <<>> \/ IsFull
       THEN Leaves(u)
       ELSE Goto(u, "copyFrom") /\ UNCHANGED locals
  /\ UNCHANGED <<device, locks, mode, overlapped>>

\* copy_from_user succeeds, or it fails, fills with zero what it could not copy,
\* and the call returns -EFAULT.
CopyFromUser(u) ==
  /\ pc[u] = "copyFrom"
  /\ buffer' = [buffer EXCEPT ![write_pos] = Head(todo[u])]
  /\ Goto(u, "encode")
  /\ UNCHANGED <<minor, items, read_pos, write_pos, locks, mode, overlapped,
                 locals>>

FailCopyFrom(u) ==
  /\ pc[u] = "copyFrom"
  /\ buffer' = [buffer EXCEPT ![write_pos] = NUL]
  /\ Leaves(u)
  /\ UNCHANGED <<minor, items, read_pos, write_pos, locks, mode, overlapped>>

\* encode_char, for translate0.
Encode(u) ==
  /\ pc[u] = "encode"
  /\ buffer' = IF minor = 0
                 THEN [buffer EXCEPT ![write_pos] =
                         encode_char(translate_subst, @)]
                 ELSE buffer
  /\ Goto(u, "moveWrite")
  /\ UNCHANGED <<minor, items, read_pos, write_pos, locks, mode, overlapped,
                 locals>>

\* The write pointer moves on.  items++ begins: its load of items.
MoveWritePos(u) ==
  /\ pc[u] = "moveWrite"
  /\ write_pos' = NextPos(pos[u])
  /\ pos' = [pos EXCEPT ![u] = NextPos(@)]
  /\ loaded' = [loaded EXCEPT ![u] = items]
  /\ overlapped' = (overlapped \/ CountsOverlap)
  /\ Goto(u, "incItems")
  /\ UNCHANGED <<minor, buffer, items, read_pos, locks, mode, todo, left, got>>

\* What the addition to items works on.
Operand(u) == IF SMP THEN loaded[u] ELSE items

\* (Faulty: the last character of a call is not counted.)
IncUnlessLast(u) ==
  /\ pc[u] = "incItems"
  /\ items' = IF Len(todo[u]) = 1 THEN items ELSE Operand(u) + 1
  /\ todo' = [todo EXCEPT ![u] = Tail(@)]
  /\ Goto(u, "checkFull")
  /\ UNCHANGED <<minor, buffer, read_pos, write_pos, locks, mode, overlapped,
                 left, got, pos, loaded>>

\* items++, num_copied_items++ and buf++.
IncItems(u) ==
  /\ pc[u] = "incItems"
  /\ items' = Operand(u) + 1
  /\ todo' = [todo EXCEPT ![u] = Tail(@)]
  /\ Goto(u, "checkFull")
  /\ UNCHANGED <<minor, buffer, read_pos, write_pos, locks, mode, overlapped,
                 left, got, pos, loaded>>

-----------------------------------------------------------------------------
(* translate_read *)

BeginRead(u) == \E count \in 0 .. MaxCount :
  /\ pc[u] = "open" /\ mode[u] \in {"r", "rw"} /\ MayBegin
  /\ left' = [left EXCEPT ![u] = count]
  /\ pos' = [pos EXCEPT ![u] = read_pos]
  /\ overlapped' = (overlapped \/ ReadsOverlap)
  /\ Goto(u, "checkEmpty")
  /\ UNCHANGED <<device, locks, mode, todo, got, loaded>>

CheckEmpty(u) ==
  /\ pc[u] = "checkEmpty"
  /\ IF left[u] = 0 \/ items = 0
       THEN Leaves(u)
       ELSE Goto(u, "decode") /\ UNCHANGED locals
  /\ UNCHANGED <<device, locks, mode, overlapped>>

\* decode_char, in the buffer, for translate1.
Decode(u) ==
  /\ pc[u] = "decode"
  /\ buffer' = IF minor = 1
                 THEN [buffer EXCEPT ![read_pos] =
                         decode_char(translate_subst, @)]
                 ELSE buffer
  /\ Goto(u, "copyTo")
  /\ UNCHANGED <<minor, items, read_pos, write_pos, locks, mode, overlapped,
                 locals>>

CopyToUser(u) ==
  /\ pc[u] = "copyTo"
  /\ got' = [got EXCEPT ![u] = Append(@, buffer[read_pos])]
  /\ Goto(u, "moveRead")
  /\ UNCHANGED <<device, locks, mode, overlapped, todo, left, pos, loaded>>

FailCopyTo(u) ==
  /\ pc[u] = "copyTo"
  /\ Leaves(u)
  /\ UNCHANGED <<device, locks, mode, overlapped>>

MoveReadPos(u) ==
  /\ pc[u] = "moveRead"
  /\ read_pos' = NextPos(pos[u])
  /\ pos' = [pos EXCEPT ![u] = NextPos(@)]
  /\ loaded' = [loaded EXCEPT ![u] = items]
  /\ overlapped' = (overlapped \/ CountsOverlap)
  /\ Goto(u, "decItems")
  /\ UNCHANGED <<minor, buffer, items, write_pos, locks, mode, todo, left,
                 got>>

\* items--, num_copied_items++ and buf++.
DecItems(u) ==
  /\ pc[u] = "decItems"
  /\ items' = Operand(u) - 1
  /\ left' = [left EXCEPT ![u] = @ - 1]
  /\ Goto(u, "checkEmpty")
  /\ UNCHANGED <<minor, buffer, read_pos, write_pos, locks, mode, overlapped,
                 todo, got, pos, loaded>>

-----------------------------------------------------------------------------

Step(u) ==
  \/ Open(u) \/ Close(u)
  \/ BeginWrite(u) \/ CheckFull(u) \/ CopyFromUser(u) \/ FailCopyFrom(u)
  \/ Encode(u) \/ MoveWritePos(u) \/ IncItems(u)
  \/ BeginRead(u) \/ CheckEmpty(u) \/ Decode(u) \/ CopyToUser(u)
  \/ FailCopyTo(u) \/ MoveReadPos(u) \/ DecItems(u)

Next == \E u \in Users : Step(u)

Spec == Init /\ [][Next]_vars
=============================================================================
