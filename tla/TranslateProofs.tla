--------------------------- MODULE TranslateProofs ---------------------------
(***************************************************************************)
(* Proofs about the codec and the device of the translate driver.          *)
(***************************************************************************)
EXTENDS TranslateProperties, FiniteSetTheorems, SequenceTheorems, TLAPS

-----------------------------------------------------------------------------
(* The codec *)

\* The index of a letter is a position of the table.
LEMMA IndexOfLetter ==
  ASSUME NEW c \in Letters
  PROVE  /\ encode_index_from_char(c) \in Positions
         /\ encode_index_from_char(c) # NEUTRAL_CHAR_INDEX
BY CaseSizeAssumption
DEF encode_index_from_char, Letters, UpperCase, LowerCase, Positions,
    TRANSLATE_SUBSTR_LEN, UPPER_CASE_ASCII, LOWER_CASE_ASCII,
    UPPER_CASE_SUBSTR_OFFSET, LOWER_CASE_SUBSTR_OFFSET, NEUTRAL_CHAR_INDEX

\* decode_from_index undoes encode_index_from_char.
LEMMA LetterOfIndex ==
  ASSUME NEW c \in Letters
  PROVE  decode_from_index(encode_index_from_char(c)) = c
BY CaseSizeAssumption
DEF encode_index_from_char, decode_from_index, Letters, UpperCase, LowerCase,
    TRANSLATE_SUBSTR_LEN, UPPER_CASE_ASCII, LOWER_CASE_ASCII,
    UPPER_CASE_SUBSTR_OFFSET, LOWER_CASE_SUBSTR_OFFSET, NEUTRAL_CHAR_INDEX

\* strchr finds the character of a position at that position.
LEMMA FoundWhereItIs ==
  ASSUME NEW s \in Substs, NEW i \in Positions
  PROVE  /\ Occurrences(s, s[i]) = {i}
         /\ FirstOccurrence(s, s[i]) = i
<1>1. s[i] # NUL
  BY CaseSizeAssumption
  DEF Substs, Letters, UpperCase, LowerCase, UPPER_CASE_ASCII,
      LOWER_CASE_ASCII, NUL
<1>2. Occurrences(s, s[i]) = {i}
  BY <1>1 DEF Occurrences, Substs
<1>3. i <= i
  BY DEF Positions
<1> QED BY <1>2, <1>3 DEF FirstOccurrence

\* What is not a letter is left alone by both functions, NUL excepted.
LEMMA OtherCharacters ==
  ASSUME NEW s \in Substs, NEW c \in Char \ Letters, c # NUL
  PROVE  encode_char(s, c) = c /\ decode_char(s, c) = c
<1>1. encode_index_from_char(c) = NEUTRAL_CHAR_INDEX
  BY DEF encode_index_from_char, Letters
<1>2. Occurrences(s, c) = {}
  BY DEF Occurrences, Substs
<1> QED BY <1>1, <1>2 DEF encode_char, decode_char

\* decode_char undoes encode_char for every char but NUL, for every table that
\* holds each letter once and for every number of letters (translate.c:23-59).
THEOREM CodecRoundTrip ==
  ASSUME NEW s \in Substs, NEW c \in Char, c # NUL
  PROVE  decode_char(s, encode_char(s, c)) = c
<1>1. CASE c \in Letters
  <2> DEFINE i == encode_index_from_char(c)
  <2>1. i \in Positions /\ i # NEUTRAL_CHAR_INDEX
    BY <1>1, IndexOfLetter
  <2>2. encode_char(s, c) = s[i]
    BY <2>1 DEF encode_char
  <2>3. decode_char(s, s[i]) = decode_from_index(i)
    BY <2>1, FoundWhereItIs DEF decode_char
  <2> QED BY <1>1, <2>2, <2>3, LetterOfIndex
<1>2. CASE c \notin Letters
  BY <1>2, OtherCharacters
<1> QED BY <1>1, <1>2

LEMMA LettersAreChar == Letters \subseteq Char
BY CaseSizeAssumption
DEF Letters, UpperCase, LowerCase, Char, UPPER_CASE_ASCII, LOWER_CASE_ASCII

\* Both functions stay within the type char.
LEMMA CodecType ==
  ASSUME NEW c \in Char
  PROVE  /\ encode_char(translate_subst, c) \in Char
         /\ decode_char(translate_subst, c) \in Char
<1>1. encode_char(translate_subst, c) \in Char
  <2>1. CASE c \in Letters
    BY <2>1, IndexOfLetter, UseAssumption, LettersAreChar
    DEF encode_char, Substs
  <2>2. CASE c \notin Letters
    BY <2>2 DEF encode_char, encode_index_from_char, Letters
  <2> QED BY <2>1, <2>2
<1>2. decode_char(translate_subst, c) \in Char
  <2>1. CASE Occurrences(translate_subst, c) = {}
    BY <2>1 DEF decode_char
  <2>2. CASE c = NUL
    <3>1. Occurrences(translate_subst, c) = {TRANSLATE_SUBSTR_LEN}
      BY <2>2, UseAssumption, CaseSizeAssumption
      DEF Occurrences, Substs, Letters, UpperCase, LowerCase, NUL,
          UPPER_CASE_ASCII, LOWER_CASE_ASCII
    <3>2. TRANSLATE_SUBSTR_LEN <= TRANSLATE_SUBSTR_LEN
      BY CaseSizeAssumption DEF TRANSLATE_SUBSTR_LEN
    <3>3. FirstOccurrence(translate_subst, c) = TRANSLATE_SUBSTR_LEN
      BY <3>1, <3>2 DEF FirstOccurrence
    <3> QED BY <3>1, <3>3, CaseSizeAssumption
            DEF decode_char, decode_from_index, TRANSLATE_SUBSTR_LEN, Char,
                UPPER_CASE_ASCII, LOWER_CASE_ASCII,
                UPPER_CASE_SUBSTR_OFFSET, LOWER_CASE_SUBSTR_OFFSET
  <2>3. CASE c # NUL /\ Occurrences(translate_subst, c) # {}
    <3>1. PICK i \in Positions : translate_subst[i] = c
      BY <2>3 DEF Occurrences
    <3>2. FirstOccurrence(translate_subst, c) \in Positions
      BY <3>1, FoundWhereItIs, UseAssumption
    <3> QED BY <2>3, <3>2, CaseSizeAssumption
            DEF decode_char, decode_from_index, Positions, Char,
                TRANSLATE_SUBSTR_LEN, UPPER_CASE_ASCII, LOWER_CASE_ASCII,
                UPPER_CASE_SUBSTR_OFFSET, LOWER_CASE_SUBSTR_OFFSET
  <2> QED BY <2>1, <2>2, <2>3
<1> QED BY <1>1, <1>2

-----------------------------------------------------------------------------
(* The device *)

\* The pointers wrap around.
LEMMA NextPosWraps ==
  ASSUME NEW i \in Cells
  PROVE  /\ NextPos(i) = IF i + 1 = translate_bufsize THEN 0 ELSE i + 1
         /\ NextPos(i) \in Cells
BY SizeAssumption DEF NextPos, Cells

\* The process that writes is alone with that.
LEMMA OneWriter ==
  ASSUME LockInv, NEW u \in Users, NEW v \in Users,
         pc[u] \in WritePlaces, pc[v] \in WritePlaces
  PROVE  u = v
BY DEF LockInv

\* Until calls overlap, no two processes are in a write, nor in a read.
LEMMA OneCallPerPort ==
  ASSUME DeviceInv, NEW u \in Users, NEW v \in Users
  PROVE  /\ pc[u] \in WritePlaces /\ pc[v] \in WritePlaces => u = v
         /\ pc[u] \in ReadPlaces /\ pc[v] \in ReadPlaces => u = v
BY OneWriter DEF DeviceInv, CallInv

\* An overlap stays on record.
LEMMA OverlapIsKept == overlapped /\ [Next]_vars => overlapped'
<1> SUFFICES ASSUME overlapped, [Next]_vars PROVE overlapped'
  OBVIOUS
<1>1. ASSUME NEW u \in Users, Step(u) PROVE overlapped'
  BY <1>1
  DEF Step, Open, Close, BeginWrite, CheckFull, CopyFromUser, FailCopyFrom,
      Encode, MoveWritePos, IncItems, BeginRead, CheckEmpty, Decode, CopyToUser,
      FailCopyTo, MoveReadPos, DecItems
<1> QED BY <1>1 DEF Next, vars

LEMMA DeviceInit == Init => DeviceInv
<1> SUFFICES ASSUME Init PROVE DeviceInv
  OBVIOUS
<1>1. TypeOK
  <2>1. 0 \in 0 .. translate_bufsize /\ 0 \in 0 .. MaxCount /\ 0 \in Cells
    BY SizeAssumption DEF Cells
  <2>2. buffer \in [Cells -> Char]
    BY UseAssumption DEF Init
  <2>3. todo \in [Users -> Seq(Inputs)] /\ got \in [Users -> Seq(Char)]
    BY DEF Init
  <2> QED BY <2>1, <2>2, <2>3 DEF Init, TypeOK, NUM_SIMULT_ACCESS_USERS
<1>2. LockInv
  BY DEF Init, LockInv, WritePlaces, Writes
<1>3. LoopInv /\ CallInv
  BY DEF Init, LoopInv, CallInv, WritePlaces, ReadPlaces
<1>4. DistanceInv
  BY SizeAssumption
  DEF Init, DistanceInv, Distance, WriterAhead, ReaderAhead
<1>5. CellInv
  BY DEF Init, CellInv
<1> QED BY <1>1, <1>2, <1>3, <1>4, <1>5 DEF DeviceInv, Init

LEMMA LockStep ==
  ASSUME TypeOK, LockInv, NEW u \in Users, Step(u)
  PROVE  LockInv'
<1> USE DEF LockInv, TypeOK, Goto, Leaves
<1>1. CASE Open(u)
  <2>1. PICK m \in Modes :
          /\ pc[u] = "closed" /\ mode' = [mode EXCEPT ![u] = m]
          /\ pc' = [pc EXCEPT ![u] = "open"]
          /\ IF Writes(m) THEN /\ writer_open_lock > 0
                               /\ writer_open_lock' = writer_open_lock - 1
                               /\ UNCHANGED reader_open_lock
                          ELSE /\ reader_open_lock > 0
                               /\ reader_open_lock' = reader_open_lock - 1
                               /\ UNCHANGED writer_open_lock
    BY <1>1 DEF Open, DownReaderLock
  <2>2. m \in {"r", "w", "rw"} /\ mode[u] = "none"
    BY <2>1, UseAssumption
  <2>3. CASE m = "r"
    BY <2>1, <2>3 DEF Writes, WritePlaces
  <2>4. CASE m \in {"w", "rw"}
    BY <2>1, <2>4 DEF Writes, WritePlaces
  <2> QED BY <2>2, <2>3, <2>4
<1>2. CASE Close(u)
  <2>1. mode[u] \in {"r", "w", "rw"}
    BY <1>2, UseAssumption DEF Close
  <2>2. CASE mode[u] \in {"w", "rw"}
    BY <1>2, <2>2 DEF Close, Writes, WritePlaces
  <2>3. CASE mode[u] = "r"
    BY <1>2, <2>3 DEF Close, Writes, WritePlaces
  <2> QED BY <2>1, <2>2, <2>3
<1>3. ASSUME NEW at, pc' = [pc EXCEPT ![u] = at], UNCHANGED <<locks, mode>>,
             pc[u] # "closed", at # "closed",
             at \in WritePlaces => pc[u] \in WritePlaces \/ Writes(mode[u])
      PROVE  LockInv'
  BY <1>3 DEF locks
<1>4. CASE BeginWrite(u)
  BY <1>3, <1>4 DEF BeginWrite, WritePlaces
<1>5. CASE BeginRead(u)
  BY <1>3, <1>5 DEF BeginRead, WritePlaces
<1>6. CASE FailCopyFrom(u)
  BY <1>3, <1>6 DEF FailCopyFrom, WritePlaces
<1>7. CASE CopyFromUser(u)
  BY <1>3, <1>7 DEF CopyFromUser, WritePlaces
<1>8. CASE Encode(u)
  BY <1>3, <1>8 DEF Encode, WritePlaces
<1>9. CASE MoveWritePos(u)
  BY <1>3, <1>9 DEF MoveWritePos, WritePlaces
<1>10. CASE IncItems(u)
  BY <1>3, <1>10 DEF IncItems, WritePlaces
<1>11. CASE Decode(u)
  BY <1>3, <1>11 DEF Decode, WritePlaces
<1>12. CASE CopyToUser(u)
  BY <1>3, <1>12 DEF CopyToUser, WritePlaces
<1>13. CASE FailCopyTo(u)
  BY <1>3, <1>13 DEF FailCopyTo, WritePlaces
<1>14. CASE MoveReadPos(u)
  BY <1>3, <1>14 DEF MoveReadPos, WritePlaces
<1>15. CASE DecItems(u)
  BY <1>3, <1>15 DEF DecItems, WritePlaces
<1>16. CASE CheckFull(u)
  <2>1. \E at : /\ pc' = [pc EXCEPT ![u] = at] /\ at # "closed"
                /\ at \in WritePlaces => pc[u] \in WritePlaces
    BY <1>16 DEF CheckFull, WritePlaces
  <2> QED  BY <1>3, <1>16, <2>1 DEF CheckFull, WritePlaces
<1>17. CASE CheckEmpty(u)
  <2>1. \E at : /\ pc' = [pc EXCEPT ![u] = at] /\ at # "closed"
                /\ at \in WritePlaces => pc[u] \in WritePlaces
    BY <1>17 DEF CheckEmpty, WritePlaces
  <2> QED  BY <1>3, <1>17, <2>1 DEF CheckEmpty, WritePlaces
<1> QED
  BY <1>1, <1>2, <1>4, <1>5, <1>6, <1>7, <1>8, <1>9, <1>10,
     <1>11, <1>12, <1>13, <1>14, <1>15, <1>16, <1>17 DEF Step

LEMMA LoopStep ==
  ASSUME TypeOK, LockInv, LoopInv, NEW u \in Users, Step(u)
  PROVE  LoopInv'
<1> SUFFICES ASSUME NEW v \in Users
             PROVE  /\ pc'[v] \in WritePlaces => pos'[v] = write_pos'
                    /\ pc'[v] \in WritePlaces \ {"checkFull"} => todo'[v] # <<>>
                    /\ pc'[v] \in ReadPlaces \ {"checkEmpty"} => left'[v] > 0
  BY DEF LoopInv
<1>1. pc[u] \in WritePlaces /\ pc[v] \in WritePlaces => u = v
  BY OneWriter
<1> USE DEF TypeOK, LoopInv, Goto, WritePlaces, ReadPlaces
<1>2. CASE Open(u) \/ Close(u)
  BY <1>2 DEF Open, Close, device, locals
<1>3. CASE BeginWrite(u)
  BY <1>3 DEF BeginWrite, device
<1>4. CASE BeginRead(u)
  BY <1>4 DEF BeginRead, device
<1>5. CASE CheckFull(u)
  <2>1. CASE Leaves(u)
    BY <1>5, <2>1 DEF CheckFull, Leaves, device
  <2>2. CASE ~Leaves(u)
    BY <1>5, <2>2 DEF CheckFull, device, locals
  <2> QED BY <2>1, <2>2
<1>6. CASE CheckEmpty(u)
  <2>1. CASE Leaves(u)
    BY <1>6, <2>1 DEF CheckEmpty, Leaves, device
  <2>2. CASE ~Leaves(u)
    <3>1. left[u] > 0
      BY <1>6, <2>2, SizeAssumption DEF CheckEmpty
    <3> QED BY <1>6, <2>2, <3>1 DEF CheckEmpty, device, locals
  <2> QED BY <2>1, <2>2
<1>7. CASE FailCopyFrom(u) \/ FailCopyTo(u)
  BY <1>7 DEF FailCopyFrom, FailCopyTo, Leaves, device
<1>8. CASE CopyFromUser(u) \/ Encode(u) \/ Decode(u)
  BY <1>8 DEF CopyFromUser, Encode, Decode, locals
<1>9. CASE CopyToUser(u)
  BY <1>9 DEF CopyToUser, device
<1>10. CASE MoveWritePos(u)
  BY <1>1, <1>10 DEF MoveWritePos
<1>11. CASE MoveReadPos(u)
  BY <1>11 DEF MoveReadPos
<1>12. CASE IncItems(u)
  BY <1>1, <1>12 DEF IncItems
<1>13. CASE DecItems(u)
  BY <1>13 DEF DecItems
<1> QED BY <1>2, <1>3, <1>4, <1>5, <1>6, <1>7, <1>8, <1>9, <1>10, <1>11,
           <1>12, <1>13 DEF Step

LEMMA CellStep ==
  ASSUME FilesInv, NEW u \in Users, Step(u)
  PROVE  CellInv'
<1> SUFFICES ASSUME minor' = 0, NEW v \in Users
             PROVE  /\ pc'[v] = "encode" => buffer'[write_pos'] = Head(todo'[v])
                    /\ pc'[v] = "moveWrite" =>
                         buffer'[write_pos'] =
                           encode_char(translate_subst, Head(todo'[v]))
  BY DEF CellInv
<1>1. pc[u] \in WritePlaces /\ pc[v] \in WritePlaces => u = v
  BY OneWriter DEF FilesInv
<1>2. minor = 0
  BY DEF Step, Open, Close, BeginWrite, CheckFull, CopyFromUser, FailCopyFrom,
         Encode, MoveWritePos, IncItems, BeginRead, CheckEmpty, Decode,
         CopyToUser, FailCopyTo, MoveReadPos, DecItems, device
<1> USE <1>2 DEF FilesInv, TypeOK, CellInv, Goto, WritePlaces
<1>3. CASE Open(u) \/ Close(u)
  BY <1>3 DEF Open, Close, device, locals
<1>4. CASE BeginWrite(u) \/ BeginRead(u)
  BY <1>4 DEF BeginWrite, BeginRead, device
<1>5. CASE CheckFull(u) \/ CheckEmpty(u)
  BY <1>5 DEF CheckFull, CheckEmpty, Leaves, device, locals
<1>6. CASE CopyFromUser(u)
  BY <1>1, <1>6 DEF CopyFromUser, locals
<1>7. CASE FailCopyFrom(u)
  BY <1>1, <1>7 DEF FailCopyFrom, Leaves
<1>8. CASE Encode(u)
  BY <1>1, <1>8 DEF Encode, locals
<1>9. CASE MoveWritePos(u) \/ IncItems(u)
  BY <1>1, <1>9 DEF MoveWritePos, IncItems
<1>10. CASE Decode(u) \/ CopyToUser(u) \/ MoveReadPos(u) \/ DecItems(u)
  BY <1>10 DEF Decode, CopyToUser, MoveReadPos, DecItems, device, locals
<1>11. CASE FailCopyTo(u)
  BY <1>11 DEF FailCopyTo, Leaves, device
<1> QED BY <1>3, <1>4, <1>5, <1>6, <1>7, <1>8, <1>9, <1>10, <1>11 DEF Step

\* The counter stays in its range until calls overlap.
LEMMA ItemsInRange ==
  ASSUME DeviceInv, NEW u \in Users, Step(u)
  PROVE  /\ items' \in 0 .. translate_bufsize
         /\ IncItems(u) => items' = items + 1
         /\ DecItems(u) => items' = items - 1
<1>0. items \in 0 .. translate_bufsize /\ translate_bufsize \in Nat
  BY SizeAssumption DEF DeviceInv, TypeOK
<1>1. CASE IncItems(u)
  <2>1. items < translate_bufsize /\ Operand(u) = items
    BY <1>1 DEF IncItems, DeviceInv, CallInv, WritePlaces
  <2>2. items' = items + 1 /\ ~DecItems(u)
    BY <1>1, <2>1 DEF IncItems, DecItems
  <2> QED BY <1>0, <2>1, <2>2
<1>2. CASE DecItems(u)
  <2>1. items > 0 /\ Operand(u) = items
    BY <1>2 DEF DecItems, DeviceInv, CallInv, ReadPlaces
  <2>2. items' = items - 1 /\ ~IncItems(u)
    BY <1>2, <2>1 DEF IncItems, DecItems
  <2> QED BY <1>0, <2>1, <2>2
<1>3. CASE ~IncItems(u) /\ ~DecItems(u)
  <2>1. items' = items
    BY <1>3
    DEF Step, Open, Close, BeginWrite, CheckFull, CopyFromUser, FailCopyFrom,
        Encode, MoveWritePos, BeginRead, CheckEmpty, Decode, CopyToUser,
        FailCopyTo, MoveReadPos, device
  <2> QED BY <1>0, <1>3, <2>1
<1> QED BY <1>1, <1>2, <1>3

LEMMA TypeStep ==
  ASSUME FilesInv, overlapped \/ DeviceInv, NEW u \in Users, Step(u)
  PROVE  TypeOK'
<1>0. ~overlapped' => items' \in 0 .. translate_bufsize
  BY ItemsInRange, OverlapIsKept DEF Next
<1>a. overlapped' \in BOOLEAN
  BY DEF FilesInv, TypeOK, Step, Open, Close, BeginWrite, CheckFull,
         CopyFromUser, FailCopyFrom, Encode, MoveWritePos, IncItems, BeginRead,
         CheckEmpty, Decode, CopyToUser, FailCopyTo, MoveReadPos, DecItems,
         ReadsOverlap, CountsOverlap
<1> USE <1>0, <1>a DEF FilesInv, TypeOK, Goto
<1>1. CASE Open(u) \/ Close(u)
  <2>1. {writer_open_lock, reader_open_lock}' \subseteq {0, 1}
    <3>1. CASE Open(u)
      BY <3>1 DEF Open, DownReaderLock
    <3>2. CASE Close(u)
      <4>1. mode[u] \in {"r", "w", "rw"}
        BY <3>2, UseAssumption DEF Close, LockInv
      <4> QED BY <3>2, <4>1 DEF Close, Writes, LockInv
    <3> QED BY <1>1, <3>1, <3>2
  <2>2. UNCHANGED <<device, locals>>
    BY <1>1 DEF Open, Close
  <2>3. mode' \in [Users -> Modes \union {"none"}]
    BY <1>1 DEF Open, Close
  <2>4. pc' \in [Users -> {"closed", "open"} \union WritePlaces \union ReadPlaces]
    BY <1>1 DEF Open, Close
  <2> QED BY <2>1, <2>2, <2>3, <2>4 DEF device, locals
<1>2. CASE BeginWrite(u)
  <2>1. PICK buf \in Buffers : todo' = [todo EXCEPT ![u] = buf]
    BY <1>2 DEF BeginWrite
  <2>2. buf \in Seq(Inputs)
    BY <2>1, SizeAssumption DEF Buffers
  <2> QED BY <1>2, <2>1, <2>2
          DEF BeginWrite, device, locks, WritePlaces, ReadPlaces
<1>3. CASE BeginRead(u)
  BY <1>3, SizeAssumption DEF BeginRead, device, locks, WritePlaces, ReadPlaces
<1>4. CASE CheckFull(u) \/ FailCopyFrom(u) \/ CheckEmpty(u) \/ FailCopyTo(u)
  <2>1. /\ UNCHANGED <<minor, items, read_pos, write_pos, locks, mode>>
        /\ buffer' \in [Cells -> Char]
    <3>1. CASE FailCopyFrom(u)
      <4>1. NUL \in Char
        BY DEF NUL, Char
      <4> QED BY <3>1, <4>1 DEF FailCopyFrom
    <3>2. CASE CheckFull(u) \/ CheckEmpty(u) \/ FailCopyTo(u)
      BY <3>2 DEF CheckFull, CheckEmpty, FailCopyTo, device
    <3> QED BY <1>4, <3>1, <3>2
  <2>2. CASE Leaves(u)
    <3>1. <<>> \in Seq(Inputs) /\ <<>> \in Seq(Char)
      OBVIOUS
    <3>2. 0 \in Cells /\ 0 \in 0 .. MaxCount /\ 0 \in Int
      BY SizeAssumption DEF Cells
    <3> QED BY <2>1, <2>2, <3>1, <3>2 DEF Leaves, locks
  <2>3. CASE ~Leaves(u)
    BY <1>4, <2>1, <2>3
    DEF CheckFull, FailCopyFrom, CheckEmpty, FailCopyTo, device, locks,
        locals, WritePlaces, ReadPlaces
  <2> QED BY <2>2, <2>3
<1>5. CASE CopyFromUser(u)
  <2>1. Head(todo[u]) \in Char
    BY <1>5, UseAssumption DEF CopyFromUser, LoopInv, WritePlaces
  <2> QED BY <1>5, <2>1
          DEF CopyFromUser, locks, locals, WritePlaces, ReadPlaces
<1>6. CASE Encode(u)
  <2>1. encode_char(translate_subst, buffer[write_pos]) \in Char
    BY CodecType
  <2> QED BY <1>6, <2>1 DEF Encode, locks, locals, WritePlaces, ReadPlaces
<1>7. CASE MoveWritePos(u) \/ MoveReadPos(u)
  <2>1. NextPos(pos[u]) \in Cells
    BY NextPosWraps
  <2>2. CASE MoveWritePos(u)
    BY <2>1, <2>2 DEF MoveWritePos, locks, WritePlaces
  <2>3. CASE MoveReadPos(u)
    BY <2>1, <2>3 DEF MoveReadPos, locks, ReadPlaces
  <2> QED BY <1>7, <2>2, <2>3
<1>8. CASE IncItems(u)
  <2>1. todo[u] # <<>>
    BY <1>8 DEF IncItems, LoopInv, WritePlaces
  <2>2. items' \in Int
    BY <1>8 DEF IncItems, Operand
  <2>3. Tail(todo[u]) \in Seq(Inputs)
    BY <2>1
  <2> QED BY <1>8, <2>2, <2>3 DEF IncItems, locks, WritePlaces
<1>9. CASE Decode(u)
  <2>1. decode_char(translate_subst, buffer[read_pos]) \in Char
    BY CodecType
  <2> QED BY <1>9, <2>1 DEF Decode, locks, locals, WritePlaces, ReadPlaces
<1>10. CASE CopyToUser(u)
  BY <1>10 DEF CopyToUser, device, locks, WritePlaces, ReadPlaces
<1>11. CASE DecItems(u)
  <2>1. left[u] > 0
    BY <1>11 DEF DecItems, LoopInv, ReadPlaces
  <2>2. items' \in Int
    BY <1>11 DEF DecItems, Operand
  <2>3. left[u] - 1 \in 0 .. MaxCount
    BY <2>1, SizeAssumption
  <2> QED BY <1>11, <2>2, <2>3 DEF DecItems, locks, ReadPlaces
<1> QED BY <1>1, <1>2, <1>3, <1>4, <1>5, <1>6, <1>7, <1>8, <1>9, <1>10, <1>11
        DEF Step

\* Until calls overlap, what they tested of items and of the pointers holds.
LEMMA CallStep ==
  ASSUME DeviceInv, NEW u \in Users, Step(u), ~overlapped'
  PROVE  CallInv'
<1>0. \A v \in Users :
        /\ pc[u] \in WritePlaces /\ pc[v] \in WritePlaces => u = v
        /\ pc[u] \in ReadPlaces /\ pc[v] \in ReadPlaces => u = v
  BY OneCallPerPort
<1>a. PICK at : pc' = [pc EXCEPT ![u] = at]
  BY DEF Step, Open, Close, BeginWrite, CheckFull, CopyFromUser, FailCopyFrom,
         Encode, MoveWritePos, IncItems, BeginRead, CheckEmpty, Decode,
         CopyToUser, FailCopyTo, MoveReadPos, DecItems, Leaves, Goto
<1>b. pc'[u] = at /\ \A v \in Users : v # u => pc'[v] = pc[v]
  BY <1>a DEF DeviceInv, TypeOK
<1>1. ASSUME NEW v \in Users, NEW w \in Users,
             pc'[v] \in ReadPlaces, pc'[w] \in ReadPlaces
      PROVE  v = w
  <2>1. CASE BeginRead(u)
    BY <1>1, <1>b, <2>1 DEF BeginRead, ReadsOverlap
  <2>2. CASE ~BeginRead(u)
    <3>1. at \in ReadPlaces => pc[u] \in ReadPlaces
      BY <1>b, <2>2
      DEF Step, Open, Close, BeginWrite, CheckFull, CopyFromUser, FailCopyFrom,
          Encode, MoveWritePos, IncItems, CheckEmpty, Decode, CopyToUser,
          FailCopyTo, MoveReadPos, DecItems, Leaves, Goto, DeviceInv, TypeOK,
          ReadPlaces
    <3>2. pc[v] \in ReadPlaces /\ pc[w] \in ReadPlaces
      BY <1>1, <1>b, <3>1
    <3> QED BY <3>2, OneCallPerPort
  <2> QED BY <2>1, <2>2
<1> DEFINE Counting == {"incItems", "decItems"}
<1>2. ASSUME SMP, NEW v \in Users, NEW w \in Users,
             pc'[v] \in Counting, pc'[w] \in Counting
      PROVE  v = w
  <2>1. CASE MoveWritePos(u) \/ MoveReadPos(u)
    <3>1. \A x \in Users : pc[x] \notin Counting
      BY <1>2, <2>1 DEF MoveWritePos, MoveReadPos, CountsOverlap
    <3> HIDE DEF Counting
    <3> QED BY <1>2, <1>b, <3>1
  <2>2. CASE ~(MoveWritePos(u) \/ MoveReadPos(u))
    <3>1. at \notin Counting
      BY <1>b, <2>2
      DEF Step, Open, Close, BeginWrite, CheckFull, CopyFromUser, FailCopyFrom,
          Encode, IncItems, BeginRead, CheckEmpty, Decode, CopyToUser,
          FailCopyTo, DecItems, Leaves, Goto, DeviceInv, TypeOK
    <3>2. \A x, y \in Users :
            pc[x] \in Counting /\ pc[y] \in Counting => x = y
      BY <1>2 DEF DeviceInv, CallInv
    <3> HIDE DEF Counting
    <3> QED BY <1>2, <1>b, <3>1, <3>2
  <2> QED BY <2>1, <2>2
<1> USE DEF DeviceInv, TypeOK, CallInv, Goto, WritePlaces, ReadPlaces
<1>3. ASSUME NEW v \in Users
      PROVE  /\ pc'[v] \in ReadPlaces => pos'[v] = read_pos'
             /\ pc'[v] \in WritePlaces \ {"checkFull"} => items' < translate_bufsize
             /\ pc'[v] \in ReadPlaces \ {"checkEmpty"} => items' > 0
             /\ pc'[v] \in {"incItems", "decItems"} => Operand(v)' = items'
  <2> USE DEF Operand
  <2>2. CASE Open(u) \/ Close(u)
    BY <2>2 DEF Open, Close, device, locals
  <2>3. CASE BeginWrite(u)
    BY <2>3 DEF BeginWrite, device
  <2>4. CASE BeginRead(u)
    BY <2>4 DEF BeginRead, device
  <2>5. CASE CheckFull(u)
    <3>1. CASE Leaves(u)
      BY <2>5, <3>1 DEF CheckFull, Leaves, device
    <3>2. CASE ~Leaves(u)
      <4>1. items < translate_bufsize
        BY <2>5, <3>2, SizeAssumption DEF CheckFull, IsFull
      <4> QED BY <2>5, <3>2, <4>1 DEF CheckFull, device, locals
    <3> QED BY <3>1, <3>2
  <2>6. CASE CheckEmpty(u)
    <3>1. CASE Leaves(u)
      BY <2>6, <3>1 DEF CheckEmpty, Leaves, device
    <3>2. CASE ~Leaves(u)
      <4>1. items > 0
        BY <2>6, <3>2, SizeAssumption DEF CheckEmpty
      <4> QED BY <2>6, <3>2, <4>1 DEF CheckEmpty, device, locals
    <3> QED BY <3>1, <3>2
  <2>7. CASE FailCopyFrom(u) \/ FailCopyTo(u)
    <3>1. UNCHANGED <<items, read_pos, write_pos>> /\ Leaves(u)
      BY <2>7 DEF FailCopyFrom, FailCopyTo, device
    <3> QED BY <3>1 DEF Leaves
  <2>8. CASE CopyFromUser(u) \/ Encode(u) \/ Decode(u)
    BY <2>8 DEF CopyFromUser, Encode, Decode, locals
  <2>9. CASE CopyToUser(u)
    BY <2>9 DEF CopyToUser, device
  <2>10. CASE MoveWritePos(u)
    BY <1>0, <2>10 DEF MoveWritePos
  <2>11. CASE MoveReadPos(u)
    BY <1>0, <2>11 DEF MoveReadPos
  <2>12. CASE IncItems(u)
    <3>1. items' = items + 1
      BY <2>12, ItemsInRange
    <3>2. pc'[v] \in {"incItems", "decItems"} => ~SMP
      BY <2>12 DEF IncItems
    <3> QED BY <1>0, <2>12, <3>1, <3>2, SizeAssumption DEF IncItems
  <2>13. CASE DecItems(u)
    <3>1. items' = items - 1
      BY <2>13, ItemsInRange
    <3>2. pc'[v] \in {"incItems", "decItems"} => ~SMP
      BY <2>13 DEF DecItems
    <3> QED BY <1>0, <2>13, <3>1, <3>2, SizeAssumption DEF DecItems
  <2> QED BY <2>2, <2>3, <2>4, <2>5, <2>6, <2>7, <2>8, <2>9, <2>10, <2>11,
             <2>12, <2>13 DEF Step
<1>4. \A v, w \in Users :
        /\ pc'[v] \in ReadPlaces /\ pc'[w] \in ReadPlaces => v = w
        /\ SMP /\ {pc'[v], pc'[w]} \subseteq {"incItems", "decItems"} => v = w
  BY <1>1, <1>2
<1> HIDE DEF DeviceInv, TypeOK, CallInv, Goto, WritePlaces, ReadPlaces
<1> QED BY <1>3, <1>4 DEF CallInv, ReadPlaces

\* Steps that neither move a pointer nor count.
LEMMA DistanceKept ==
  ASSUME DistanceInv, UNCHANGED <<items, read_pos, write_pos>>,
         \A v \in Users : /\ pc'[v] = "incItems" <=> pc[v] = "incItems"
                          /\ pc'[v] = "decItems" <=> pc[v] = "decItems"
  PROVE  DistanceInv'
<1>1. WriterAhead' = WriterAhead /\ ReaderAhead' = ReaderAhead
  BY DEF WriterAhead, ReaderAhead
<1>2. Distance' = Distance
  BY <1>1 DEF Distance
<1> QED BY <1>2 DEF DistanceInv

LEMMA DistanceStep ==
  ASSUME DeviceInv, NEW u \in Users, Step(u)
  PROVE  DistanceInv'
<1>1. \A v \in Users :
        /\ pc[u] \in WritePlaces /\ pc[v] \in WritePlaces => u = v
        /\ pc[u] \in ReadPlaces /\ pc[v] \in ReadPlaces => u = v
  BY OneCallPerPort
<1> USE DEF DeviceInv, TypeOK, Goto
<1>2. ASSUME ~(MoveWritePos(u) \/ IncItems(u) \/ MoveReadPos(u) \/ DecItems(u))
      PROVE  DistanceInv'
  <2>1. UNCHANGED <<items, read_pos, write_pos>>
    BY <1>2
    DEF Step, Open, Close, BeginWrite, CheckFull, CopyFromUser, FailCopyFrom,
        Encode, BeginRead, CheckEmpty, Decode, CopyToUser, FailCopyTo, device
  <2>2. \A v \in Users : /\ pc'[v] = "incItems" <=> pc[v] = "incItems"
                         /\ pc'[v] = "decItems" <=> pc[v] = "decItems"
    BY <1>2
    DEF Step, Open, Close, BeginWrite, CheckFull, CopyFromUser, FailCopyFrom,
        Encode, BeginRead, CheckEmpty, Decode, CopyToUser, FailCopyTo, Leaves
  <2> QED BY <2>1, <2>2, DistanceKept
<1>3. CASE MoveWritePos(u)
  <2>1. WriterAhead = 0 /\ WriterAhead' = 1 /\ ReaderAhead' = ReaderAhead
    BY <1>1, <1>3 DEF MoveWritePos, WriterAhead, ReaderAhead, WritePlaces
  <2>2. /\ write_pos' = NextPos(write_pos) /\ items < translate_bufsize
        /\ UNCHANGED <<items, read_pos>>
    BY <1>3 DEF MoveWritePos, CallInv, LoopInv, WritePlaces
  <2>3. ReaderAhead \in {0, 1} /\ (ReaderAhead = 1 => items > 0)
    BY DEF ReaderAhead, CallInv, ReadPlaces
  <2>4. Distance' = Distance + 1 /\ Distance' \in 0 .. translate_bufsize
    BY <2>1, <2>2, <2>3, SizeAssumption DEF Distance
  <2>5. read_pos \in Cells /\ write_pos \in Cells /\ Distance \in Int
    BY SizeAssumption DEF DistanceInv
  <2>6. write_pos' = IF write_pos + 1 = translate_bufsize THEN 0
                                                         ELSE write_pos + 1
    BY <2>2, <2>5, NextPosWraps
  <2>7. \/ write_pos = read_pos + Distance
        \/ write_pos = read_pos + Distance - translate_bufsize
    BY DEF DistanceInv
  <2>8. \/ write_pos' = read_pos' + Distance'
        \/ write_pos' = read_pos' + Distance' - translate_bufsize
    BY <2>2, <2>4, <2>5, <2>6, <2>7, SizeAssumption DEF Cells
  <2> QED BY <2>4, <2>8 DEF DistanceInv
<1>4. CASE IncItems(u)
  <2>1. WriterAhead = 1 /\ WriterAhead' = 0 /\ ReaderAhead' = ReaderAhead
    BY <1>1, <1>4 DEF IncItems, WriterAhead, ReaderAhead, WritePlaces
  <2>2. items' = items + 1 /\ UNCHANGED <<read_pos, write_pos>>
    BY <1>4, ItemsInRange DEF IncItems
  <2>3. ReaderAhead \in {0, 1}
    BY DEF ReaderAhead
  <2>4. Distance' = Distance
    BY <2>1, <2>2, <2>3, SizeAssumption DEF Distance
  <2> QED BY <2>2, <2>4 DEF DistanceInv
<1>5. CASE MoveReadPos(u)
  <2>1. ReaderAhead = 0 /\ ReaderAhead' = 1 /\ WriterAhead' = WriterAhead
    BY <1>1, <1>5 DEF MoveReadPos, WriterAhead, ReaderAhead, ReadPlaces
  <2>2. /\ read_pos' = NextPos(read_pos) /\ items > 0
        /\ UNCHANGED <<items, write_pos>>
    BY <1>5 DEF MoveReadPos, CallInv, ReadPlaces
  <2>3. WriterAhead \in {0, 1}
    BY DEF WriterAhead
  <2>4. Distance' = Distance - 1 /\ Distance' >= 0
    BY <2>1, <2>2, <2>3, SizeAssumption DEF Distance
  <2>5. /\ read_pos \in Cells /\ write_pos \in Cells
        /\ Distance \in 0 .. translate_bufsize
    BY DEF DistanceInv
  <2>6. read_pos' = IF read_pos + 1 = translate_bufsize THEN 0
                                                       ELSE read_pos + 1
    BY <2>2, <2>5, NextPosWraps
  <2>7. \/ write_pos = read_pos + Distance
        \/ write_pos = read_pos + Distance - translate_bufsize
    BY DEF DistanceInv
  <2>8. \/ write_pos' = read_pos' + Distance'
        \/ write_pos' = read_pos' + Distance' - translate_bufsize
    BY <2>2, <2>4, <2>5, <2>6, <2>7, SizeAssumption DEF Cells
  <2>9. Distance' \in 0 .. translate_bufsize
    BY <2>4, <2>5, SizeAssumption
  <2> QED BY <2>8, <2>9 DEF DistanceInv
<1>6. CASE DecItems(u)
  <2>1. ReaderAhead = 1 /\ ReaderAhead' = 0 /\ WriterAhead' = WriterAhead
    BY <1>1, <1>6 DEF DecItems, WriterAhead, ReaderAhead, ReadPlaces
  <2>2. items' = items - 1 /\ UNCHANGED <<read_pos, write_pos>>
    BY <1>6, ItemsInRange DEF DecItems
  <2>3. WriterAhead \in {0, 1}
    BY DEF WriterAhead
  <2>4. Distance' = Distance
    BY <2>1, <2>2, <2>3, SizeAssumption DEF Distance
  <2> QED BY <2>2, <2>4 DEF DistanceInv
<1> QED BY <1>2, <1>3, <1>4, <1>5, <1>6

\* The locks and the loops are in order in every state, and until calls overlap
\* the device keeps its pointers in the buffer, its counter in range and the
\* distance of the pointers in step with it: for every buffer size, every table,
\* any number of processes, however they open the device.
THEOREM DeviceInvariant == Spec => [](FilesInv /\ (overlapped \/ DeviceInv))
<1> DEFINE IInv == FilesInv /\ (overlapped \/ DeviceInv)
<1>1. Init => IInv
  BY DeviceInit DEF FilesInv, DeviceInv
<1>2. IInv /\ [Next]_vars => IInv'
  <2> SUFFICES ASSUME FilesInv, overlapped \/ DeviceInv, [Next]_vars
               PROVE  FilesInv' /\ (overlapped' \/ DeviceInv')
    OBVIOUS
  <2>1. ASSUME NEW u \in Users, Step(u)
        PROVE  FilesInv' /\ (overlapped' \/ DeviceInv')
    <3>1. FilesInv'
      BY <2>1, LockStep, LoopStep, TypeStep, CellStep DEF FilesInv
    <3>2. ASSUME ~overlapped' PROVE DeviceInv'
      <4>1. DeviceInv
        BY <2>1, <3>2, OverlapIsKept
      <4> QED BY <2>1, <3>1, <3>2, <4>1, CallStep, DistanceStep
              DEF FilesInv, DeviceInv
    <3> QED BY <3>1, <3>2
  <2>2. CASE UNCHANGED vars
    BY <2>2
    DEF vars, device, locks, locals, FilesInv, DeviceInv, TypeOK, LockInv,
        LoopInv, CallInv, Operand, DistanceInv, Distance, WriterAhead,
        ReaderAhead, CellInv
  <2> QED BY <2>1, <2>2 DEF Next
<1> HIDE DEF IInv
<1>3. Spec => []IInv
  BY <1>1, <1>2, PTL DEF Spec
<1> QED BY <1>3 DEF IInv

\* Both pointers stay inside the buffer in every state, and items within its
\* range until calls overlap.
THEOREM DeviceTypeCorrect == Spec => []TypeOK
<1>1. FilesInv => TypeOK
  BY DEF FilesInv
<1> QED BY <1>1, DeviceInvariant, PTL

\* What translate0 stores decodes to what the user wrote, for every table with
\* each letter once and whatever readers do meanwhile, however many there are.
THEOREM StoredCharsDecode == Spec => []StoredCharDecodes
<1>1. FilesInv => StoredCharDecodes
  <2> SUFFICES ASSUME FilesInv, minor = 0,
                      NEW u \in Users, pc[u] = "moveWrite", Head(todo[u]) # NUL
               PROVE  decode_char(translate_subst, buffer[write_pos])
                        = Head(todo[u])
    BY DEF StoredCharDecodes
  <2>1. buffer[write_pos] = encode_char(translate_subst, Head(todo[u]))
    BY DEF FilesInv, CellInv
  <2>2. Head(todo[u]) \in Char
    <3>1. todo[u] \in Seq(Inputs) /\ todo[u] # <<>>
      BY DEF FilesInv, TypeOK, LoopInv, WritePlaces
    <3> QED BY <3>1, UseAssumption
  <2> QED BY <2>1, <2>2, CodecRoundTrip, UseAssumption
<1> QED BY <1>1, DeviceInvariant, PTL

\* A set with at most one element.
LEMMA AtMostOne ==
  ASSUME NEW S, \A x, y \in S : x = y
  PROVE  /\ Cardinality(S) \in {0, 1}
         /\ Cardinality(S) = IF S = {} THEN 0 ELSE 1
<1>1. CASE S = {}
  BY <1>1, FS_EmptySet
<1>2. CASE S # {}
  <2>1. PICK x \in S : TRUE
    BY <1>2
  <2>2. S = {x}
    BY <2>1
  <2> QED BY <2>2, FS_Singleton
<1> QED BY <1>1, <1>2

\* Whatever the modes in which processes open the device, one file at most can
\* write it, and one at most can only read it.
THEOREM LocksKeepOneFileEach == Spec => []EachLockHasOneFile
<1>1. FilesInv => EachLockHasOneFile
  <2> SUFFICES ASSUME FilesInv PROVE EachLockHasOneFile
    OBVIOUS
  <2>1. \A u, v \in WritePort : u = v
    BY DEF FilesInv, LockInv, WritePort, Writes
  <2>2. \A u, v \in ReadPort \ WritePort : u = v
    BY DEF FilesInv, LockInv, ReadPort, WritePort
  <2>3. /\ Cardinality(WritePort) \in {0, 1}
        /\ Cardinality(ReadPort \ WritePort) \in {0, 1}
    BY <2>1, <2>2, AtMostOne
  <2> QED BY <2>3 DEF EachLockHasOneFile
<1> QED BY <1>1, DeviceInvariant, PTL

\* Until two reads are under way at once, or an items++ and an items-- overlap
\* on two processors, items is the distance of the pointers, characters in
\* transit apart, however the steps of a reader and a writer interleave.
THEOREM ItemsStaysDistance == Spec => []ItemsIsDistance
<1>1. DeviceInv => ItemsAreCounted
  <2> SUFFICES ASSUME DeviceInv PROVE ItemsAreCounted
    OBVIOUS
  <2> DEFINE Incs == {u \in Users : pc[u] = "incItems"}
             Decs == {u \in Users : pc[u] = "decItems"}
  <2>1. Cardinality(Incs) = WriterAhead /\ Cardinality(Decs) = ReaderAhead
    <3>1. \A u, v \in Incs : u = v
      BY OneCallPerPort DEF WritePlaces
    <3>2. \A u, v \in Decs : u = v
      BY OneCallPerPort DEF ReadPlaces
    <3>3. /\ Cardinality(Incs) = IF Incs = {} THEN 0 ELSE 1
          /\ Cardinality(Decs) = IF Decs = {} THEN 0 ELSE 1
      BY <3>1, <3>2, AtMostOne
    <3> QED BY <3>3 DEF WriterAhead, ReaderAhead
  <2>2. WriterAhead \in {0, 1} /\ ReaderAhead \in {0, 1}
    BY DEF WriterAhead, ReaderAhead
  <2>3. items + Uncounted = Distance
    <3>1. Uncounted = WriterAhead - ReaderAhead
      BY <2>1 DEF Uncounted
    <3>2. items \in Int
      BY SizeAssumption DEF DeviceInv, TypeOK
    <3> QED BY <2>2, <3>1, <3>2 DEF Distance
  <2>4. Distance - write_pos + read_pos \in {0, translate_bufsize}
    <3>1. /\ read_pos \in Cells /\ write_pos \in Cells
          /\ Distance \in 0 .. translate_bufsize
      BY DEF DeviceInv, TypeOK, DistanceInv
    <3>2. \/ write_pos = read_pos + Distance
          \/ write_pos = read_pos + Distance - translate_bufsize
      BY DEF DeviceInv, DistanceInv
    <3> QED BY <3>1, <3>2, SizeAssumption DEF Cells
  <2>5. 0 % translate_bufsize = 0 /\ translate_bufsize % translate_bufsize = 0
    BY SizeAssumption
  <2>6. /\ items \in Int /\ Uncounted \in Int
        /\ write_pos \in Int /\ read_pos \in Int
    BY <2>1, <2>2, SizeAssumption DEF DeviceInv, TypeOK, Uncounted, Cells
  <2>7. items + Uncounted - write_pos + read_pos \in {0, translate_bufsize}
    BY <2>3, <2>4, <2>6
  <2> QED BY <2>5, <2>7 DEF ItemsAreCounted
<1>2. overlapped \/ DeviceInv => ItemsIsDistance
  BY <1>1 DEF ItemsIsDistance
<1> QED BY <1>2, DeviceInvariant, PTL
-----------------------------------------------------------------------------
(* The device is a queue of bytes *)

\* x modulo the size of the buffer, for the sums of two indexes.
LEMMA WrapsOnce ==
  ASSUME NEW x \in Nat, x < 2 * translate_bufsize
  PROVE  /\ x % translate_bufsize = IF x < translate_bufsize THEN x
                                                            ELSE x - translate_bufsize
         /\ x % translate_bufsize \in Cells
BY SizeAssumption DEF Cells

\* Where the i-th character of the queue lies.
Cell(i) == (FirstPos + i - 1) % translate_bufsize

\* The places of the reader after which the first character counts as decoded.
TakePlaces == {"copyTo", "moveRead", "decItems"}

\* What translate_write puts for c.
Stored(c) == IF minor = 0 THEN encode_char(translate_subst, c) ELSE c

\* The writer's character, from the copy to the counting.
StoredInv ==
  \A u \in Users :
    /\ pc[u] = "encode" => buffer[write_pos] = Head(todo[u])
    /\ pc[u] = "moveWrite" => buffer[write_pos] = Stored(Head(todo[u]))
    /\ pc[u] = "incItems" => buffer[Cell(items + 1)] = Stored(Head(todo[u]))

\* What the reader has copied and not yet counted is the first of the queue.
GotInv ==
  \A u \in Users : pc[u] \in {"moveRead", "decItems"} =>
    got[u] # <<>> /\ got[u][Len(got[u])] = buffer[FirstPos]

QueueInv == DeviceInv /\ StoredInv /\ GotInv

\* The characters of the queue lie one behind the other, and then comes the
\* writer's.
LEMMA CellsInRow ==
  ASSUME DeviceInv
  PROVE  /\ items \in 0 .. translate_bufsize /\ FirstPos \in Cells
         /\ ~FirstIsPassed => FirstPos = read_pos
         /\ FirstIsPassed => \/ FirstPos = read_pos - 1
                             \/ FirstPos = read_pos - 1 + translate_bufsize
         /\ \A i \in 1 .. translate_bufsize :
              /\ Cell(i) \in Cells
              /\ \/ Cell(i) = FirstPos + i - 1
                 \/ Cell(i) = FirstPos + i - 1 - translate_bufsize
         /\ WriterAhead = 0 /\ items < translate_bufsize => write_pos = Cell(items + 1)
<1>1. /\ read_pos \in Cells /\ write_pos \in Cells /\ items \in 0 .. translate_bufsize
      /\ ReaderAhead = IF FirstIsPassed THEN 1 ELSE 0
      /\ WriterAhead \in {0, 1} /\ ReaderAhead \in {0, 1}
  BY DEF DeviceInv, TypeOK, ReaderAhead, WriterAhead, FirstIsPassed
<1>2. ASSUME FirstIsPassed
      PROVE  /\ FirstPos \in Cells
             /\ FirstPos = read_pos - 1 \/ FirstPos = read_pos - 1 + translate_bufsize
  <2> DEFINE x == read_pos + translate_bufsize - 1
  <2>1. x \in Nat /\ x < 2 * translate_bufsize  BY <1>1, SizeAssumption DEF Cells
  <2>2. FirstPos = x % translate_bufsize  BY <1>2 DEF FirstPos
  <2> HIDE DEF x
  <2>3. FirstPos \in Cells /\ (FirstPos = x \/ FirstPos = x - translate_bufsize)
    BY <2>1, <2>2, WrapsOnce
  <2>4. x = read_pos - 1 + translate_bufsize /\ x - translate_bufsize = read_pos - 1
    BY <1>1, SizeAssumption DEF x, Cells
  <2> QED  BY <2>3, <2>4
<1>3. ~FirstIsPassed => FirstPos = read_pos  BY DEF FirstPos
<1>4. FirstPos \in Cells  BY <1>1, <1>2, <1>3
<1>5. ASSUME NEW i \in 1 .. translate_bufsize
      PROVE  /\ Cell(i) \in Cells
             /\ \/ Cell(i) = FirstPos + i - 1
                \/ Cell(i) = FirstPos + i - 1 - translate_bufsize
  <2> DEFINE x == FirstPos + i - 1
  <2>1. x \in Nat /\ x < 2 * translate_bufsize  BY <1>4, SizeAssumption DEF Cells
  <2>2. Cell(i) = x % translate_bufsize  BY DEF Cell
  <2> HIDE DEF x
  <2>3. Cell(i) \in Cells /\ (Cell(i) = x \/ Cell(i) = x - translate_bufsize)
    BY <2>1, <2>2, WrapsOnce
  <2>4. x = FirstPos + i - 1 /\ x \in Int  BY <2>1 DEF x
  <2> QED  BY <1>4, <2>3, <2>4, SizeAssumption DEF Cells
<1>6. ASSUME WriterAhead = 0, items < translate_bufsize
      PROVE  write_pos = Cell(items + 1)
  <2>1. \/ write_pos = read_pos + items - ReaderAhead
        \/ write_pos = read_pos + items - ReaderAhead - translate_bufsize
    BY <1>1, <1>6, SizeAssumption DEF DeviceInv, DistanceInv, Distance, Cells
  <2> DEFINE i == items + 1
  <2>2. i \in 1 .. translate_bufsize /\ i - 1 = items  BY <1>1, <1>6, SizeAssumption
  <2>3. /\ Cell(i) \in Cells
        /\ \/ Cell(i) = FirstPos + i - 1
           \/ Cell(i) = FirstPos + i - 1 - translate_bufsize
    BY <1>5, <2>2
  <2> HIDE DEF i
  <2>4. /\ translate_bufsize \in Nat /\ items \in Int /\ i \in Int /\ FirstPos \in Int
        /\ read_pos \in Int
        /\ write_pos \in Int /\ 0 <= write_pos /\ write_pos < translate_bufsize
        /\ Cell(i) \in Int /\ 0 <= Cell(i) /\ Cell(i) < translate_bufsize
    BY <1>1, <1>4, <2>2, <2>3, SizeAssumption DEF Cells
  <2>5. /\ ReaderAhead \in Int
        /\ \/ FirstPos = read_pos - ReaderAhead
           \/ FirstPos = read_pos - ReaderAhead + translate_bufsize
    BY <1>1, <1>2, <1>3, <2>4
  <2>6. write_pos = Cell(i)  BY <2>1, <2>2, <2>3, <2>4, <2>5
  <2> QED  BY <2>6 DEF i
<1> QED  BY <1>1, <1>2, <1>3, <1>4, <1>5, <1>6

\* No two of them share a cell.
LEMMA CellsApart ==
  ASSUME DeviceInv, NEW i \in 1 .. translate_bufsize, NEW k \in 1 .. translate_bufsize,
         Cell(i) = Cell(k)
  PROVE  i = k
  BY CellsInRow, SizeAssumption DEF Cells

\* A character as the next reads will return it.
LEMMA QueueIs ==
  /\ DOMAIN QueueView = 1 .. items
  /\ \A i \in 1 .. items :
       QueueView[i] = IF minor = 1 /\ ~(i = 1 /\ FirstIsDecoded)
                        THEN decode_char(translate_subst, buffer[Cell(i)])
                        ELSE buffer[Cell(i)]
  BY DEF QueueView, Cell

LEMMA QueueTyped ==
  ASSUME DeviceInv
  PROVE  QueueView \in Seq(Char) /\ Len(QueueView) = items
<1>1. items \in Nat /\ items <= translate_bufsize  BY CellsInRow, SizeAssumption
<1>2. \A i \in 1 .. items : QueueView[i] \in Char
  <2> TAKE i \in 1 .. items
  <2>1. i \in 1 .. translate_bufsize  BY <1>1, SizeAssumption
  <2>2. buffer[Cell(i)] \in Char  BY <2>1, CellsInRow DEF DeviceInv, TypeOK
  <2> QED  BY <2>2, CodecType, QueueIs
<1>3. QueueView = [i \in 1 .. items |-> QueueView[i]]  BY DEF QueueView
<1> QED  BY <1>1, <1>2, <1>3

LEMMA QueueBecomes ==
  ASSUME NEW s \in Seq(Char), items' = Len(s),
         \A i \in 1 .. items' : QueueView'[i] = s[i]
  PROVE  QueueView' = s
<1>1. QueueView' = [i \in 1 .. items' |-> QueueView'[i]]  BY DEF QueueView
<1> HIDE DEF QueueView
<1>2. Len(s) \in Nat /\ \A i \in 1 .. items' : QueueView'[i] \in Char  OBVIOUS
<1>3. QueueView' \in Seq(Char) /\ Len(QueueView') = Len(s)  BY <1>1, <1>2
<1> QED  BY <1>3, SeqEqual

\* The abstract device has the same codec.
LEMMA CodecIsShared ==
  \A s, c : /\ Fifo!encode_char(s, c) = encode_char(s, c)
            /\ Fifo!decode_char(s, c) = decode_char(s, c)
  BY DEF encode_char, decode_char, Fifo!encode_char, Fifo!decode_char,
         encode_index_from_char, Fifo!encode_index_from_char, decode_from_index,
         Fifo!decode_from_index, FirstOccurrence, Fifo!FirstOccurrence, Occurrences,
         Fifo!Occurrences, NEUTRAL_CHAR_INDEX, Fifo!NEUTRAL_CHAR_INDEX,
         UpperCase, Fifo!UpperCase, LowerCase, Fifo!LowerCase, NUL, Fifo!NUL,
         UPPER_CASE_ASCII, Fifo!UPPER_CASE_ASCII, LOWER_CASE_ASCII,
         Fifo!LOWER_CASE_ASCII,
         UPPER_CASE_SUBSTR_OFFSET, Fifo!UPPER_CASE_SUBSTR_OFFSET,
         LOWER_CASE_SUBSTR_OFFSET, Fifo!LOWER_CASE_SUBSTR_OFFSET,
         TRANSLATE_SUBSTR_LEN, Fifo!TRANSLATE_SUBSTR_LEN, Positions, Fifo!Positions

\* The views change where the process does that makes the step.
CallOf(at) == CASE at \in WritePlaces -> "write"
                [] at \in ReadPlaces  -> "read"
                [] OTHER              -> "none"

GotOf(at, s) == IF at \in {"moveRead", "decItems"} THEN SubSeq(s, 1, Len(s) - 1) ELSE s

LEMMA CallOfPlaces ==
  /\ \A at \in WritePlaces : CallOf(at) = "write"
  /\ \A at \in ReadPlaces : CallOf(at) = "read"
  /\ CallOf("open") = "none" /\ CallOf("closed") = "none"
  BY DEF CallOf, WritePlaces, ReadPlaces

LEMMA ViewsMove ==
  ASSUME TypeOK, NEW u \in Users, NEW at, pc' = [pc EXCEPT ![u] = at],
         \A v \in Users : v # u => got'[v] = got[v]
  PROVE  /\ CallView' = [CallView EXCEPT ![u] = CallOf(at)]
         /\ GotView' = [GotView EXCEPT ![u] = GotOf(at, got'[u])]
         /\ CallView[u] = CallOf(pc[u]) /\ GotView[u] = GotOf(pc[u], got[u])
         /\ CallOf(at) = CallOf(pc[u]) => CallView' = CallView
         /\ GotOf(at, got'[u]) = GotOf(pc[u], got[u]) => GotView' = GotView
<1>1. DOMAIN pc = Users /\ pc'[u] = at /\ \A v \in Users : v # u => pc'[v] = pc[v]
  BY DEF TypeOK
<1>2. /\ CallView = [v \in Users |-> CallOf(pc[v])]
      /\ CallView' = [v \in Users |-> CallOf(pc'[v])]
  BY DEF CallView, CallOf
<1>3. GotView = [v \in Users |-> GotOf(pc[v], got[v])]
      /\ GotView' = [v \in Users |-> GotOf(pc'[v], got'[v])]
  BY DEF GotView, GotOf
<1>4. /\ CallOf(at) = CallOf(pc[u]) => CallView' = CallView
      /\ GotOf(at, got'[u]) = GotOf(pc[u], got[u]) => GotView' = GotView
  BY <1>1, <1>2, <1>3
<1>5. CallView' = [CallView EXCEPT ![u] = CallOf(at)]  BY <1>1, <1>2
<1>6. GotView' = [GotView EXCEPT ![u] = GotOf(at, got'[u])]  BY <1>1, <1>3
<1> QED  BY <1>2, <1>3, <1>4, <1>5, <1>6

LEMMA FlagsMove ==
  ASSUME DeviceInv, NEW u \in Users, NEW at, pc' = [pc EXCEPT ![u] = at]
  PROVE  /\ (pc[u] \in TakePlaces <=> at \in TakePlaces) =>
              FirstIsDecoded' = FirstIsDecoded
         /\ (pc[u] = "decItems" <=> at = "decItems") => FirstIsPassed' = FirstIsPassed
         /\ pc[u] \in ReadPlaces =>
              /\ FirstIsDecoded <=> pc[u] \in TakePlaces
              /\ FirstIsPassed <=> pc[u] = "decItems"
              /\ FirstIsDecoded' <=> at \in TakePlaces
              /\ FirstIsPassed' <=> at = "decItems"
         /\ pc[u] \in WritePlaces \ {"incItems"} => WriterAhead = 0
<1>1. DOMAIN pc = Users /\ pc'[u] = at /\ \A v \in Users : v # u => pc'[v] = pc[v]
  BY DEF DeviceInv, TypeOK
<1>2. \A v \in Users : /\ pc[u] \in WritePlaces /\ pc[v] \in WritePlaces => u = v
                       /\ pc[u] \in ReadPlaces /\ pc[v] \in ReadPlaces => u = v
  BY OneCallPerPort
<1>3. /\ TakePlaces \subseteq ReadPlaces /\ "decItems" \in ReadPlaces
      /\ "incItems" \in WritePlaces
  BY DEF TakePlaces, ReadPlaces, WritePlaces
<1>4. FirstIsDecoded = (\E v \in Users : pc[v] \in TakePlaces)
      /\ FirstIsDecoded' = (\E v \in Users : pc'[v] \in TakePlaces)
  BY DEF FirstIsDecoded, TakePlaces
<1>5. FirstIsPassed = (\E v \in Users : pc[v] = "decItems")
      /\ FirstIsPassed' = (\E v \in Users : pc'[v] = "decItems")
  BY DEF FirstIsPassed
<1>6. (pc[u] \in TakePlaces <=> at \in TakePlaces) => FirstIsDecoded' = FirstIsDecoded
  BY <1>1, <1>4
<1>7. (pc[u] = "decItems" <=> at = "decItems") => FirstIsPassed' = FirstIsPassed
  BY <1>1, <1>5
<1>8. ASSUME pc[u] \in ReadPlaces
      PROVE  /\ FirstIsDecoded <=> pc[u] \in TakePlaces
             /\ FirstIsPassed <=> pc[u] = "decItems"
             /\ FirstIsDecoded' <=> at \in TakePlaces
             /\ FirstIsPassed' <=> at = "decItems"
  <2>1. FirstIsDecoded <=> pc[u] \in TakePlaces  BY <1>2, <1>3, <1>4, <1>8
  <2>2. FirstIsPassed <=> pc[u] = "decItems"  BY <1>2, <1>3, <1>5, <1>8
  <2>3. FirstIsDecoded' <=> at \in TakePlaces  BY <1>1, <1>2, <1>3, <1>4, <1>8
  <2>4. FirstIsPassed' <=> at = "decItems"  BY <1>1, <1>2, <1>3, <1>5, <1>8
  <2> QED  BY <2>1, <2>2, <2>3, <2>4
<1>9. pc[u] \in WritePlaces \ {"incItems"} => WriterAhead = 0
  BY <1>2, <1>3 DEF WriterAhead
<1> QED  BY <1>6, <1>7, <1>8, <1>9

LEMMA QueueStays ==
  ASSUME UNCHANGED <<minor, items, FirstPos>>, FirstIsDecoded' = FirstIsDecoded,
         \A i \in 1 .. items : buffer'[Cell(i)] = buffer[Cell(i)]
  PROVE  QueueView' = QueueView
<1>1. \A i \in 1 .. items : buffer'[(FirstPos' + i - 1) % translate_bufsize] =
                              buffer[(FirstPos + i - 1) % translate_bufsize]
  BY DEF Cell
<1>2. FirstIsDecoded' = FirstIsDecoded /\ minor' = minor /\ items' = items  OBVIOUS
<1> HIDE DEF FirstIsDecoded
<1> QED  BY <1>1, <1>2 DEF QueueView

\* Where the device has nothing of the process that is not yet, or no more, a
\* character of the queue.
Between == {"closed", "open", "checkFull", "copyFrom", "checkEmpty", "decode"}

\* A step that leaves the device alone.
LEMMA DeviceRests ==
  ASSUME QueueInv, NEW u \in Users, NEW at \in Between, pc[u] \in Between,
         pc' = [pc EXCEPT ![u] = at], UNCHANGED device,
         \A v \in Users : v # u => todo'[v] = todo[v] /\ got'[v] = got[v]
  PROVE  /\ QueueView' = QueueView /\ minor' = minor /\ StoredInv' /\ GotInv'
         /\ CallView[u] = CallOf(pc[u])
         /\ CallView' = [CallView EXCEPT ![u] = CallOf(at)]
         /\ CallOf(at) = CallOf(pc[u]) => CallView' = CallView
         /\ GotView' = [GotView EXCEPT ![u] = got'[u]]
         /\ got'[u] = got[u] => GotView' = GotView
<1>1. UNCHANGED <<minor, buffer, items, read_pos, write_pos>>  BY DEF device
<1>2. /\ pc[u] \notin TakePlaces /\ at \notin TakePlaces
      /\ pc[u] # "decItems" /\ at # "decItems"
  BY DEF Between, TakePlaces
<1>3. FirstIsDecoded' = FirstIsDecoded /\ FirstIsPassed' = FirstIsPassed
  BY <1>2, FlagsMove DEF QueueInv
<1>4. FirstPos' = FirstPos  BY <1>1, <1>3 DEF FirstPos
<1>5. QueueView' = QueueView  BY <1>1, <1>3, <1>4, QueueStays
<1>6. \A v \in Users : v # u => pc'[v] = pc[v]  BY DEF QueueInv, DeviceInv, TypeOK
<1>7. pc'[u] = at  BY DEF QueueInv, DeviceInv, TypeOK
<1>8. StoredInv'
  BY <1>1, <1>4, <1>6, <1>7 DEF StoredInv, QueueInv, Between, Cell, Stored
<1>9. GotInv'  BY <1>1, <1>4, <1>6, <1>7 DEF GotInv, QueueInv, Between
<1>10. GotOf(at, got'[u]) = got'[u] /\ GotOf(pc[u], got[u]) = got[u]
  BY DEF GotOf, Between
<1>11. TypeOK /\ \A v \in Users : v # u => got'[v] = got[v]  BY DEF QueueInv, DeviceInv
<1>12. /\ CallView' = [CallView EXCEPT ![u] = CallOf(at)]
       /\ GotView' = [GotView EXCEPT ![u] = GotOf(at, got'[u])]
       /\ CallView[u] = CallOf(pc[u])
       /\ CallOf(at) = CallOf(pc[u]) => CallView' = CallView
       /\ GotOf(at, got'[u]) = GotOf(pc[u], got[u]) => GotView' = GotView
  BY <1>11, ViewsMove
<1> QED  BY <1>1, <1>5, <1>8, <1>9, <1>10, <1>12

LEMMA OpenCloseAsFifo ==
  ASSUME QueueInv, NEW u \in Users, Open(u) \/ Close(u)
  PROVE  StoredInv' /\ GotInv' /\ UNCHANGED Fifo!fifovars
<1>1. PICK at \in {"open", "closed"} :
        pc[u] \in {"open", "closed"} /\ pc' = [pc EXCEPT ![u] = at]
  BY DEF Open, Close, Goto
<1>2. UNCHANGED <<device, locals>>  BY DEF Open, Close
<1>3. UNCHANGED <<todo, left, got>>  BY <1>2 DEF locals
<1>4. at \in Between /\ pc[u] \in Between /\ CallOf(at) = CallOf(pc[u])
  BY <1>1, CallOfPlaces DEF Between
<1>5. /\ QueueView' = QueueView /\ minor' = minor /\ StoredInv' /\ GotInv'
      /\ CallView' = CallView /\ GotView' = GotView
  BY <1>1, <1>2, <1>3, <1>4, DeviceRests
<1> QED  BY <1>3, <1>5 DEF Fifo!fifovars

LEMMA BeginAsFifo ==
  ASSUME QueueInv, NEW u \in Users, BeginWrite(u) \/ BeginRead(u)
  PROVE  StoredInv' /\ GotInv' /\ (Fifo!StartWrite(u) \/ Fifo!StartRead(u))
<1>1. TypeOK  BY DEF QueueInv, DeviceInv
<1>2. CASE BeginWrite(u)
  <2>1. PICK buf \in Buffers :
          /\ pc[u] = "open" /\ todo' = [todo EXCEPT ![u] = buf]
          /\ pc' = [pc EXCEPT ![u] = "checkFull"] /\ UNCHANGED <<device, left, got>>
    BY <1>2 DEF BeginWrite, Goto
  <2>2. "checkFull" \in Between /\ pc[u] \in Between  BY <2>1 DEF Between
  <2>3. \A v \in Users : v # u => todo'[v] = todo[v] /\ got'[v] = got[v]
    BY <1>1, <2>1 DEF TypeOK
  <2>4. /\ QueueView' = QueueView /\ minor' = minor /\ StoredInv' /\ GotInv'
        /\ CallView[u] = CallOf("open")
        /\ CallView' = [CallView EXCEPT ![u] = CallOf("checkFull")]
        /\ GotView' = GotView
    BY <2>1, <2>2, <2>3, DeviceRests
  <2>5. CallOf("checkFull") = "write" /\ CallOf("open") = "none"
    BY CallOfPlaces DEF WritePlaces
  <2>6. buf \in Fifo!Buffers  BY DEF Buffers, Fifo!Buffers
  <2> QED  BY <2>1, <2>4, <2>5, <2>6 DEF Fifo!StartWrite
<1>3. CASE BeginRead(u)
  <2>1. PICK count \in 0 .. MaxCount :
          /\ pc[u] = "open" /\ left' = [left EXCEPT ![u] = count]
          /\ pc' = [pc EXCEPT ![u] = "checkEmpty"] /\ UNCHANGED <<device, todo, got>>
    BY <1>3 DEF BeginRead, Goto
  <2>2. "checkEmpty" \in Between /\ pc[u] \in Between  BY <2>1 DEF Between
  <2>3. /\ QueueView' = QueueView /\ minor' = minor /\ StoredInv' /\ GotInv'
        /\ CallView[u] = CallOf("open")
        /\ CallView' = [CallView EXCEPT ![u] = CallOf("checkEmpty")]
        /\ GotView' = GotView
    BY <2>1, <2>2, DeviceRests
  <2>4. CallOf("checkEmpty") = "read" /\ CallOf("open") = "none"
    BY CallOfPlaces DEF ReadPlaces
  <2> QED  BY <2>1, <2>3, <2>4 DEF Fifo!StartRead
<1> QED  BY <1>2, <1>3

\* A call that returns.
LEMMA LeavesAsFifo ==
  ASSUME QueueInv, NEW u \in Users, Leaves(u), minor' = minor
  PROVE  Fifo!Ends(u)
<1>1. TypeOK  BY DEF QueueInv, DeviceInv
<1>2. /\ pc' = [pc EXCEPT ![u] = "open"] /\ got' = [got EXCEPT ![u] = <<>>]
      /\ todo' = [todo EXCEPT ![u] = <<>>] /\ left' = [left EXCEPT ![u] = 0]
  BY DEF Leaves, Goto
<1>3. got'[u] = <<>> /\ \A v \in Users : v # u => got'[v] = got[v]
  BY <1>1, <1>2 DEF TypeOK
<1>4. CallOf("open") = "none" /\ GotOf("open", got'[u]) = <<>>
  BY <1>3, CallOfPlaces DEF GotOf
<1>5. /\ CallView' = [CallView EXCEPT ![u] = "none"]
      /\ GotView' = [GotView EXCEPT ![u] = <<>>]
  <2>1. /\ CallView' = [CallView EXCEPT ![u] = CallOf("open")]
        /\ GotView' = [GotView EXCEPT ![u] = GotOf("open", got'[u])]
    BY <1>1, <1>2, <1>3, ViewsMove
  <2> QED  BY <1>4, <2>1
<1> QED  BY <1>2, <1>5 DEF Fifo!Ends

LEMMA CheckAsFifo ==
  ASSUME QueueInv, NEW u \in Users, CheckFull(u) \/ CheckEmpty(u)
  PROVE  /\ StoredInv' /\ GotInv'
         /\ Fifo!EndWrite(u) \/ Fifo!EndRead(u) \/ UNCHANGED Fifo!fifovars
<1>1. TypeOK /\ Len(QueueView) = items  BY QueueTyped DEF QueueInv, DeviceInv
<1>2. pc[u] \in {"checkFull", "checkEmpty"} /\ UNCHANGED device
  BY DEF CheckFull, CheckEmpty
<1>3. pc[u] \in Between  BY <1>2 DEF Between
<1>4. CASE Leaves(u)
  <2>1. /\ pc' = [pc EXCEPT ![u] = "open"] /\ got' = [got EXCEPT ![u] = <<>>]
        /\ todo' = [todo EXCEPT ![u] = <<>>]
    BY <1>4 DEF Leaves, Goto
  <2>2. \A v \in Users : v # u => todo'[v] = todo[v] /\ got'[v] = got[v]
    BY <1>1, <2>1 DEF TypeOK
  <2>3. "open" \in Between  BY DEF Between
  <2>4. /\ QueueView' = QueueView /\ minor' = minor /\ StoredInv' /\ GotInv'
        /\ CallView[u] = CallOf(pc[u])
    BY <1>2, <1>3, <2>1, <2>2, <2>3, DeviceRests
  <2>5. Fifo!Ends(u)  BY <1>4, <2>4, LeavesAsFifo
  <2>6. CASE CheckFull(u)
    <3>1. CallView[u] = "write"  BY <2>4, <2>6, CallOfPlaces DEF CheckFull, WritePlaces
    <3>2. todo[u] = <<>> \/ items = translate_bufsize
      BY <2>1, <2>6, <1>1 DEF CheckFull, IsFull, Goto, TypeOK
    <3> QED  BY <1>1, <2>4, <2>5, <3>1, <3>2 DEF Fifo!EndWrite
  <2>7. CASE CheckEmpty(u)
    <3>1. CallView[u] = "read"  BY <2>4, <2>7, CallOfPlaces DEF CheckEmpty, ReadPlaces
    <3>2. left[u] = 0 \/ items = 0
      BY <2>1, <2>7, <1>1 DEF CheckEmpty, Goto, TypeOK
    <3>3. items = 0 => QueueView = <<>>
      BY <1>1, QueueTyped DEF QueueInv
    <3> QED  BY <2>4, <2>5, <3>1, <3>2, <3>3 DEF Fifo!EndRead
  <2> QED  BY <2>4, <2>6, <2>7
<1>5. CASE ~Leaves(u)
  <2>1. PICK at \in {"copyFrom", "decode"} :
          /\ pc' = [pc EXCEPT ![u] = at] /\ UNCHANGED locals
          /\ pc[u] = IF at = "copyFrom" THEN "checkFull" ELSE "checkEmpty"
    BY <1>5 DEF CheckFull, CheckEmpty, Goto
  <2>2. UNCHANGED <<todo, left, got>>  BY <2>1 DEF locals
  <2>3. at \in Between /\ CallOf(at) = CallOf(pc[u])
    BY <2>1, CallOfPlaces DEF Between, WritePlaces, ReadPlaces
  <2>4. /\ QueueView' = QueueView /\ minor' = minor /\ StoredInv' /\ GotInv'
        /\ CallView' = CallView /\ GotView' = GotView
    BY <1>2, <1>3, <2>1, <2>2, <2>3, DeviceRests
  <2> QED  BY <2>2, <2>4 DEF Fifo!fifovars
<1> QED  BY <1>4, <1>5

\* What the invariant says of the cells the reader and the writer work on.
LEMMA EndsOfQueue ==
  ASSUME QueueInv
  PROVE  /\ Cell(1) = FirstPos
         /\ \A v \in Users : pc[v] \in WritePlaces \ {"checkFull"} =>
              /\ items + 1 \in 1 .. translate_bufsize /\ todo[v] # <<>>
              /\ pc[v] # "incItems" => write_pos = Cell(items + 1)
         /\ \A v \in Users : pc[v] \in ReadPlaces \ {"checkEmpty"} =>
              items > 0 /\ left[v] > 0
         /\ \A i \in 1 .. items, k \in 1 .. translate_bufsize :
              Cell(i) = Cell(k) => i = k
<1>1. DeviceInv /\ translate_bufsize \in Nat \ {0}  BY SizeAssumption DEF QueueInv
<1>2. items \in 0 .. translate_bufsize /\ FirstPos \in Cells  BY <1>1, CellsInRow
<1>3. Cell(1) = FirstPos
  <2>1. /\ Cell(1) \in Cells
        /\ Cell(1) = FirstPos + 1 - 1 \/ Cell(1) = FirstPos + 1 - 1 - translate_bufsize
    BY <1>1, CellsInRow
  <2> QED  BY <1>1, <1>2, <2>1 DEF Cells
<1>4. ASSUME NEW v \in Users, pc[v] \in WritePlaces \ {"checkFull"}
      PROVE  /\ items + 1 \in 1 .. translate_bufsize /\ todo[v] # <<>>
             /\ pc[v] # "incItems" => write_pos = Cell(items + 1)
  <2>1. items < translate_bufsize /\ todo[v] # <<>>
    BY <1>1, <1>4 DEF DeviceInv, CallInv, LoopInv
  <2>2. pc[v] # "incItems" => WriterAhead = 0
    <3>1. pc[v] # "incItems" => pc[v] \in WritePlaces \ {"incItems"}  BY <1>4
    <3>2. \A x \in Users : pc[v] \in WritePlaces /\ pc[x] \in WritePlaces => v = x
      BY <1>1, OneCallPerPort
    <3>3. "incItems" \in WritePlaces  BY DEF WritePlaces
    <3> QED  BY <1>4, <3>1, <3>2, <3>3 DEF WriterAhead
  <2> QED  BY <1>1, <1>2, <2>1, <2>2, CellsInRow
<1>5. \A v \in Users : pc[v] \in ReadPlaces \ {"checkEmpty"} => items > 0 /\ left[v] > 0
  BY <1>1 DEF DeviceInv, CallInv, LoopInv
<1>6. ASSUME NEW i \in 1 .. items, NEW k \in 1 .. translate_bufsize, Cell(i) = Cell(k)
      PROVE  i = k
  <2>1. i \in 1 .. translate_bufsize  BY <1>1, <1>2
  <2> QED  BY <1>1, <1>6, <2>1, CellsApart
<1> QED  BY <1>3, <1>4, <1>5, <1>6

\* The other processes are not in the same kind of call, and stay where they are.
LEMMA OthersStay ==
  ASSUME QueueInv, NEW u \in Users, NEW at, pc' = [pc EXCEPT ![u] = at]
  PROVE  /\ pc'[u] = at
         /\ \A v \in Users : v # u =>
              /\ pc'[v] = pc[v]
              /\ pc[u] \in WritePlaces => pc'[v] \notin WritePlaces
              /\ pc[u] \in ReadPlaces => pc'[v] \notin ReadPlaces
<1>1. pc'[u] = at /\ \A v \in Users : v # u => pc'[v] = pc[v]
  BY DEF QueueInv, DeviceInv, TypeOK
<1>2. \A v \in Users : /\ pc[u] \in WritePlaces /\ pc[v] \in WritePlaces => u = v
                       /\ pc[u] \in ReadPlaces /\ pc[v] \in ReadPlaces => u = v
  BY OneCallPerPort DEF QueueInv
<1> QED  BY <1>1, <1>2

\* The writer changes the cell behind the queue, and nobody sees it.
LEMMA WriterStores ==
  ASSUME QueueInv, NEW u \in Users, pc[u] \in {"copyFrom", "encode"},
         NEW at \in {"encode", "moveWrite", "open"}, pc' = [pc EXCEPT ![u] = at],
         NEW c, buffer' = [buffer EXCEPT ![write_pos] = c],
         UNCHANGED <<minor, items, read_pos, write_pos>>,
         \A v \in Users : v # u => got'[v] = got[v]
  PROVE  /\ QueueView' = QueueView /\ buffer'[write_pos] = c /\ GotInv'
<1>1. /\ items + 1 \in 1 .. translate_bufsize /\ write_pos = Cell(items + 1)
      /\ pc[u] \in WritePlaces
  <2>1. pc[u] \in WritePlaces \ {"checkFull", "incItems"}  BY DEF WritePlaces
  <2> QED  BY <2>1, EndsOfQueue
<1>2. FirstIsDecoded' = FirstIsDecoded /\ FirstIsPassed' = FirstIsPassed
  <2>1. /\ pc[u] \notin TakePlaces /\ at \notin TakePlaces
        /\ pc[u] # "decItems" /\ at # "decItems"
    BY DEF TakePlaces
  <2> QED  BY <2>1, FlagsMove DEF QueueInv
<1>3. FirstPos' = FirstPos  BY <1>2 DEF FirstPos
<1>4. items \in Nat /\ items <= translate_bufsize /\ translate_bufsize \in Nat
  BY CellsInRow, SizeAssumption DEF QueueInv
<1>5. \A i \in 1 .. items : Cell(i) # write_pos
  <2> TAKE i \in 1 .. items
  <2>1. i # items + 1  BY <1>4
  <2> QED  BY <1>1, <2>1, EndsOfQueue
<1>6. /\ DOMAIN buffer = Cells /\ write_pos \in Cells
      /\ \A v \in Users : pc[v] \in ReadPlaces \ {"checkEmpty"} => 1 \in 1 .. items
  BY <1>4, EndsOfQueue DEF QueueInv, DeviceInv, TypeOK
<1>7. buffer'[write_pos] = c /\ \A i \in 1 .. items : buffer'[Cell(i)] = buffer[Cell(i)]
  BY <1>5, <1>6
<1>8. QueueView' = QueueView  BY <1>2, <1>3, <1>7, QueueStays
<1>9. GotInv'
  <2> SUFFICES ASSUME NEW v \in Users, pc'[v] \in {"moveRead", "decItems"}
               PROVE  got'[v] # <<>> /\ got'[v][Len(got'[v])] = buffer'[FirstPos']
    BY DEF GotInv
  <2>1. v # u /\ pc[v] = pc'[v]  BY OthersStay
  <2>2. buffer'[FirstPos] = buffer[FirstPos]
    <3>1. pc[v] \in ReadPlaces \ {"checkEmpty"}  BY <2>1 DEF ReadPlaces
    <3> QED  BY <1>6, <1>7, <3>1, EndsOfQueue
  <2> QED  BY <1>3, <2>1, <2>2 DEF QueueInv, GotInv
<1> QED  BY <1>7, <1>8, <1>9

LEMMA CopyFromAsFifo ==
  ASSUME QueueInv, NEW u \in Users, CopyFromUser(u) \/ FailCopyFrom(u) \/ Encode(u)
  PROVE  /\ StoredInv' /\ GotInv'
         /\ Fifo!FailWrite(u) \/ UNCHANGED Fifo!fifovars
<1>1. TypeOK /\ Len(QueueView) = items /\ items \in Nat /\ translate_bufsize \in Nat
  BY QueueTyped, CellsInRow, SizeAssumption DEF QueueInv, DeviceInv
<1>2. ASSUME pc[u] \in {"copyFrom", "encode"}
      PROVE  /\ items + 1 \in 1 .. translate_bufsize /\ todo[u] # <<>>
             /\ pc[u] \in WritePlaces /\ CallOf(pc[u]) = "write"
  <2>1. pc[u] \in WritePlaces \ {"checkFull"}  BY <1>2 DEF WritePlaces
  <2> QED  BY <2>1, EndsOfQueue, CallOfPlaces
<1>3. CASE CopyFromUser(u)
  <2>1. /\ pc[u] = "copyFrom" /\ pc' = [pc EXCEPT ![u] = "encode"]
        /\ buffer' = [buffer EXCEPT ![write_pos] = Head(todo[u])]
        /\ UNCHANGED <<minor, items, read_pos, write_pos, todo, left, got>>
    BY <1>3 DEF CopyFromUser, Goto, locals
  <2>2. QueueView' = QueueView /\ buffer'[write_pos] = Head(todo[u]) /\ GotInv'
    BY <2>1, WriterStores
  <2>3. StoredInv'
    <3>1. pc'[u] = "encode" /\ \A v \in Users : v # u => pc'[v] \notin WritePlaces
      BY <1>2, <2>1, OthersStay
    <3> QED  BY <2>1, <2>2, <3>1 DEF StoredInv, WritePlaces
  <2>4. /\ CallOf("encode") = CallOf(pc[u])
        /\ GotOf("encode", got'[u]) = GotOf(pc[u], got[u])
    BY <2>1, CallOfPlaces DEF GotOf, WritePlaces
  <2>5. CallView' = CallView /\ GotView' = GotView
    <3>1. \A v \in Users : v # u => got'[v] = got[v]  BY <2>1
    <3> QED  BY <1>1, <2>1, <2>4, <3>1, ViewsMove
  <2> QED  BY <2>1, <2>2, <2>3, <2>5 DEF Fifo!fifovars
<1>4. CASE FailCopyFrom(u)
  <2>1. /\ pc[u] = "copyFrom" /\ pc' = [pc EXCEPT ![u] = "open"]
        /\ buffer' = [buffer EXCEPT ![write_pos] = NUL]
        /\ UNCHANGED <<minor, items, read_pos, write_pos>> /\ Leaves(u)
        /\ got' = [got EXCEPT ![u] = <<>>]
    BY <1>4 DEF FailCopyFrom, Goto, Leaves
  <2>2. \A v \in Users : v # u => got'[v] = got[v]  BY <1>1, <2>1 DEF TypeOK
  <2>3. QueueView' = QueueView /\ GotInv'
    BY <2>1, <2>2, WriterStores
  <2>4. StoredInv'
    <3>1. pc'[u] = "open" /\ \A v \in Users : v # u => pc'[v] \notin WritePlaces
      BY <1>2, <2>1, OthersStay
    <3> QED  BY <3>1 DEF StoredInv, WritePlaces
  <2>5. CallView[u] = "write"  BY <1>1, <1>2, <2>1, <2>2, ViewsMove
  <2>6. Fifo!Ends(u)  BY <2>1, LeavesAsFifo
  <2>7. todo[u] # <<>> /\ Len(QueueView) < translate_bufsize  BY <1>1, <1>2, <2>1
  <2> QED  BY <2>3, <2>4, <2>5, <2>6, <2>7 DEF Fifo!FailWrite
<1>5. CASE Encode(u)
  <2>1. /\ pc[u] = "encode" /\ pc' = [pc EXCEPT ![u] = "moveWrite"]
        /\ buffer' = IF minor = 0
                       THEN [buffer EXCEPT ![write_pos] =
                               encode_char(translate_subst, buffer[write_pos])]
                       ELSE buffer
        /\ UNCHANGED <<minor, items, read_pos, write_pos, todo, left, got>>
    BY <1>5 DEF Encode, Goto, locals
  <2>2. buffer' = [buffer EXCEPT ![write_pos] = Stored(buffer[write_pos])]
    BY <1>1, <2>1 DEF Stored, TypeOK
  <2>3. /\ QueueView' = QueueView /\ buffer'[write_pos] = Stored(buffer[write_pos])
        /\ GotInv'
    BY <2>1, <2>2, WriterStores
  <2>4. StoredInv'
    <3>1. pc'[u] = "moveWrite" /\ \A v \in Users : v # u => pc'[v] \notin WritePlaces
      BY <1>2, <2>1, OthersStay
    <3>2. buffer'[write_pos'] = Stored(Head(todo[u]))'
      BY <2>1, <2>3 DEF QueueInv, StoredInv, Stored
    <3> QED  BY <3>1, <3>2 DEF StoredInv, WritePlaces
  <2>5. /\ CallOf("moveWrite") = CallOf(pc[u])
        /\ GotOf("moveWrite", got'[u]) = GotOf(pc[u], got[u])
    BY <2>1, CallOfPlaces DEF GotOf, WritePlaces
  <2>6. CallView' = CallView /\ GotView' = GotView
    <3>1. \A v \in Users : v # u => got'[v] = got[v]  BY <2>1
    <3> QED  BY <1>1, <2>1, <2>5, <3>1, ViewsMove
  <2> QED  BY <2>1, <2>3, <2>4, <2>6 DEF Fifo!fifovars
<1> QED  BY <1>3, <1>4, <1>5

LEMMA MoveWritePosAsFifo ==
  ASSUME QueueInv, NEW u \in Users, MoveWritePos(u)
  PROVE  StoredInv' /\ GotInv' /\ UNCHANGED Fifo!fifovars
<1>1. /\ pc[u] = "moveWrite" /\ pc' = [pc EXCEPT ![u] = "incItems"]
      /\ UNCHANGED <<minor, buffer, items, read_pos, todo, left, got>>
  BY DEF MoveWritePos, Goto
<1>2. FirstIsDecoded' = FirstIsDecoded /\ FirstIsPassed' = FirstIsPassed
  <2>1. /\ pc[u] \notin TakePlaces /\ "incItems" \notin TakePlaces
        /\ pc[u] # "decItems" /\ "incItems" # "decItems"
    BY <1>1 DEF TakePlaces
  <2> QED  BY <1>1, <2>1, FlagsMove DEF QueueInv
<1>3. FirstPos' = FirstPos  BY <1>1, <1>2 DEF FirstPos
<1>4. QueueView' = QueueView  BY <1>1, <1>2, <1>3, QueueStays
<1>5. pc[u] \in WritePlaces \ {"checkFull"} /\ pc[u] # "incItems"
  BY <1>1 DEF WritePlaces
<1>6. /\ pc'[u] = "incItems"
      /\ \A v \in Users : v # u => pc'[v] = pc[v] /\ pc'[v] \notin WritePlaces
  BY <1>1, <1>5, OthersStay
<1>7. StoredInv'
  <2>1. buffer[Cell(items + 1)] = Stored(Head(todo[u]))
    BY <1>1, <1>5, EndsOfQueue DEF QueueInv, StoredInv
  <2>2. buffer'[Cell(items + 1)'] = Stored(Head(todo[u]))'
    BY <1>1, <1>3, <2>1 DEF Stored, Cell
  <2> QED  BY <1>6, <2>2 DEF StoredInv, WritePlaces
<1>8. GotInv'  BY <1>1, <1>3, <1>6 DEF GotInv, QueueInv
<1>9. /\ CallOf("incItems") = CallOf(pc[u])
      /\ GotOf("incItems", got'[u]) = GotOf(pc[u], got[u])
  BY <1>1, CallOfPlaces DEF GotOf, WritePlaces
<1>10. CallView' = CallView /\ GotView' = GotView
  BY <1>1, <1>9, ViewsMove DEF QueueInv, DeviceInv
<1> QED  BY <1>1, <1>4, <1>7, <1>8, <1>10 DEF Fifo!fifovars

LEMMA IncItemsAsFifo ==
  ASSUME QueueInv, NEW u \in Users, IncItems(u)
  PROVE  StoredInv' /\ GotInv' /\ Fifo!Put(u)
<1>1. /\ pc[u] = "incItems" /\ pc' = [pc EXCEPT ![u] = "checkFull"]
      /\ items' = items + 1 /\ todo' = [todo EXCEPT ![u] = Tail(@)]
      /\ UNCHANGED <<minor, buffer, read_pos, left, got>>
  BY ItemsInRange DEF IncItems, Goto, QueueInv, Step
<1>2. FirstIsDecoded' = FirstIsDecoded /\ FirstIsPassed' = FirstIsPassed
  <2>1. /\ pc[u] \notin TakePlaces /\ "checkFull" \notin TakePlaces
        /\ pc[u] # "decItems" /\ "checkFull" # "decItems"
    BY <1>1 DEF TakePlaces
  <2> QED  BY <1>1, <2>1, FlagsMove DEF QueueInv
<1>3. FirstPos' = FirstPos /\ \A i : Cell(i)' = Cell(i)
  BY <1>1, <1>2 DEF FirstPos, Cell
<1>4. pc[u] \in WritePlaces \ {"checkFull"}  BY <1>1 DEF WritePlaces
<1>5. /\ items + 1 \in 1 .. translate_bufsize /\ todo[u] # <<>>
      /\ QueueView \in Seq(Char) /\ Len(QueueView) = items /\ items \in Nat
      /\ translate_bufsize \in Nat /\ minor \in {0, 1}
  BY <1>4, EndsOfQueue, QueueTyped, CellsInRow, SizeAssumption
  DEF QueueInv, DeviceInv, TypeOK
<1>6. /\ pc'[u] = "checkFull"
      /\ \A v \in Users : v # u => pc'[v] = pc[v] /\ pc'[v] \notin WritePlaces
  BY <1>1, <1>4, OthersStay
<1>7. StoredInv'  BY <1>6 DEF StoredInv, WritePlaces
<1>8. GotInv'  BY <1>1, <1>3, <1>6 DEF GotInv, QueueInv
<1>9. QueueView' = Append(QueueView, Fifo!Translated(Head(todo[u])))
  <2> DEFINE c == Fifo!Translated(Head(todo[u]))
  <2>1. DOMAIN QueueView' = 1 .. items + 1
        /\ \A i \in 1 .. items + 1 :
             QueueView'[i] = IF minor = 1 /\ ~(i = 1 /\ FirstIsDecoded)
                               THEN decode_char(translate_subst, buffer[Cell(i)])
                               ELSE buffer[Cell(i)]
    <3>1. DOMAIN QueueView' = 1 .. items'
          /\ \A i \in 1 .. items' :
               QueueView'[i] = IF minor' = 1 /\ ~(i = 1 /\ FirstIsDecoded')
                                 THEN decode_char(translate_subst, buffer'[Cell(i)'])
                                 ELSE buffer'[Cell(i)']
      BY DEF QueueView, Cell
    <3>2. /\ items' = items + 1 /\ minor' = minor /\ buffer' = buffer
          /\ FirstIsDecoded' = FirstIsDecoded
      BY <1>1, <1>2
    <3> HIDE DEF FirstIsDecoded, QueueView
    <3> QED  BY <1>3, <3>1, <3>2
  <2>2. \A i \in 1 .. items : QueueView'[i] = QueueView[i]
    BY <1>5, <2>1, QueueIs
  <2>3. QueueView'[items + 1] = c
    <3>1. buffer[Cell(items + 1)] = Stored(Head(todo[u]))
      BY <1>1 DEF QueueInv, StoredInv
    <3>2. ~(items + 1 = 1 /\ FirstIsDecoded)
      <4>1. ASSUME FirstIsDecoded PROVE items > 0
        <5>1. PICK v \in Users : pc[v] \in ReadPlaces \ {"checkEmpty"}
          BY <4>1 DEF FirstIsDecoded, ReadPlaces
        <5> QED  BY <5>1, EndsOfQueue
      <4> QED  BY <1>5, <4>1
    <3>3. QueueView'[items + 1] = IF minor = 1
                                    THEN decode_char(translate_subst, buffer[Cell(items + 1)])
                                    ELSE buffer[Cell(items + 1)]
      BY <1>5, <2>1, <3>2
    <3> QED  BY <1>5, <3>1, <3>3, CodecIsShared DEF Stored, Fifo!Translated
  <2>4. c \in Char
    <3>1. Head(todo[u]) \in Char
      BY <1>5, UseAssumption DEF QueueInv, DeviceInv, TypeOK
    <3> QED  BY <3>1, CodecType, CodecIsShared DEF Fifo!Translated
  <2> HIDE DEF c
  <2>5. /\ Append(QueueView, c) \in Seq(Char) /\ Len(Append(QueueView, c)) = items'
        /\ \A i \in 1 .. items' : QueueView'[i] = Append(QueueView, c)[i]
    BY <1>1, <1>5, <2>2, <2>3, <2>4, AppendProperties
  <2>6. QueueView' = Append(QueueView, c)  BY <2>5, QueueBecomes
  <2> QED  BY <2>6 DEF c
<1>10. CallOf("checkFull") = CallOf(pc[u]) /\ CallOf(pc[u]) = "write"
       /\ GotOf("checkFull", got'[u]) = GotOf(pc[u], got[u])
  BY <1>1, CallOfPlaces DEF GotOf, WritePlaces
<1>11. CallView' = CallView /\ GotView' = GotView /\ CallView[u] = "write"
  BY <1>1, <1>10, ViewsMove DEF QueueInv, DeviceInv
<1> QED  BY <1>1, <1>5, <1>7, <1>8, <1>9, <1>11 DEF Fifo!Put

\* Where a process stands that stores, or that has copied and not counted, is
\* outside the steps of the other.
LEMMA StoredStays ==
  ASSUME QueueInv, NEW u \in Users, pc[u] \in ReadPlaces, NEW at, at \notin WritePlaces,
         pc' = [pc EXCEPT ![u] = at], UNCHANGED <<minor, write_pos>>,
         \A v \in Users : v # u => todo'[v] = todo[v],
         items + 1 \in 1 .. translate_bufsize =>
           /\ buffer'[Cell(items + 1)] = buffer[Cell(items + 1)]
           /\ Cell(items + 1)' = Cell(items + 1)
  PROVE  StoredInv'
<1> SUFFICES ASSUME NEW v \in Users, pc'[v] \in WritePlaces \ {"checkFull"}
             PROVE  /\ pc'[v] = "encode" => buffer'[write_pos'] = Head(todo'[v])
                    /\ pc'[v] = "moveWrite" => buffer'[write_pos'] = Stored(Head(todo[v]))'
                    /\ pc'[v] = "incItems" =>
                         buffer'[Cell(items + 1)'] = Stored(Head(todo[v]))'
  BY DEF StoredInv, WritePlaces
<1>1. v # u /\ pc[v] = pc'[v]  BY OthersStay
<1>2. /\ items + 1 \in 1 .. translate_bufsize
      /\ pc[v] # "incItems" => write_pos = Cell(items + 1)
  BY <1>1, EndsOfQueue
<1>3. /\ buffer'[Cell(items + 1)] = buffer[Cell(items + 1)]
      /\ Cell(items + 1)' = Cell(items + 1)
  BY <1>2
<1>4. todo'[v] = todo[v] /\ Stored(Head(todo[v]))' = Stored(Head(todo[v]))
  BY <1>1 DEF Stored
<1> QED  BY <1>1, <1>2, <1>3, <1>4 DEF QueueInv, StoredInv

LEMMA DecodeAsFifo ==
  ASSUME QueueInv, NEW u \in Users, Decode(u)
  PROVE  StoredInv' /\ GotInv' /\ UNCHANGED Fifo!fifovars
<1>1. /\ pc[u] = "decode" /\ pc' = [pc EXCEPT ![u] = "copyTo"]
      /\ buffer' = IF minor = 1
                     THEN [buffer EXCEPT ![read_pos] =
                             decode_char(translate_subst, buffer[read_pos])]
                     ELSE buffer
      /\ UNCHANGED <<minor, items, read_pos, write_pos, todo, left, got>>
  BY DEF Decode, Goto, locals
<1>2. /\ pc[u] \in ReadPlaces \ {"checkEmpty"} /\ "copyTo" \in ReadPlaces
      /\ "copyTo" \notin WritePlaces
      /\ pc[u] \notin TakePlaces /\ "copyTo" \in TakePlaces
      /\ pc[u] # "decItems" /\ "copyTo" # "decItems"
  BY <1>1 DEF ReadPlaces, TakePlaces, WritePlaces
<1>3. ~FirstIsDecoded /\ ~FirstIsPassed /\ FirstIsDecoded' /\ ~FirstIsPassed'
  BY <1>1, <1>2, FlagsMove DEF QueueInv
<1>4. FirstPos = read_pos /\ FirstPos' = FirstPos /\ \A i : Cell(i)' = Cell(i)
  BY <1>1, <1>3 DEF FirstPos, Cell
<1>5. /\ items > 0 /\ items \in Nat /\ items <= translate_bufsize
      /\ translate_bufsize \in Nat /\ read_pos = Cell(1)
      /\ QueueView \in Seq(Char) /\ Len(QueueView) = items
      /\ DOMAIN buffer = Cells /\ read_pos \in Cells
  <2>1. DeviceInv /\ TypeOK  BY DEF QueueInv, DeviceInv
  <2>2. items > 0 /\ Cell(1) = FirstPos  BY <1>2, EndsOfQueue
  <2>3. QueueView \in Seq(Char) /\ Len(QueueView) = items  BY <2>1, QueueTyped
  <2>4. items \in 0 .. translate_bufsize /\ FirstPos \in Cells
    BY <2>1, CellsInRow
  <2>5. DOMAIN buffer = Cells  BY <2>1 DEF TypeOK
  <2> QED  BY <1>4, <2>2, <2>3, <2>4, <2>5, SizeAssumption
<1>6. \A k \in 2 .. translate_bufsize : Cell(k) # read_pos
  <2> TAKE k \in 2 .. translate_bufsize
  <2>1. k # 1 /\ k \in 1 .. translate_bufsize /\ 1 \in 1 .. items  BY <1>5
  <2> QED  BY <1>5, <2>1, EndsOfQueue
<1>7. /\ \A k \in 2 .. translate_bufsize : buffer'[Cell(k)] = buffer[Cell(k)]
      /\ buffer'[Cell(1)] = IF minor = 1
                              THEN decode_char(translate_subst, buffer[Cell(1)])
                              ELSE buffer[Cell(1)]
  BY <1>1, <1>5, <1>6
<1>8. QueueView' = QueueView
  <2>1. \A i \in 1 .. items :
          QueueView'[i] = IF minor = 1 /\ i # 1
                            THEN decode_char(translate_subst, buffer'[Cell(i)])
                            ELSE buffer'[Cell(i)]
    <3>1. \A i \in 1 .. items' :
            QueueView'[i] = IF minor' = 1 /\ ~(i = 1 /\ FirstIsDecoded')
                              THEN decode_char(translate_subst, buffer'[Cell(i)'])
                              ELSE buffer'[Cell(i)']
      BY DEF QueueView, Cell
    <3> HIDE DEF FirstIsDecoded, QueueView
    <3> QED  BY <1>1, <1>3, <1>4, <3>1
  <2>2. \A i \in 1 .. items :
          QueueView[i] = IF minor = 1
                           THEN decode_char(translate_subst, buffer[Cell(i)])
                           ELSE buffer[Cell(i)]
    BY <1>3, QueueIs
  <2>3. \A i \in 1 .. items : i = 1 \/ i \in 2 .. translate_bufsize  BY <1>5
  <2>4. \A i \in 1 .. items : QueueView'[i] = QueueView[i]  BY <1>7, <2>1, <2>2, <2>3
  <2> QED  BY <1>1, <1>5, <2>4, QueueBecomes
<1>9. StoredInv'
  <2>1. items + 1 \in 1 .. translate_bufsize => items + 1 \in 2 .. translate_bufsize
    BY <1>5
  <2> QED  BY <1>1, <1>2, <1>4, <1>7, <2>1, StoredStays
<1>10. GotInv'
  <2>1. pc'[u] = "copyTo" /\ \A v \in Users : v # u => pc'[v] \notin ReadPlaces
    BY <1>1, <1>2, OthersStay
  <2> QED  BY <2>1 DEF GotInv, ReadPlaces
<1>11. /\ CallOf("copyTo") = CallOf(pc[u])
       /\ GotOf("copyTo", got'[u]) = GotOf(pc[u], got[u])
  BY <1>1, <1>2, CallOfPlaces DEF GotOf
<1>12. CallView' = CallView /\ GotView' = GotView
  BY <1>1, <1>11, ViewsMove DEF QueueInv, DeviceInv
<1> QED  BY <1>1, <1>8, <1>9, <1>10, <1>12 DEF Fifo!fifovars

\* The last element of a sequence, put on and taken off.
LEMMA LastOfAppend ==
  ASSUME NEW S, NEW s \in Seq(S), NEW x \in S
  PROVE  /\ Append(s, x) # <<>> /\ Append(s, x)[Len(Append(s, x))] = x
         /\ SubSeq(Append(s, x), 1, Len(Append(s, x)) - 1) = s
<1> DEFINE a == Append(s, x)
<1>1. /\ a \in Seq(S) /\ a # <<>> /\ Len(a) = Len(s) + 1 /\ Len(s) \in Nat
      /\ \A i \in 1 .. Len(s) : a[i] = s[i]
      /\ a[Len(s) + 1] = x
  BY AppendProperties
<1> HIDE DEF a
<1> DEFINE b == SubSeq(a, 1, Len(s))
<1>2. \A i \in 1 .. Len(s) : a[i] \in S  BY <1>1
<1>3. b \in Seq(S) /\ Len(b) = Len(s) /\ \A i \in 1 .. Len(s) : b[i] = s[i]
  <2>1. /\ b \in Seq(S) /\ Len(b) = IF 1 <= Len(s) THEN Len(s) - 1 + 1 ELSE 0
        /\ \A i \in 1 .. Len(s) - 1 + 1 : b[i] = a[1 + i - 1]
    BY <1>1, <1>2, SubSeqProperties
  <2> QED  BY <1>1, <2>1
<1> HIDE DEF b
<1>4. b = s  BY <1>3, SeqEqual
<1> QED  BY <1>1, <1>4 DEF a, b

LEMMA LastTakenOff ==
  ASSUME NEW S, NEW s \in Seq(S), s # <<>>
  PROVE  Append(SubSeq(s, 1, Len(s) - 1), s[Len(s)]) = s
<1> DEFINE n == Len(s) - 1
           b == SubSeq(s, 1, n)
<1>1. n \in Nat /\ Len(s) = n + 1 /\ s[Len(s)] \in S  OBVIOUS
<1>2. \A i \in 1 .. n : s[i] \in S  BY <1>1
<1> HIDE DEF n
<1>3. b \in Seq(S) /\ Len(b) = n /\ \A i \in 1 .. n : b[i] = s[i]
  <2>1. /\ b \in Seq(S) /\ Len(b) = IF 1 <= n THEN n - 1 + 1 ELSE 0
        /\ \A i \in 1 .. n - 1 + 1 : b[i] = s[1 + i - 1]
    BY <1>1, <1>2, SubSeqProperties
  <2> QED  BY <1>1, <2>1
<1> HIDE DEF b
<1> DEFINE a == Append(b, s[Len(s)])
<1>4. /\ a \in Seq(S) /\ Len(a) = Len(b) + 1 /\ a[Len(b) + 1] = s[Len(s)]
      /\ \A i \in 1 .. Len(b) : a[i] = b[i]
  BY <1>1, <1>3, AppendProperties
<1> HIDE DEF a
<1>5. Len(a) = Len(s) /\ \A i \in 1 .. Len(s) : a[i] = s[i]  BY <1>1, <1>3, <1>4
<1>6. a = s  BY <1>4, <1>5, SeqEqual
<1> QED  BY <1>6 DEF a, b, n

LEMMA CopyToAsFifo ==
  ASSUME QueueInv, NEW u \in Users, CopyToUser(u) \/ FailCopyTo(u)
  PROVE  /\ StoredInv' /\ GotInv'
         /\ Fifo!FailRead(u) \/ UNCHANGED Fifo!fifovars
<1>1. /\ pc[u] = "copyTo" /\ UNCHANGED device
      /\ UNCHANGED <<minor, buffer, items, read_pos, write_pos>>
  BY DEF CopyToUser, FailCopyTo, device
<1>2. /\ pc[u] \in ReadPlaces \ {"checkEmpty"} /\ pc[u] \in TakePlaces
      /\ pc[u] # "decItems"
      /\ CallOf(pc[u]) = "read"
  BY <1>1, CallOfPlaces DEF ReadPlaces, TakePlaces
<1>3. FirstIsDecoded /\ ~FirstIsPassed /\ FirstPos = read_pos
  <2>1. FirstIsDecoded <=> pc[u] \in TakePlaces
    BY <1>2 DEF FirstIsDecoded, TakePlaces
  <2>2. ~FirstIsPassed
    BY <1>2, OneCallPerPort DEF FirstIsPassed, QueueInv, DeviceInv, ReadPlaces
  <2> QED  BY <1>2, <2>1, <2>2 DEF FirstPos
<1>4. /\ items > 0 /\ left[u] > 0 /\ items \in Nat /\ items <= translate_bufsize
      /\ translate_bufsize \in Nat /\ read_pos = Cell(1) /\ TypeOK
      /\ QueueView \in Seq(Char) /\ Len(QueueView) = items
      /\ buffer[read_pos] \in Char /\ got[u] \in Seq(Char)
  BY <1>2, <1>3, EndsOfQueue, CellsInRow, QueueTyped, SizeAssumption
  DEF QueueInv, DeviceInv, TypeOK
<1>5. CASE CopyToUser(u)
  <2>1. /\ pc' = [pc EXCEPT ![u] = "moveRead"]
        /\ got' = [got EXCEPT ![u] = Append(got[u], buffer[read_pos])]
        /\ UNCHANGED <<todo, left>>
    BY <1>5 DEF CopyToUser, Goto
  <2>2. FirstIsDecoded' = FirstIsDecoded /\ FirstIsPassed' = FirstIsPassed
    <3>1. "moveRead" \in TakePlaces  BY DEF TakePlaces
    <3> QED  BY <1>2, <2>1, <3>1, FlagsMove DEF QueueInv
  <2>3. FirstPos' = FirstPos /\ \A i : Cell(i)' = Cell(i)
    BY <1>1, <2>2 DEF FirstPos, Cell
  <2>4. QueueView' = QueueView  BY <1>1, <2>2, <2>3, QueueStays
  <2>5. "moveRead" \notin WritePlaces /\ CallOf("moveRead") = CallOf(pc[u])
    BY <1>2, CallOfPlaces DEF WritePlaces, ReadPlaces
  <2>6. StoredInv'  BY <1>1, <1>2, <2>1, <2>3, <2>5, StoredStays
  <2>7. /\ got'[u] = Append(got[u], buffer[read_pos])
        /\ \A v \in Users : v # u => got'[v] = got[v]
    BY <1>4, <2>1 DEF TypeOK
  <2>8. GotInv'
    <3>1. pc'[u] = "moveRead" /\ \A v \in Users : v # u => pc'[v] \notin ReadPlaces
      BY <1>2, <2>1, OthersStay
    <3>2. got'[u] # <<>> /\ got'[u][Len(got'[u])] = buffer'[FirstPos']
      BY <1>1, <1>3, <1>4, <2>3, <2>7, LastOfAppend
    <3> QED  BY <3>1, <3>2 DEF GotInv, ReadPlaces
  <2>9. GotOf("moveRead", got'[u]) = GotOf(pc[u], got[u])
    BY <1>1, <1>4, <2>7, LastOfAppend DEF GotOf
  <2>10. CallView' = CallView /\ GotView' = GotView
    BY <1>4, <2>1, <2>5, <2>7, <2>9, ViewsMove
  <2> QED  BY <1>1, <2>1, <2>4, <2>6, <2>8, <2>10 DEF Fifo!fifovars
<1>6. CASE FailCopyTo(u)
  <2>1. /\ pc' = [pc EXCEPT ![u] = "open"] /\ got' = [got EXCEPT ![u] = <<>>]
        /\ todo' = [todo EXCEPT ![u] = <<>>] /\ Leaves(u)
    BY <1>6 DEF FailCopyTo, Leaves, Goto
  <2>2. ~FirstIsDecoded' /\ ~FirstIsPassed'
    <3>1. /\ (FirstIsDecoded' <=> "open" \in TakePlaces)
          /\ (FirstIsPassed' <=> "open" = "decItems")
      BY <1>2, <2>1, FlagsMove DEF QueueInv
    <3> QED  BY <3>1 DEF TakePlaces
  <2>3. FirstPos' = FirstPos /\ \A i : Cell(i)' = Cell(i)
    BY <1>1, <1>3, <2>2 DEF FirstPos, Cell
  <2>4. /\ \A v \in Users : v # u => todo'[v] = todo[v] /\ got'[v] = got[v]
        /\ "open" \notin WritePlaces
    BY <1>4, <2>1 DEF TypeOK, WritePlaces
  <2>5. StoredInv'  BY <1>1, <1>2, <2>1, <2>3, <2>4, StoredStays
  <2>6. GotInv'
    <3>1. pc'[u] = "open" /\ \A v \in Users : v # u => pc'[v] \notin ReadPlaces
      BY <1>2, <2>1, OthersStay
    <3> QED  BY <3>1 DEF GotInv, ReadPlaces
  <2>7. QueueView' = [QueueView EXCEPT ![1] = Fifo!Spoilt(@)]
    <3> DEFINE q == [QueueView EXCEPT ![1] = Fifo!Spoilt(@)]
    <3>1. \A i \in 1 .. items :
            QueueView'[i] = IF minor = 1
                              THEN decode_char(translate_subst, buffer[Cell(i)])
                              ELSE buffer[Cell(i)]
      <4>1. \A i \in 1 .. items' :
              QueueView'[i] = IF minor' = 1 /\ ~(i = 1 /\ FirstIsDecoded')
                                THEN decode_char(translate_subst, buffer'[Cell(i)'])
                                ELSE buffer'[Cell(i)']
        BY DEF QueueView, Cell
      <4> HIDE DEF FirstIsDecoded, QueueView
      <4> QED  BY <1>1, <2>2, <2>3, <4>1
    <3>2. \A i \in 1 .. items :
            QueueView[i] = IF minor = 1 /\ i # 1
                             THEN decode_char(translate_subst, buffer[Cell(i)])
                             ELSE buffer[Cell(i)]
      BY <1>3, QueueIs
    <3>3. Fifo!Spoilt(QueueView[1]) =
            IF minor = 1 THEN decode_char(translate_subst, QueueView[1]) ELSE QueueView[1]
      BY <1>4, CodecIsShared DEF Fifo!Spoilt, TypeOK
    <3>4. Fifo!Spoilt(QueueView[1]) \in Char
      <4>1. QueueView[1] \in Char  BY <1>4
      <4> QED  BY <3>3, <4>1, CodecType
    <3>5. /\ q \in Seq(Char) /\ Len(q) = items /\ q[1] = Fifo!Spoilt(QueueView[1])
          /\ \A i \in 1 .. items : i # 1 => q[i] = QueueView[i]
      <4> HIDE DEF QueueView
      <4> QED  BY <1>4, <3>4
    <3> HIDE DEF q
    <3>6. \A i \in 1 .. items : QueueView'[i] = q[i]
      BY <1>4, <3>1, <3>2, <3>3, <3>5
    <3> QED  BY <1>1, <3>5, <3>6, QueueBecomes DEF q
  <2>8. CallView[u] = "read"  BY <1>2, <1>4, <2>1, <2>4, ViewsMove
  <2>9. Fifo!Ends(u)  BY <1>1, <2>1, LeavesAsFifo
  <2>10. QueueView # <<>>  BY <1>4
  <2> QED  BY <1>4, <2>5, <2>6, <2>7, <2>8, <2>9, <2>10 DEF Fifo!FailRead
<1> QED  BY <1>5, <1>6

LEMMA MoveReadPosAsFifo ==
  ASSUME QueueInv, NEW u \in Users, MoveReadPos(u)
  PROVE  StoredInv' /\ GotInv' /\ UNCHANGED Fifo!fifovars
<1>1. /\ pc[u] = "moveRead" /\ pc' = [pc EXCEPT ![u] = "decItems"]
      /\ UNCHANGED <<minor, buffer, items, write_pos, todo, left, got>>
      /\ read_pos' = NextPos(pos[u])
  BY DEF MoveReadPos, Goto
<1>2. /\ pc[u] \in ReadPlaces \ {"checkEmpty"} /\ pc[u] \in TakePlaces
      /\ pc[u] # "decItems"
      /\ "decItems" \in TakePlaces /\ "decItems" \in ReadPlaces
      /\ "decItems" \notin WritePlaces
  BY <1>1 DEF ReadPlaces, TakePlaces, WritePlaces
<1>3. FirstIsDecoded' = FirstIsDecoded /\ ~FirstIsPassed /\ FirstIsPassed'
  BY <1>1, <1>2, FlagsMove DEF QueueInv
<1>4. FirstPos' = FirstPos
  <2>1. pos[u] = read_pos /\ read_pos \in Cells /\ translate_bufsize \in Nat \ {0}
    BY <1>2, SizeAssumption DEF QueueInv, DeviceInv, CallInv, LoopInv, TypeOK
  <2>2. /\ read_pos' \in Cells
        /\ read_pos' = read_pos + 1 \/ read_pos' = read_pos + 1 - translate_bufsize
    <3> DEFINE y == read_pos + 1
    <3>1. y \in Nat /\ y < 2 * translate_bufsize  BY <2>1 DEF Cells
    <3>2. read_pos' = y % translate_bufsize  BY <1>1, <2>1 DEF NextPos
    <3> HIDE DEF y
    <3>3. read_pos' \in Cells /\ (read_pos' = y \/ read_pos' = y - translate_bufsize)
      BY <3>1, <3>2, WrapsOnce
    <3> QED  BY <2>1, <3>3 DEF y, Cells
  <2> DEFINE x == read_pos' + translate_bufsize - 1
  <2>3. FirstPos' = x % translate_bufsize /\ FirstPos = read_pos
    BY <1>3 DEF FirstPos
  <2>4. /\ x \in Nat /\ x < 2 * translate_bufsize
        /\ x = read_pos \/ x = read_pos + translate_bufsize
    <3> DEFINE r == read_pos'
    <3>1. r \in Cells /\ (r = read_pos + 1 \/ r = read_pos + 1 - translate_bufsize)
      BY <2>2
    <3>2. x = r + translate_bufsize - 1  OBVIOUS
    <3> HIDE DEF r, x
    <3>3. r \in Int /\ 0 <= r /\ r < translate_bufsize  BY <2>1, <3>1 DEF Cells
    <3>4. x \in Nat /\ x < 2 * translate_bufsize  BY <2>1, <3>2, <3>3
    <3>5. x = read_pos \/ x = read_pos + translate_bufsize
      BY <2>1, <3>1, <3>2, <3>3 DEF Cells
    <3> QED  BY <3>4, <3>5
  <2> HIDE DEF x
  <2>5. FirstPos' \in Cells /\ (FirstPos' = x \/ FirstPos' = x - translate_bufsize)
    BY <2>3, <2>4, WrapsOnce
  <2> QED  BY <2>1, <2>3, <2>4, <2>5 DEF Cells
<1>5. \A i : Cell(i)' = Cell(i)  BY <1>4 DEF Cell
<1>6. QueueView' = QueueView  BY <1>1, <1>3, <1>4, QueueStays
<1>7. StoredInv'  BY <1>1, <1>2, <1>5, StoredStays
<1>8. GotInv'
  <2>1. pc'[u] = "decItems" /\ \A v \in Users : v # u => pc'[v] \notin ReadPlaces
    BY <1>1, <1>2, OthersStay
  <2>2. got'[u] # <<>> /\ got'[u][Len(got'[u])] = buffer'[FirstPos']
    BY <1>1, <1>4 DEF QueueInv, GotInv
  <2> QED  BY <2>1, <2>2 DEF GotInv, ReadPlaces
<1>9. /\ CallOf("decItems") = CallOf(pc[u])
      /\ GotOf("decItems", got'[u]) = GotOf(pc[u], got[u])
  BY <1>1, <1>2, CallOfPlaces DEF GotOf
<1>10. CallView' = CallView /\ GotView' = GotView
  BY <1>1, <1>9, ViewsMove DEF QueueInv, DeviceInv
<1> QED  BY <1>1, <1>6, <1>7, <1>8, <1>10 DEF Fifo!fifovars

LEMMA DecItemsAsFifo ==
  ASSUME QueueInv, NEW u \in Users, DecItems(u)
  PROVE  StoredInv' /\ GotInv' /\ Fifo!Get(u)
<1>1. /\ pc[u] = "decItems" /\ pc' = [pc EXCEPT ![u] = "checkEmpty"]
      /\ items' = items - 1 /\ left' = [left EXCEPT ![u] = @ - 1]
      /\ UNCHANGED <<minor, buffer, read_pos, write_pos, todo, got>>
  BY ItemsInRange DEF DecItems, Goto, QueueInv, Step
<1>2. /\ pc[u] \in ReadPlaces \ {"checkEmpty"} /\ pc[u] \in TakePlaces
      /\ "checkEmpty" \notin TakePlaces /\ "checkEmpty" \in ReadPlaces
      /\ CallOf(pc[u]) = "read" /\ CallOf("checkEmpty") = "read"
  BY <1>1, CallOfPlaces DEF ReadPlaces, TakePlaces
<1>3. FirstIsDecoded /\ FirstIsPassed /\ ~FirstIsDecoded' /\ ~FirstIsPassed'
  <2>1. /\ FirstIsDecoded <=> pc[u] \in TakePlaces
        /\ FirstIsPassed <=> pc[u] = "decItems"
        /\ FirstIsDecoded' <=> "checkEmpty" \in TakePlaces
        /\ FirstIsPassed' <=> "checkEmpty" = "decItems"
    BY <1>1, <1>2, FlagsMove DEF QueueInv
  <2> QED  BY <1>1, <1>2, <2>1
<1>4. /\ items > 0 /\ left[u] > 0 /\ items \in Nat /\ items <= translate_bufsize
      /\ translate_bufsize \in Nat \ {0} /\ Cell(1) = FirstPos /\ TypeOK
      /\ QueueView \in Seq(Char) /\ Len(QueueView) = items
      /\ got[u] \in Seq(Char) /\ FirstPos \in Cells /\ read_pos \in Cells
      /\ \/ FirstPos = read_pos - 1
         \/ FirstPos = read_pos - 1 + translate_bufsize
  <2>1. DeviceInv /\ TypeOK  BY DEF QueueInv, DeviceInv
  <2>2. items > 0 /\ left[u] > 0 /\ Cell(1) = FirstPos  BY <1>2, EndsOfQueue
  <2>3. QueueView \in Seq(Char) /\ Len(QueueView) = items  BY <2>1, QueueTyped
  <2>4. /\ items \in 0 .. translate_bufsize /\ FirstPos \in Cells
        /\ \/ FirstPos = read_pos - 1
           \/ FirstPos = read_pos - 1 + translate_bufsize
    BY <1>3, <2>1, CellsInRow
  <2>5. got[u] \in Seq(Char) /\ read_pos \in Cells  BY <2>1 DEF TypeOK
  <2> QED  BY <2>1, <2>2, <2>3, <2>4, <2>5, SizeAssumption
<1>5. FirstPos' = read_pos  BY <1>1, <1>3 DEF FirstPos
<1>6. \A i \in 1 .. translate_bufsize - 1 : Cell(i)' = Cell(i + 1)
  <2> TAKE i \in 1 .. translate_bufsize - 1
  <2> DEFINE k == i + 1
             x == read_pos + i - 1
  <2>1. k \in 1 .. translate_bufsize /\ x \in Nat /\ x < 2 * translate_bufsize
    BY <1>4 DEF Cells
  <2>2. /\ Cell(k) \in Cells
        /\ Cell(k) = FirstPos + k - 1 \/ Cell(k) = FirstPos + k - 1 - translate_bufsize
    BY <2>1, CellsInRow DEF QueueInv
  <2>3. Cell(i)' = x % translate_bufsize  BY <1>5 DEF Cell
  <2> HIDE DEF x
  <2>4. Cell(i)' \in Cells /\ (Cell(i)' = x \/ Cell(i)' = x - translate_bufsize)
    BY <2>1, <2>3, WrapsOnce
  <2>5. x = read_pos + k - 2 /\ k \in Int  BY <1>4 DEF x, Cells
  <2> HIDE DEF k
  <2> DEFINE y == Cell(i)'
             z == Cell(k)
  <2>6. y \in Cells /\ (y = x \/ y = x - translate_bufsize)  BY <2>4
  <2>7. z \in Cells
        /\ (z = FirstPos + k - 1 \/ z = FirstPos + k - 1 - translate_bufsize)
    BY <2>2
  <2> HIDE DEF y, z
  <2>8. y = z  BY <1>4, <2>5, <2>6, <2>7 DEF Cells
  <2> QED  BY <2>8 DEF k, y, z
<1>7. StoredInv'
  <2> SUFFICES ASSUME NEW v \in Users, pc'[v] \in WritePlaces \ {"checkFull"}
               PROVE  /\ pc'[v] = "encode" => buffer'[write_pos'] = Head(todo'[v])
                      /\ pc'[v] = "moveWrite" => buffer'[write_pos'] = Stored(Head(todo[v]))'
                      /\ pc'[v] = "incItems" =>
                           buffer'[Cell(items + 1)'] = Stored(Head(todo[v]))'
    BY DEF StoredInv, WritePlaces
  <2>1. v # u /\ pc[v] = pc'[v]
    BY <1>1, OthersStay DEF WritePlaces
  <2>2. items + 1 \in 1 .. translate_bufsize  BY <2>1, EndsOfQueue
  <2>3. Cell(items + 1)' = Cell(items + 1)
    <3>1. items \in 1 .. translate_bufsize - 1  BY <1>4, <2>2
    <3>2. Cell(items + 1)' = (FirstPos' + (items' + 1) - 1) % translate_bufsize
          /\ items' + 1 = items
      BY <1>1, <1>4 DEF Cell
    <3>3. \A i \in 1 .. translate_bufsize - 1 :
            (FirstPos' + i - 1) % translate_bufsize = Cell(i + 1)
      BY <1>6 DEF Cell
    <3> QED  BY <3>1, <3>2, <3>3
  <2>4. Stored(Head(todo[v]))' = Stored(Head(todo[v]))  BY <1>1 DEF Stored
  <2> QED  BY <1>1, <2>1, <2>3, <2>4 DEF QueueInv, StoredInv
<1>8. GotInv'
  <2>1. pc'[u] = "checkEmpty" /\ \A v \in Users : v # u => pc'[v] \notin ReadPlaces
    BY <1>1, <1>2, OthersStay
  <2> QED  BY <2>1 DEF GotInv, ReadPlaces
<1>9. QueueView' = Tail(QueueView)
  <2>1. \A i \in 1 .. items - 1 :
          QueueView'[i] = IF minor = 1
                            THEN decode_char(translate_subst, buffer[Cell(i + 1)])
                            ELSE buffer[Cell(i + 1)]
    <3>1. \A i \in 1 .. items' :
            QueueView'[i] = IF minor' = 1 /\ ~(i = 1 /\ FirstIsDecoded')
                              THEN decode_char(translate_subst, buffer'[Cell(i)'])
                              ELSE buffer'[Cell(i)']
      BY DEF QueueView, Cell
    <3>2. items' = items - 1 /\ minor' = minor /\ buffer' = buffer  BY <1>1
    <3>3. \A i \in 1 .. items - 1 : Cell(i)' = Cell(i + 1)  BY <1>4, <1>6
    <3> HIDE DEF FirstIsDecoded, QueueView
    <3> QED  BY <1>3, <3>1, <3>2, <3>3
  <2>2. \A i \in 1 .. items - 1 :
          QueueView[i + 1] = IF minor = 1
                               THEN decode_char(translate_subst, buffer[Cell(i + 1)])
                               ELSE buffer[Cell(i + 1)]
    <3> TAKE i \in 1 .. items - 1
    <3>1. i + 1 \in 1 .. items /\ i + 1 # 1  BY <1>4
    <3> QED  BY <3>1, QueueIs
  <2>3. /\ Tail(QueueView) \in Seq(Char) /\ Len(Tail(QueueView)) = items - 1
        /\ \A i \in 1 .. items - 1 : Tail(QueueView)[i] = QueueView[i + 1]
    <3>1. QueueView # <<>>  BY <1>4
    <3> HIDE DEF QueueView
    <3> QED  BY <1>4, <3>1, HeadTailProperties
  <2> DEFINE q == Tail(QueueView)
  <2>4. /\ q \in Seq(Char)
        /\ Len(q) = items'
        /\ \A i \in 1 .. items' : QueueView'[i] = q[i]
    BY <1>1, <2>1, <2>2, <2>3
  <2> HIDE DEF q
  <2>5. QueueView' = q  BY <2>4, QueueBecomes
  <2> QED  BY <2>5 DEF q
<1>10. /\ CallView' = CallView /\ CallView[u] = "read"
       /\ GotView' = [GotView EXCEPT ![u] = GotOf("checkEmpty", got[u])]
       /\ GotView[u] = GotOf("decItems", got[u])
  BY <1>1, <1>2, <1>4, ViewsMove
<1>11. GotView' = [GotView EXCEPT ![u] = Append(@, Head(QueueView))]
  <2>1. Head(QueueView) = buffer[FirstPos]
    <3>1. QueueView[1] = buffer[Cell(1)]
      <4>1. 1 \in 1 .. items  BY <1>4
      <4> QED  BY <1>3, <4>1, QueueIs
    <3>2. Head(QueueView) = QueueView[1]  BY <1>4
    <3> QED  BY <1>4, <3>1, <3>2
  <2>2. got[u] # <<>> /\ got[u][Len(got[u])] = buffer[FirstPos]
    BY <1>1 DEF QueueInv, GotInv
  <2>3. Append(GotView[u], Head(QueueView)) = got[u]
    BY <1>4, <1>10, <2>1, <2>2, LastTakenOff DEF GotOf
  <2>4. GotOf("checkEmpty", got[u]) = got[u]  BY DEF GotOf
  <2> QED  BY <1>10, <2>3, <2>4
<1>12. QueueView # <<>>  BY <1>4
<1> QED  BY <1>1, <1>4, <1>7, <1>8, <1>9, <1>10, <1>11, <1>12 DEF Fifo!Get

LEMMA QueueInit == Init => StoredInv /\ GotInv /\ Fifo!Init
<1> SUFFICES ASSUME Init PROVE StoredInv /\ GotInv /\ Fifo!Init
  OBVIOUS
<1>1. \A u \in Users : pc[u] = "closed"  BY DEF Init
<1>2. StoredInv /\ GotInv  BY <1>1 DEF StoredInv, GotInv
<1>3. QueueView = <<>>
  <2>1. items = 0  BY DEF Init
  <2>2. QueueView = [i \in 1 .. 0 |-> QueueView[i]]  BY <2>1 DEF QueueView
  <2> HIDE DEF QueueView
  <2> QED  BY <2>2
<1>4. CallView = [u \in Users |-> "none"]
  BY <1>1 DEF CallView, WritePlaces, ReadPlaces
<1>5. GotView = [u \in Users |-> <<>>]  BY <1>1 DEF GotView, Init
<1> QED  BY <1>2, <1>3, <1>4, <1>5 DEF Init, Fifo!Init

LEMMA StepAsFifo ==
  ASSUME QueueInv, NEW u \in Users, Step(u)
  PROVE  StoredInv' /\ GotInv' /\ [Fifo!Next]_(Fifo!fifovars)
<1>1. CASE Open(u) \/ Close(u)  BY <1>1, OpenCloseAsFifo
<1>2. CASE BeginWrite(u) \/ BeginRead(u)  BY <1>2, BeginAsFifo DEF Fifo!Next
<1>3. CASE CheckFull(u) \/ CheckEmpty(u)  BY <1>3, CheckAsFifo DEF Fifo!Next
<1>4. CASE CopyFromUser(u) \/ FailCopyFrom(u) \/ Encode(u)
  BY <1>4, CopyFromAsFifo DEF Fifo!Next
<1>5. CASE MoveWritePos(u)  BY <1>5, MoveWritePosAsFifo
<1>6. CASE IncItems(u)  BY <1>6, IncItemsAsFifo DEF Fifo!Next
<1>7. CASE Decode(u)  BY <1>7, DecodeAsFifo
<1>8. CASE CopyToUser(u) \/ FailCopyTo(u)  BY <1>8, CopyToAsFifo DEF Fifo!Next
<1>9. CASE MoveReadPos(u)  BY <1>9, MoveReadPosAsFifo
<1>10. CASE DecItems(u)  BY <1>10, DecItemsAsFifo DEF Fifo!Next
<1> QED
  BY <1>1, <1>2, <1>3, <1>4, <1>5, <1>6, <1>7, <1>8, <1>9, <1>10 DEF Step

\* A device is a bounded queue of translated bytes: each byte that is counted
\* in is counted out once, in order and translated once, whatever the sizes of
\* buffer and calls and however a reader and a writer interleave, until two
\* reads are under way at once or an items++ and an items-- overlap.
THEOREM TheDeviceIsAFifo == Spec => ImplementsFifo
<1> DEFINE IInv == overlapped \/ QueueInv
<1>1. Init => IInv /\ Fifo!Init  BY DeviceInit, QueueInit DEF QueueInv
<1>2. /\ IInv /\ FilesInv' /\ (overlapped' \/ DeviceInv') /\ [Next]_vars =>
           IInv' /\ [overlapped' \/ Fifo!Next]_(Fifo!fifovars)
  <2> SUFFICES ASSUME IInv, DeviceInv', [Next]_vars, ~overlapped'
               PROVE  QueueInv' /\ [Fifo!Next]_(Fifo!fifovars)
    OBVIOUS
  <2>1. QueueInv  BY OverlapIsKept
  <2>2. ASSUME NEW u \in Users, Step(u)
        PROVE  StoredInv' /\ GotInv' /\ [Fifo!Next]_(Fifo!fifovars)
    BY <2>1, <2>2, StepAsFifo
  <2>3. CASE UNCHANGED vars
    <3>1. UNCHANGED <<minor, buffer, items, read_pos, write_pos, pc, todo, left, got>>
      BY <2>3 DEF vars, device, locals
    <3>2. QueueView' = QueueView /\ CallView' = CallView /\ GotView' = GotView
      BY <3>1 DEF QueueView, CallView, GotView, FirstPos, FirstIsDecoded, FirstIsPassed
    <3>3. StoredInv /\ GotInv
      BY <2>1 DEF QueueInv
    <3>4. StoredInv'
      BY <3>1, <3>3 DEF StoredInv, Cell, Stored, FirstPos, FirstIsPassed
    <3>5. GotInv'
      BY <3>1, <3>3 DEF GotInv, FirstPos, FirstIsPassed
    <3> QED  BY <3>1, <3>2, <3>4, <3>5 DEF QueueInv, Fifo!fifovars
  <2> QED  BY <2>2, <2>3 DEF Next, QueueInv
<1> HIDE DEF IInv
<1>3. Spec => [](FilesInv /\ (overlapped \/ DeviceInv))  BY DeviceInvariant
<1> QED  BY <1>1, <1>2, <1>3, PTL DEF Spec, ImplementsFifo
=============================================================================
