---------------------------- MODULE TranslateFifo ----------------------------
(***************************************************************************)
(* What a translate device promises: a bounded queue of translated bytes.  *)
(* A write puts its bytes one by one until it is done or the queue is      *)
(* full, a read takes bytes until it is done or the queue is empty, and    *)
(* either may fail at a byte.  A failed read of translate1 leaves the      *)
(* first byte decoded once more.                                           *)
(***************************************************************************)
EXTENDS TranslateCodec, Sequences

CONSTANTS Users, Size, MaxCount, Inputs, translate_subst

VARIABLES minor,  \* 0 for translate0, 1 for translate1
          queue,  \* the bytes, as the next reads will return them
          call,   \* the call each user is in: "none", "write" or "read"
          todo,   \* the bytes its write has still to put
          left,   \* how many bytes its read has still to get
          got     \* the bytes its read has got

fifovars == <<minor, queue, call, todo, left, got>>

Translated(c) == IF minor = 0 THEN encode_char(translate_subst, c)
                              ELSE decode_char(translate_subst, c)

Spoilt(c) == IF minor = 0 THEN c ELSE decode_char(translate_subst, c)

Buffers == UNION {[1 .. n -> Inputs] : n \in 0 .. MaxCount}

Init == /\ minor \in {0, 1} /\ queue = <<>>
        /\ call = [u \in Users |-> "none"] /\ todo = [u \in Users |-> <<>>]
        /\ left = [u \in Users |-> 0] /\ got = [u \in Users |-> <<>>]

Ends(u) == /\ call' = [call EXCEPT ![u] = "none"]
           /\ todo' = [todo EXCEPT ![u] = <<>>]
           /\ left' = [left EXCEPT ![u] = 0]
           /\ got'  = [got EXCEPT ![u] = <<>>]
           /\ UNCHANGED minor

StartWrite(u) == \E buf \in Buffers :
  /\ call[u] = "none"
  /\ call' = [call EXCEPT ![u] = "write"]
  /\ todo' = [todo EXCEPT ![u] = buf]
  /\ UNCHANGED <<minor, queue, left, got>>

Put(u) ==
  /\ call[u] = "write" /\ todo[u] # <<>> /\ Len(queue) < Size
  /\ queue' = Append(queue, Translated(Head(todo[u])))
  /\ todo' = [todo EXCEPT ![u] = Tail(@)]
  /\ UNCHANGED <<minor, call, left, got>>

EndWrite(u) ==
  /\ call[u] = "write" /\ (todo[u] = <<>> \/ Len(queue) = Size)
  /\ Ends(u) /\ UNCHANGED queue

FailWrite(u) ==
  /\ call[u] = "write" /\ todo[u] # <<>> /\ Len(queue) < Size
  /\ Ends(u) /\ UNCHANGED queue

StartRead(u) == \E count \in 0 .. MaxCount :
  /\ call[u] = "none"
  /\ call' = [call EXCEPT ![u] = "read"]
  /\ left' = [left EXCEPT ![u] = count]
  /\ UNCHANGED <<minor, queue, todo, got>>

Get(u) ==
  /\ call[u] = "read" /\ left[u] > 0 /\ queue # <<>>
  /\ got' = [got EXCEPT ![u] = Append(@, Head(queue))]
  /\ queue' = Tail(queue)
  /\ left' = [left EXCEPT ![u] = @ - 1]
  /\ UNCHANGED <<minor, call, todo>>

EndRead(u) ==
  /\ call[u] = "read" /\ (left[u] = 0 \/ queue = <<>>)
  /\ Ends(u) /\ UNCHANGED queue

FailRead(u) ==
  /\ call[u] = "read" /\ left[u] > 0 /\ queue # <<>>
  /\ queue' = [queue EXCEPT ![1] = Spoilt(@)]
  /\ Ends(u)

Next == \E u \in Users :
          \/ StartWrite(u) \/ Put(u) \/ EndWrite(u) \/ FailWrite(u)
          \/ StartRead(u) \/ Get(u) \/ EndRead(u) \/ FailRead(u)

Spec == Init /\ [][Next]_fifovars
=============================================================================
