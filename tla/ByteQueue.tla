----------------------------- MODULE ByteQueue -----------------------------
(***************************************************************************)
(* What app_drv_fifo promises its callers: a bounded queue of bytes.  A    *)
(* write is taken as a whole or refused, a read returns at most what is    *)
(* there, in the order of writing.                                         *)
(***************************************************************************)
EXTENDS Naturals, Sequences, SequencesExt

CONSTANTS
  Byte,      \* values of a byte
  Capacity,  \* bytes the queue can hold
  MaxLen     \* longest write or read

VARIABLES
  q,         \* bytes written and not yet read
  out        \* result of the last call, and the bytes a read returned

Data == BoundedSeq(Byte, MaxLen)

Result == {"SUCCESS", "LENGTH_ERROR", "NOT_FOUND", "NOT_MEM"}

Returned(r, s) == [result |-> r, bytes |-> s]

Init ==
  /\ q = <<>>
  /\ out = Returned("SUCCESS", <<>>)

Write(s) ==
  \/ /\ Len(s) <= Capacity - Len(q)
     /\ Len(q) < Capacity
     /\ q' = q \o s
     /\ out' = Returned("SUCCESS", <<>>)
  \/ /\ Len(s) > Capacity - Len(q)
     /\ out' = Returned("LENGTH_ERROR", <<>>)
     /\ UNCHANGED q
  \/ /\ Len(s) = 0
     /\ Len(q) = Capacity
     /\ out' = Returned("NOT_MEM", <<>>)
     /\ UNCHANGED q

Read(n) ==
  \/ /\ q # <<>>
     /\ LET m == IF n < Len(q) THEN n ELSE Len(q) IN
          /\ out' = Returned("SUCCESS", SubSeq(q, 1, m))
          /\ q' = SubSeq(q, m + 1, Len(q))
  \/ /\ q = <<>>
     /\ out' = Returned("NOT_FOUND", <<>>)
     /\ UNCHANGED q

\* Look at the first n bytes, and take them off in a call of its own.
Peek(n) ==
  /\ n <= Len(q)
  /\ out' = Returned("SUCCESS", SubSeq(q, 1, n))
  /\ UNCHANGED q

Drop(n) ==
  /\ n <= Len(q)
  /\ q' = SubSeq(q, n + 1, Len(q))
  /\ UNCHANGED out

Flush ==
  /\ q' = <<>>
  /\ UNCHANGED out

Next ==
  \/ \E s \in Data : Write(s)
  \/ \E n \in 0 .. MaxLen : Read(n) \/ Peek(n) \/ Drop(n)
  \/ Flush

Spec == Init /\ [][Next]_<<q, out>>
=============================================================================
