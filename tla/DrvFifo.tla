------------------------------ MODULE DrvFifo ------------------------------
(***************************************************************************)
(* The transmit FIFO of the CH58x firmware (app_drv_fifo.c).  begin and    *)
(* end are free-running uint16_t counters; size_mask turns them into       *)
(* places in the buffer.  Both counters belong to the main loop, so a call *)
(* is one step.  app_drv_fifo_rd and _rd_del exist in the BLE firmware     *)
(* only, whose ble_cmd_notify never asks for more than there is.           *)
(***************************************************************************)
EXTENDS Integers, Sequences, SequencesExt

CONSTANTS
  Byte,     \* values of a byte, 0 among them
  Size,     \* APP_TX_BUFFER_LENGTH
  Counter,  \* number of values of begin and end: 2^16
  MaxLen    \* bound: longest write or read

\* app_drv_fifo_init refuses a size that is not a power of two: what counts
\* is that the counters start anew at a multiple of it.
ASSUME SizeAssumption ==
  /\ 0 \in Byte
  /\ Counter \in Nat
  /\ Size \in 1 .. Counter - 1
  /\ Counter % Size = 0
  /\ MaxLen \in Nat

VARIABLES
  begin,
  end,
  data,
  out       \* what the last call returned

vars == <<begin, end, data, out>>

Place == 0 .. Size - 1

TypeOK ==
  /\ begin \in 0 .. Counter - 1
  /\ end \in 0 .. Counter - 1
  /\ data \in [Place -> Byte]
  /\ out \in [result : {"SUCCESS", "LENGTH_ERROR", "NOT_FOUND", "NOT_MEM"},
              bytes : BoundedSeq(Byte, MaxLen)]

Returned(r, s) == [result |-> r, bytes |-> s]

\* Mutant of fifo_length: the difference is not truncated to 16 bits, and a
\* negative one reads as full.
LengthNotTruncated == IF end >= begin THEN end - begin ELSE Size

fifo_length == (end - begin) % Counter

At(n) == n % Size

Advance(c, n) == (c + n) % Counter

\* The buffer after s was pushed byte by byte.
Stored(s) ==
  [i \in Place |-> LET k == At(i - end) + 1 IN
                   IF k <= Len(s) THEN s[k] ELSE data[i]]

Init ==
  /\ begin = 0
  /\ end = 0
  /\ data = [i \in Place |-> 0]
  /\ out = Returned("SUCCESS", <<>>)

app_drv_fifo_write(s) ==
  LET available_count == Size - fifo_length IN
    \/ /\ available_count < Len(s)
       /\ out' = Returned("LENGTH_ERROR", <<>>)
       /\ UNCHANGED <<begin, end, data>>
    \/ /\ available_count = 0
       /\ Len(s) = 0
       /\ out' = Returned("NOT_MEM", <<>>)
       /\ UNCHANGED <<begin, end, data>>
    \/ /\ available_count >= Len(s)
       /\ available_count > 0
       /\ data' = Stored(s)
       /\ end' = Advance(end, Len(s))
       /\ out' = Returned("SUCCESS", <<>>)
       /\ UNCHANGED begin

app_drv_fifo_read(n) ==
  LET read_size == IF n < fifo_length THEN n ELSE fifo_length IN
    \/ /\ fifo_length = 0
       /\ out' = Returned("NOT_FOUND", <<>>)
       /\ UNCHANGED <<begin, end, data>>
    \/ /\ fifo_length > 0
       /\ out' = Returned("SUCCESS",
                          [k \in 1 .. read_size |-> data[At(begin + k - 1)]])
       /\ begin' = Advance(begin, read_size)
       /\ UNCHANGED <<end, data>>

app_drv_fifo_rd(n) ==
  /\ n <= fifo_length
  /\ out' = Returned("SUCCESS", [k \in 1 .. n |-> data[At(begin + k - 1)]])
  /\ UNCHANGED <<begin, end, data>>

app_drv_fifo_rd_del(n) ==
  /\ n <= fifo_length
  /\ begin' = Advance(begin, n)
  /\ UNCHANGED <<end, data, out>>

app_drv_fifo_flush ==
  /\ begin' = 0
  /\ end' = 0
  /\ UNCHANGED <<data, out>>

Next ==
  \/ \E s \in BoundedSeq(Byte, MaxLen) : app_drv_fifo_write(s)
  \/ \E n \in 0 .. MaxLen :
       app_drv_fifo_read(n) \/ app_drv_fifo_rd(n) \/ app_drv_fifo_rd_del(n)
  \/ app_drv_fifo_flush

Spec == Init /\ [][Next]_vars

-----------------------------------------------------------------------------
(***************************************************************************)
(* The two counters and the buffer implement a queue of Size bytes, over   *)
(* any number of wraps of the counters.                                    *)
(***************************************************************************)
Content == [k \in 1 .. fifo_length |-> data[At(begin + k - 1)]]

Queue == INSTANCE ByteQueue WITH Capacity <- Size, q <- Content

QueueSpec == Queue!Spec
=============================================================================
