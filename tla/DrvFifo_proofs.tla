-------------------------- MODULE DrvFifo_proofs ---------------------------
(***************************************************************************)
(* Theorems about DrvFifo for every size of the buffer and of its counters *)
(* and every length of a write.                                            *)
(***************************************************************************)
EXTENDS DrvFifo, SequenceTheorems, TLAPS

-----------------------------------------------------------------------------
(***************************************************************************)
(* Remainders.                                                             *)
(***************************************************************************)

\* The remainder is the one number in range that differs by a multiple.
LEMMA ModIs ==
  ASSUME NEW r \in Nat \ {0}, NEW q \in Int, NEW x \in 0 .. r - 1
  PROVE  (r * q + x) % r = x
BY SMTT(30)

LEMMA ModParts ==
  ASSUME NEW r \in Nat \ {0}, NEW a \in Int
  PROVE  /\ a % r \in 0 .. r - 1
         /\ \E q \in Int : a = r * q + (a % r)
<1>1. a % r \in 0 .. r - 1
  OBVIOUS
<1>2. a \div r \in Int /\ a = r * (a \div r) + (a % r)
  OBVIOUS
<1> QED
  BY <1>1, <1>2

\* Adding multiples changes nothing.
LEMMA ModShift ==
  ASSUME NEW r \in Nat \ {0}, NEW a \in Int, NEW k \in Int
  PROVE  (a + r * k) % r = a % r
<1>1. PICK q \in Int : a = r * q + (a % r)
  BY ModParts
<1> DEFINE x == a % r
<1>2. x \in 0 .. r - 1 /\ a = r * q + x
  BY <1>1, ModParts
<1> HIDE DEF x
<1>3. a + r * k = r * (q + k) + x /\ q + k \in Int
  <2>1. r * (q + k) = r * q + r * k
    OBVIOUS
  <2> QED
    BY <1>2, <2>1
<1>4. (r * (q + k) + x) % r = x
  BY <1>2, <1>3, ModIs
<1> QED
  BY <1>3, <1>4 DEF x

LEMMA Sizes ==
  /\ Size \in Nat \ {0} /\ Counter \in Nat \ {0} /\ Size < Counter
  /\ \E c \in Int : Counter = Size * c
<1>1. Size \in Nat \ {0} /\ Counter \in Nat \ {0} /\ Size < Counter
  BY SizeAssumption
<1>2. PICK c \in Int : Counter = Size * c + (Counter % Size)
  <2>1. Counter \in Int
    BY <1>1
  <2> QED
    BY <1>1, <2>1, ModParts
<1>3. Counter = Size * c
  <2>1. Counter = Size * c + 0
    BY <1>2, SizeAssumption
  <2> QED
    BY <1>1, <2>1
<1> QED
  BY <1>1, <1>3

\* A counter that starts anew names the same places.
LEMMA PlaceTurn ==
  ASSUME NEW a \in Int PROVE At(a + Counter) = At(a)
<1>1. PICK c \in Int : Counter = Size * c
  BY Sizes
<1> QED
  BY <1>1, Sizes, ModShift DEF At

LEMMA AtPlace == ASSUME NEW a \in Int PROVE At(a) \in Place
BY Sizes, ModParts DEF At, Place

\* Places that lie apart by less than a turn.
LEMMA PlaceBack ==
  ASSUME NEW a \in Int, NEW b \in Int, NEW x \in 0 .. Size - 1,
         a = b + x \/ a = b + x - Size
  PROVE  At(At(a) - b) = x
<1>1. PICK q \in Int : a = Size * q + At(a)
  BY Sizes, ModParts DEF At
<1>2. At(a) \in 0 .. Size - 1
  BY AtPlace DEF Place
<1> DEFINE p == At(a)
<1> HIDE DEF p
<1>3. \E k \in Int : p - b = Size * k + x
  <2>1. a = Size * q + p /\ p \in Int
    BY <1>1, <1>2 DEF p
  <2>2. CASE a = b + x
    <3>1. Size * (-q) = -(Size * q) /\ -q \in Int
      BY Sizes
    <3>2. p - b = Size * (-q) + x
      BY <2>1, <2>2, <3>1, Sizes
    <3> QED
      BY <3>1, <3>2
  <2>3. CASE a = b + x - Size
    <3>1. Size * (-q - 1) = -(Size * q) - Size /\ -q - 1 \in Int
      BY Sizes
    <3>2. a - Size * q = p
      BY <2>1, Sizes
    <3>3. p - b = Size * (-q - 1) + x
      BY <2>1, <2>3, <3>1, <3>2, Sizes
    <3> QED
      BY <3>1, <3>3
  <2> QED
    BY <2>2, <2>3
<1>4. PICK k \in Int : p - b = Size * k + x
  BY <1>3
<1> QED
  BY <1>4, Sizes, ModIs DEF At, p

-----------------------------------------------------------------------------
(***************************************************************************)
(* Counters.  The difference truncated to 16 bits is the number of bytes,  *)
(* because no more than Size are ever in the buffer.                       *)
(***************************************************************************)
CounterInv ==
  /\ begin \in 0 .. Counter - 1
  /\ end \in 0 .. Counter - 1
  /\ data \in [Place -> Byte]
  /\ fifo_length <= Size

LEMMA CounterMod ==
  ASSUME NEW a \in -Counter .. 2 * Counter - 1
  PROVE  a % Counter = IF a < 0 THEN a + Counter
                       ELSE IF a < Counter THEN a ELSE a - Counter
<1> DEFINE k == IF a < 0 THEN -1 ELSE IF a < Counter THEN 0 ELSE 1
           x == a - Counter * k
<1>1. Counter \in Nat \ {0}
  BY Sizes
<1>2. x = IF a < 0 THEN a + Counter ELSE IF a < Counter THEN a ELSE a - Counter
  BY <1>1
<1>3. x \in 0 .. Counter - 1 /\ k \in Int /\ a = Counter * k + x
  BY <1>1, <1>2
<1>4. (Counter * k + x) % Counter = x
  BY <1>1, <1>3, ModIs
<1> QED
  BY <1>2, <1>3, <1>4

LEMMA LengthIs ==
  ASSUME begin \in 0 .. Counter - 1, end \in 0 .. Counter - 1
  PROVE  fifo_length = IF end >= begin THEN end - begin ELSE end - begin + Counter
<1>1. end - begin \in -Counter .. 2 * Counter - 1
  BY Sizes
<1> QED
  BY <1>1, Sizes, CounterMod DEF fifo_length

LEMMA AdvanceIs ==
  ASSUME NEW c \in 0 .. Counter - 1, NEW n \in 0 .. Size
  PROVE  /\ Advance(c, n) = IF c + n < Counter THEN c + n ELSE c + n - Counter
         /\ Advance(c, n) \in 0 .. Counter - 1
<1>1. Counter \in Nat \ {0} /\ Size \in Nat /\ Size < Counter
  BY Sizes
<1>2. PICK a \in 0 .. 2 * Counter - 1 : a = c + n
  BY <1>1
<1>3. a \in -Counter .. 2 * Counter - 1 /\ ~(a < 0)
  BY <1>1
<1>4. a % Counter = IF a < Counter THEN a ELSE a - Counter
  BY <1>3, CounterMod
<1>5. Advance(c, n) = a % Counter
  BY <1>2 DEF Advance
<1> QED
  BY <1>1, <1>2, <1>4, <1>5

\* The place k behind a counter that advanced is k behind where it got to.
LEMMA AdvancePlace ==
  ASSUME NEW c \in 0 .. Counter - 1, NEW n \in 0 .. Size, NEW k \in Nat
  PROVE  At(Advance(c, n) + k) = At(c + n + k)
<1>1. CASE c + n < Counter
  BY <1>1, AdvanceIs
<1>2. CASE c + n >= Counter
  <2>1. Advance(c, n) + k \in Int /\ Advance(c, n) + k + Counter = c + n + k
    BY <1>2, AdvanceIs, Sizes
  <2> QED
    BY <2>1, PlaceTurn
<1> QED
  BY <1>1, <1>2, Sizes

LEMMA LengthGrows ==
  ASSUME CounterInv, NEW n \in 0 .. Size - fifo_length,
         end' = Advance(end, n), begin' = begin
  PROVE  fifo_length' = fifo_length + n /\ fifo_length' <= Size
<1>1. end' \in 0 .. Counter - 1 /\ begin' \in 0 .. Counter - 1 /\ n \in 0 .. Size
  BY AdvanceIs, LengthIs, Sizes DEF CounterInv
<1>2. fifo_length' =
        IF end' >= begin' THEN end' - begin' ELSE end' - begin' + Counter
  <2>1. end' - begin' \in -Counter .. 2 * Counter - 1
    BY <1>1, Sizes
  <2> QED
    BY <1>1, <2>1, Sizes, CounterMod DEF fifo_length
<1>3. end' = IF end + n < Counter THEN end + n ELSE end + n - Counter
  BY <1>1, AdvanceIs DEF CounterInv
<1>4. fifo_length = IF end >= begin THEN end - begin ELSE end - begin + Counter
  BY LengthIs DEF CounterInv
<1>5. /\ begin \in 0 .. Counter - 1 /\ end \in 0 .. Counter - 1
      /\ fifo_length \in 0 .. Size /\ n \in 0 .. Size - fifo_length
  BY <1>4, Sizes DEF CounterInv
<1>6. fifo_length' = fifo_length + n
  BY <1>2, <1>3, <1>4, <1>5, Sizes
<1> QED
  BY <1>5, <1>6, Sizes

LEMMA LengthShrinks ==
  ASSUME CounterInv, NEW n \in 0 .. fifo_length,
         begin' = Advance(begin, n), end' = end
  PROVE  fifo_length' = fifo_length - n
<1>1. end' \in 0 .. Counter - 1 /\ begin' \in 0 .. Counter - 1 /\ n \in 0 .. Size
  BY AdvanceIs, LengthIs, Sizes DEF CounterInv
<1>2. fifo_length' =
        IF end' >= begin' THEN end' - begin' ELSE end' - begin' + Counter
  <2>1. end' - begin' \in -Counter .. 2 * Counter - 1
    BY <1>1, Sizes
  <2> QED
    BY <1>1, <2>1, Sizes, CounterMod DEF fifo_length
<1>3. begin' = IF begin + n < Counter THEN begin + n ELSE begin + n - Counter
  BY <1>1, AdvanceIs DEF CounterInv
<1>4. fifo_length = IF end >= begin THEN end - begin ELSE end - begin + Counter
  BY LengthIs DEF CounterInv
<1>5. /\ begin \in 0 .. Counter - 1 /\ end \in 0 .. Counter - 1
      /\ fifo_length \in 0 .. Size /\ n \in 0 .. fifo_length
  BY <1>4, Sizes DEF CounterInv
<1> QED
  BY <1>2, <1>3, <1>4, <1>5, Sizes

-----------------------------------------------------------------------------
(***************************************************************************)
(* Contents.                                                               *)
(***************************************************************************)
LEMMA BoundedIs ==
  ASSUME NEW s
  PROVE  s \in BoundedSeq(Byte, MaxLen) <=> s \in Seq(Byte) /\ Len(s) <= MaxLen
<1>1. ASSUME s \in BoundedSeq(Byte, MaxLen)
      PROVE  s \in Seq(Byte) /\ Len(s) <= MaxLen
  <2>1. PICK m \in 0 .. MaxLen : s \in [1 .. m -> Byte]
    BY <1>1 DEF BoundedSeq, SeqOf
  <2>2. m \in Nat /\ s \in Seq(Byte) /\ Len(s) = m
    BY <2>1, SizeAssumption
  <2> QED
    BY <2>1, <2>2
<1>2. ASSUME s \in Seq(Byte), Len(s) <= MaxLen
      PROVE  s \in BoundedSeq(Byte, MaxLen)
  <2>1. Len(s) \in 0 .. MaxLen /\ s \in [1 .. Len(s) -> Byte]
    BY <1>2, LenProperties, SizeAssumption
  <2> QED
    BY <2>1 DEF BoundedSeq, SeqOf
<1> QED
  BY <1>1, <1>2

\* The first n bytes.
FirstBytes(n) == [k \in 1 .. n |-> data[At(begin + k - 1)]]

LEMMA FrontIs ==
  ASSUME CounterInv, NEW n \in Nat
  PROVE  /\ FirstBytes(n) \in Seq(Byte) /\ Len(FirstBytes(n)) = n
         /\ \A k \in 1 .. n : FirstBytes(n)[k] = data[At(begin + k - 1)]
<1>1. ASSUME NEW k \in 1 .. n PROVE data[At(begin + k - 1)] \in Byte
  <2>1. begin + k - 1 \in Int
    BY Sizes DEF CounterInv
  <2> QED
    BY <2>1, AtPlace DEF CounterInv
<1>2. FirstBytes(n) \in [1 .. n -> Byte]
  BY <1>1 DEF FirstBytes
<1>3. FirstBytes(n) \in Seq(Byte) /\ Len(FirstBytes(n)) = n
  BY <1>2
<1> QED
  BY <1>3 DEF FirstBytes

ContentShape ==
  /\ fifo_length \in 0 .. Size
  /\ Content \in Seq(Byte) /\ Len(Content) = fifo_length
  /\ \A k \in 1 .. fifo_length : Content[k] = data[At(begin + k - 1)]

LEMMA ContentIs == CounterInv => ContentShape
<1> SUFFICES ASSUME CounterInv PROVE ContentShape
  OBVIOUS
<1>1. fifo_length \in 0 .. Size
  BY LengthIs, Sizes DEF CounterInv
<1>2. Content = FirstBytes(fifo_length)
  BY DEF Content, FirstBytes
<1>3. fifo_length \in Nat
  BY <1>1, Sizes
<1> QED
  BY <1>1, <1>2, <1>3, FrontIs DEF ContentShape

LEMMA ContentIsNext == CounterInv' => ContentShape'
BY ContentIs, PTL

LEMMA FrontIsPrefix ==
  ASSUME CounterInv, NEW n \in 0 .. fifo_length
  PROVE  FirstBytes(n) = SubSeq(Content, 1, n)
<1>1. n \in Nat /\ n \in Int /\ 1 \in Int
  BY ContentIs DEF ContentShape
<1>2. \A i \in 1 .. n : Content[i] \in Byte
  BY ContentIs, ElementOfSeq DEF ContentShape
<1>3. /\ SubSeq(Content, 1, n) \in Seq(Byte)
      /\ Len(SubSeq(Content, 1, n)) = n
      /\ \A i \in 1 .. n : SubSeq(Content, 1, n)[i] = Content[1 + i - 1]
  BY <1>1, <1>2, SubSeqProperties
<1>4. \A i \in 1 .. n : SubSeq(Content, 1, n)[i] = FirstBytes(n)[i]
  <2> TAKE i \in 1 .. n
  <2>1. 1 + i - 1 = i /\ i \in 1 .. fifo_length
    BY ContentIs DEF ContentShape
  <2> QED
    BY <1>1, <1>3, <2>1, ContentIs, FrontIs DEF ContentShape
<1> QED
  BY <1>1, <1>3, <1>4, FrontIs, SeqEqual

\* A write leaves what waits alone, and puts its bytes behind it.
LEMMA StoredKeeps ==
  ASSUME CounterInv, NEW s \in Seq(Byte), Len(s) <= Size - fifo_length,
         NEW k \in 1 .. fifo_length
  PROVE  Stored(s)[At(begin + k - 1)] = data[At(begin + k - 1)]
<1>1. /\ begin \in Int /\ end \in Int /\ Len(s) \in Nat
      /\ fifo_length \in 0 .. Size /\ k \in Int
  BY ContentIs, LenProperties, Sizes DEF ContentShape, CounterInv
<1> DEFINE x == Size - fifo_length + k - 1
           a == begin + k - 1
<1>2. x \in 0 .. Size - 1 /\ x + 1 > Len(s)
  BY <1>1, Sizes
<1>3. At(At(a) - end) = x
  <2>1. CASE end >= begin
    <3>1. a = end + x - Size
      BY <1>1, <2>1, LengthIs, Sizes DEF CounterInv
    <3> QED
      BY <1>1, <1>2, <3>1, PlaceBack
  <2>2. CASE end < begin
    <3>1. a = (end + Counter) + x - Size /\ end + Counter \in Int
      BY <1>1, <2>2, LengthIs, Sizes DEF CounterInv
    <3>2. At(At(a) - (end + Counter)) = x
      BY <1>1, <1>2, <3>1, PlaceBack
    <3>3. At(a) - (end + Counter) \in Int
          /\ At(a) - (end + Counter) + Counter = At(a) - end
      <4>1. At(a) \in Int
        BY <1>1, AtPlace, Sizes DEF Place
      <4> QED
        BY <1>1, <4>1, Sizes
    <3> QED
      BY <3>2, <3>3, PlaceTurn
  <2> QED
    BY <1>1, <2>1, <2>2
<1>4. At(a) \in Place
  BY <1>1, AtPlace
<1> HIDE DEF x, a
<1>5. Stored(s)[At(a)] = data[At(a)]
  BY <1>1, <1>2, <1>3, <1>4 DEF Stored
<1> QED
  BY <1>5 DEF a

LEMMA StoredPuts ==
  ASSUME CounterInv, NEW s \in Seq(Byte), Len(s) <= Size - fifo_length,
         NEW j \in 0 .. Len(s) - 1
  PROVE  Stored(s)[At(begin + fifo_length + j)] = s[j + 1]
<1>1. /\ begin \in Int /\ end \in Int /\ Len(s) \in Nat
      /\ fifo_length \in 0 .. Size /\ j \in 0 .. Size - 1
  BY ContentIs, LenProperties, Sizes DEF ContentShape, CounterInv
<1>2. At(begin + fifo_length + j) = At(end + j)
  <2>1. CASE end >= begin
    BY <1>1, <2>1, LengthIs DEF CounterInv
  <2>2. CASE end < begin
    <3>1. end + j \in Int /\ begin + fifo_length + j = end + j + Counter
      BY <1>1, <2>2, LengthIs, Sizes DEF CounterInv
    <3> QED
      BY <3>1, PlaceTurn
  <2> QED
    BY <1>1, <2>1, <2>2
<1>3. At(At(end + j) - end) = j
  BY SMTT(60), <1>1, PlaceBack
<1>4. At(end + j) \in Place
  BY <1>1, AtPlace
<1>5. Stored(s)[At(end + j)] = s[j + 1]
  BY <1>1, <1>3, <1>4 DEF Stored
<1> QED
  BY <1>2, <1>5

LEMMA StoredType ==
  ASSUME CounterInv, NEW s \in Seq(Byte) PROVE Stored(s) \in [Place -> Byte]
<1>1. ASSUME NEW i \in Place, At(i - end) + 1 <= Len(s)
      PROVE  s[At(i - end) + 1] \in Byte
  <2>1. i - end \in Int
    BY Sizes DEF CounterInv, Place
  <2>2. At(i - end) \in 0 .. Size - 1
    BY <2>1, AtPlace DEF Place
  <2>3. At(i - end) + 1 \in 1 .. Len(s)
    BY <1>1, <2>2, LenProperties, Sizes
  <2> QED
    BY <2>3, ElementOfSeq
<1> QED
  BY <1>1 DEF Stored, CounterInv

LEMMA WriteAppends ==
  ASSUME CounterInv, NEW s \in Seq(Byte), Len(s) <= Size - fifo_length,
         data' = Stored(s), end' = Advance(end, Len(s)), begin' = begin
  PROVE  CounterInv' /\ Content' = Content \o s
<1>1. Len(s) \in 0 .. Size - fifo_length /\ Len(s) \in 0 .. Size
  BY ContentIs, LenProperties, Sizes DEF ContentShape
<1>2. fifo_length' = fifo_length + Len(s) /\ fifo_length' <= Size
  BY <1>1, LengthGrows
<1>3. CounterInv'
  BY <1>1, <1>2, AdvanceIs, StoredType DEF CounterInv
<1>4. /\ Content' \in Seq(Byte) /\ Len(Content') = fifo_length + Len(s)
      /\ \A k \in 1 .. fifo_length + Len(s) :
           Content'[k] = Stored(s)[At(begin + k - 1)]
  <2>1. ContentShape'
    BY <1>3, ContentIsNext
  <2> QED
    BY <1>2, <2>1 DEF ContentShape
<1>5. ASSUME NEW k \in 1 .. fifo_length + Len(s)
      PROVE  Content'[k] = (Content \o s)[k]
  <2>1. (Content \o s)[k] = IF k <= fifo_length THEN Content[k]
                            ELSE s[k - fifo_length]
    BY ContentIs, ConcatProperties DEF ContentShape
  <2>2. CASE k <= fifo_length
    <3>1. k \in 1 .. fifo_length
      BY <1>1, <2>2, ContentIs DEF ContentShape
    <3> QED
      BY <1>4, <2>1, <2>2, <3>1, ContentIs, StoredKeeps DEF ContentShape
  <2>3. CASE k > fifo_length
    <3> DEFINE j == k - fifo_length - 1
    <3>1. /\ j \in 0 .. Len(s) - 1
          /\ begin + fifo_length + j = begin + k - 1
          /\ j + 1 = k - fifo_length
          /\ ~(k <= fifo_length)
      BY <1>1, <2>3, ContentIs, Sizes DEF ContentShape, CounterInv
    <3> HIDE DEF j
    <3>2. Stored(s)[At(begin + fifo_length + j)] = s[j + 1]
      BY <3>1, StoredPuts
    <3> QED
      BY <1>4, <2>1, <3>1, <3>2
  <2> QED
    BY <1>1, <2>2, <2>3, ContentIs DEF ContentShape
<1>6. Content \o s \in Seq(Byte) /\ Len(Content \o s) = fifo_length + Len(s)
  BY ContentIs, ConcatProperties DEF ContentShape
<1> QED
  BY <1>3, <1>4, <1>5, <1>6, SeqEqual

LEMMA ReadDrops ==
  ASSUME CounterInv, NEW n \in 0 .. fifo_length,
         begin' = Advance(begin, n), UNCHANGED <<end, data>>
  PROVE  CounterInv' /\ Content' = SubSeq(Content, n + 1, Len(Content))
<1>1. n \in 0 .. Size /\ fifo_length \in 0 .. Size
  BY ContentIs, Sizes DEF ContentShape
<1>2. fifo_length' = fifo_length - n
  BY LengthShrinks
<1>3. CounterInv'
  BY <1>1, <1>2, AdvanceIs, Sizes DEF CounterInv
<1>4. /\ Content' \in Seq(Byte) /\ Len(Content') = fifo_length - n
      /\ \A k \in 1 .. fifo_length - n : Content'[k] = data[At(begin' + k - 1)]
  <2>1. ContentShape'
    BY <1>3, ContentIsNext
  <2> QED
    BY <1>2, <2>1 DEF ContentShape
<1> DEFINE rest == SubSeq(Content, n + 1, Len(Content))
<1>5. /\ rest \in Seq(Byte) /\ Len(rest) = fifo_length - n
      /\ \A k \in 1 .. fifo_length - n : rest[k] = Content[n + k]
  <2>1. /\ Len(Content) = fifo_length /\ n + 1 \in Int /\ fifo_length \in Int
        /\ \A k \in n + 1 .. fifo_length : Content[k] \in Byte
    BY <1>1, ContentIs, ElementOfSeq DEF ContentShape
  <2>2. /\ rest \in Seq(Byte)
        /\ Len(rest) = IF n + 1 <= fifo_length THEN fifo_length - (n + 1) + 1 ELSE 0
        /\ \A k \in 1 .. fifo_length - (n + 1) + 1 : rest[k] = Content[n + 1 + k - 1]
    BY <2>1, SubSeqProperties
  <2>3. fifo_length - (n + 1) + 1 = fifo_length - n
    BY <1>1
  <2>4. \A k \in 1 .. fifo_length - n : n + 1 + k - 1 = n + k
    BY <1>1
  <2> HIDE DEF rest
  <2> QED
    BY <1>1, <2>2, <2>3, <2>4
<1>6. ASSUME NEW k \in 1 .. fifo_length - n PROVE Content'[k] = rest[k]
  <2>1. k - 1 \in Nat /\ begin + n + (k - 1) = begin + (n + k) - 1
    BY <1>1, Sizes DEF CounterInv
  <2>2. begin' + k - 1 = Advance(begin, n) + (k - 1)
    BY <1>1, AdvanceIs, Sizes DEF CounterInv
  <2>3. At(Advance(begin, n) + (k - 1)) = At(begin + n + (k - 1))
    BY <1>1, <2>1, AdvancePlace DEF CounterInv
  <2>4. n + k \in 1 .. fifo_length
    BY <1>1
  <2>5. Content[n + k] = data[At(begin + (n + k) - 1)]
    BY <2>4, ContentIs DEF ContentShape
  <2> HIDE DEF rest
  <2> QED
    BY <1>4, <1>5, <2>1, <2>2, <2>3, <2>5
<1> HIDE DEF rest
<1>7. Content' = rest
  BY <1>4, <1>5, <1>6, SeqEqual
<1> QED
  BY <1>3, <1>7 DEF rest

LEMMA FlushEmpties ==
  ASSUME CounterInv, app_drv_fifo_flush
  PROVE  CounterInv' /\ Content' = <<>>
<1>1. fifo_length' = 0
  <2>1. 0 - 0 = 0 /\ 0 % Counter = 0
    BY Sizes
  <2> QED
    BY <2>1 DEF app_drv_fifo_flush, fifo_length
<1>2. CounterInv'
  BY <1>1, Sizes DEF CounterInv, app_drv_fifo_flush
<1>3. Content' \in Seq(Byte) /\ Len(Content') = 0
  BY <1>1, <1>2, ContentIsNext DEF ContentShape
<1> QED
  BY <1>2, <1>3, EmptySeq

LEMMA ContentKept ==
  ASSUME UNCHANGED <<begin, end, data>>
  PROVE  Content' = Content /\ (CounterInv => CounterInv')
BY DEF Content, CounterInv, fifo_length

-----------------------------------------------------------------------------
(***************************************************************************)
(* Each call, and what it is of the queue.                                 *)
(***************************************************************************)
OutType ==
  out \in [result : {"SUCCESS", "LENGTH_ERROR", "NOT_FOUND", "NOT_MEM"},
           bytes : BoundedSeq(Byte, MaxLen)]

FifoInv == CounterInv /\ OutType

LEMMA ReturnedType ==
  ASSUME NEW r \in {"SUCCESS", "LENGTH_ERROR", "NOT_FOUND", "NOT_MEM"},
         NEW b \in BoundedSeq(Byte, MaxLen),
         out' = Returned(r, b)
  PROVE  OutType'
BY DEF Returned, OutType

LEMMA NoBytes == <<>> \in BoundedSeq(Byte, MaxLen)
<1>1. <<>> \in Seq(Byte) /\ Len(<<>>) = 0 /\ 0 <= MaxLen
  BY EmptySeq, SizeAssumption
<1>2. Len(<<>>) <= MaxLen
  BY <1>1, SizeAssumption
<1> QED
  BY <1>1, <1>2, BoundedIs

LEMMA WriteStep ==
  ASSUME FifoInv, NEW s \in BoundedSeq(Byte, MaxLen), app_drv_fifo_write(s)
  PROVE  FifoInv' /\ Queue!Write(s)
<1>1. /\ s \in Seq(Byte) /\ Len(s) \in Nat
      /\ fifo_length \in 0 .. Size /\ Len(Content) = fifo_length
      /\ Size \in Nat /\ CounterInv
  BY BoundedIs, LenProperties, ContentIs, Sizes DEF FifoInv, ContentShape
<1>2. OutType'
  BY NoBytes, ReturnedType DEF app_drv_fifo_write
<1>3. CASE /\ Size - fifo_length < Len(s)
           /\ out' = Returned("LENGTH_ERROR", <<>>)
           /\ UNCHANGED <<begin, end, data>>
  BY <1>1, <1>2, <1>3, ContentKept
  DEF FifoInv, Queue!Write, Queue!Returned, Returned
<1>4. CASE /\ Size - fifo_length = 0
           /\ Len(s) = 0
           /\ out' = Returned("NOT_MEM", <<>>)
           /\ UNCHANGED <<begin, end, data>>
  BY <1>1, <1>2, <1>4, ContentKept
  DEF FifoInv, Queue!Write, Queue!Returned, Returned
<1>5. CASE /\ Size - fifo_length >= Len(s)
           /\ Size - fifo_length > 0
           /\ data' = Stored(s)
           /\ end' = Advance(end, Len(s))
           /\ out' = Returned("SUCCESS", <<>>)
           /\ UNCHANGED begin
  <2>1. CounterInv' /\ Content' = Content \o s
    BY <1>1, <1>5, WriteAppends
  <2> QED
    BY <1>1, <1>2, <1>5, <2>1 DEF FifoInv, Queue!Write, Queue!Returned, Returned
<1> QED
  BY <1>3, <1>4, <1>5 DEF app_drv_fifo_write

\* What a call that reads returns, and that it is not longer than asked for.
LEMMA FrontReturned ==
  ASSUME CounterInv, NEW n \in 0 .. fifo_length, n <= MaxLen,
         out' = Returned("SUCCESS", [k \in 1 .. n |-> data[At(begin + k - 1)]])
  PROVE  OutType' /\ out' = Returned("SUCCESS", SubSeq(Content, 1, n))
<1>1. n \in Nat
  BY ContentIs DEF ContentShape
<1>2. FirstBytes(n) \in BoundedSeq(Byte, MaxLen)
  BY <1>1, FrontIs, BoundedIs
<1>3. out' = Returned("SUCCESS", FirstBytes(n))
  BY DEF FirstBytes
<1> QED
  BY <1>2, <1>3, ReturnedType, FrontIsPrefix

LEMMA ReadStep ==
  ASSUME FifoInv, NEW n \in 0 .. MaxLen, app_drv_fifo_read(n)
  PROVE  FifoInv' /\ Queue!Read(n)
<1> DEFINE m == IF n < fifo_length THEN n ELSE fifo_length
<1>1. /\ fifo_length \in 0 .. Size /\ Len(Content) = fifo_length
      /\ Content \in Seq(Byte) /\ Size \in Nat /\ CounterInv
      /\ m \in 0 .. fifo_length /\ m <= MaxLen
  BY ContentIs, Sizes, SizeAssumption DEF FifoInv, ContentShape
<1>2. fifo_length = 0 <=> Content = <<>>
  BY <1>1, EmptySeq
<1>3. CASE /\ fifo_length = 0
           /\ out' = Returned("NOT_FOUND", <<>>)
           /\ UNCHANGED <<begin, end, data>>
  <2>1. OutType'
    BY <1>3, NoBytes, ReturnedType
  <2> QED
    BY <1>1, <1>2, <1>3, <2>1, ContentKept
    DEF FifoInv, Queue!Read, Queue!Returned, Returned
<1>4. CASE /\ fifo_length > 0
           /\ out' = Returned("SUCCESS",
                              [k \in 1 .. m |-> data[At(begin + k - 1)]])
           /\ begin' = Advance(begin, m)
           /\ UNCHANGED <<end, data>>
  <2>1. OutType' /\ out' = Returned("SUCCESS", SubSeq(Content, 1, m))
    BY <1>1, <1>4, FrontReturned
  <2>2. CounterInv' /\ Content' = SubSeq(Content, m + 1, Len(Content))
    BY <1>1, <1>4, ReadDrops
  <2>3. Content # <<>> /\ m = IF n < Len(Content) THEN n ELSE Len(Content)
    BY <1>1, <1>2, <1>4
  <2> HIDE DEF m
  <2> QED
    BY <2>1, <2>2, <2>3 DEF FifoInv, Queue!Read, Queue!Returned, Returned
<1> QED
  BY <1>3, <1>4 DEF app_drv_fifo_read

LEMMA PeekStep ==
  ASSUME FifoInv, NEW n \in 0 .. MaxLen, app_drv_fifo_rd(n)
  PROVE  FifoInv' /\ Queue!Peek(n)
<1>1. n \in 0 .. fifo_length /\ n <= MaxLen /\ Len(Content) = fifo_length
  BY ContentIs, SizeAssumption DEF FifoInv, ContentShape, app_drv_fifo_rd
<1>2. OutType' /\ out' = Returned("SUCCESS", SubSeq(Content, 1, n))
  BY <1>1, FrontReturned DEF FifoInv, app_drv_fifo_rd
<1>3. CounterInv' /\ Content' = Content
  BY ContentKept DEF FifoInv, app_drv_fifo_rd
<1> QED
  BY <1>1, <1>2, <1>3 DEF FifoInv, Queue!Peek, Queue!Returned, Returned

LEMMA DropStep ==
  ASSUME FifoInv, NEW n \in 0 .. MaxLen, app_drv_fifo_rd_del(n)
  PROVE  FifoInv' /\ Queue!Drop(n)
<1>1. n \in 0 .. fifo_length /\ Len(Content) = fifo_length
  BY ContentIs, SizeAssumption DEF FifoInv, ContentShape, app_drv_fifo_rd_del
<1>2. CounterInv' /\ Content' = SubSeq(Content, n + 1, Len(Content))
  BY <1>1, ReadDrops DEF FifoInv, app_drv_fifo_rd_del
<1>3. out' = out /\ OutType'
  BY DEF app_drv_fifo_rd_del, FifoInv, OutType
<1> QED
  BY <1>1, <1>2, <1>3 DEF FifoInv, Queue!Drop

LEMMA FlushStep ==
  ASSUME FifoInv, app_drv_fifo_flush
  PROVE  FifoInv' /\ Queue!Flush
BY FlushEmpties DEF FifoInv, OutType, Queue!Flush, app_drv_fifo_flush

LEMMA FifoInit == Init => FifoInv /\ Queue!Init
<1> SUFFICES ASSUME Init PROVE FifoInv /\ Queue!Init
  OBVIOUS
<1>1. fifo_length = 0
  <2>1. 0 - 0 = 0 /\ 0 % Counter = 0
    BY Sizes
  <2> QED
    BY <2>1 DEF Init, fifo_length
<1>2. data \in [Place -> Byte]
  BY SizeAssumption DEF Init
<1>3. CounterInv
  BY <1>1, <1>2, Sizes DEF CounterInv, Init
<1>4. Content = <<>>
  <2>1. Content \in Seq(Byte) /\ Len(Content) = 0
    BY <1>1, <1>3, ContentIs DEF ContentShape
  <2> QED
    BY <2>1, EmptySeq
<1>5. OutType
  BY NoBytes DEF Init, OutType, Returned
<1> QED
  BY <1>3, <1>4, <1>5 DEF FifoInv, Queue!Init, Queue!Returned, Init, Returned

LEMMA FifoStep ==
  FifoInv /\ [Next]_vars => FifoInv' /\ [Queue!Next]_<<Content, out>>
<1> SUFFICES ASSUME FifoInv, [Next]_vars
             PROVE  FifoInv' /\ [Queue!Next]_<<Content, out>>
  OBVIOUS
<1>1. ASSUME NEW s \in BoundedSeq(Byte, MaxLen), app_drv_fifo_write(s)
      PROVE  FifoInv' /\ Queue!Next
  <2>1. FifoInv' /\ Queue!Write(s)
    BY <1>1, WriteStep
  <2>2. s \in Queue!Data
    BY DEF Queue!Data, Queue!BoundedSeq, Queue!SeqOf, BoundedSeq, SeqOf
  <2> QED
    BY <2>1, <2>2 DEF Queue!Next
<1>2. ASSUME NEW n \in 0 .. MaxLen,
             app_drv_fifo_read(n) \/ app_drv_fifo_rd(n) \/ app_drv_fifo_rd_del(n)
      PROVE  FifoInv' /\ Queue!Next
  BY <1>2, ReadStep, PeekStep, DropStep DEF Queue!Next
<1>3. CASE app_drv_fifo_flush
  BY <1>3, FlushStep DEF Queue!Next
<1>4. CASE UNCHANGED vars
  <2>1. UNCHANGED <<begin, end, data>> /\ UNCHANGED out
    BY <1>4 DEF vars
  <2> QED
    BY <2>1, ContentKept DEF FifoInv, OutType
<1> QED
  BY <1>1, <1>2, <1>3, <1>4 DEF Next

(***************************************************************************)
(* The counters and the places they name stay in range, and a read returns *)
(* bytes of the buffer, no more than it was asked for.                     *)
(***************************************************************************)
THEOREM TypeCorrect == Spec => []TypeOK
<1>1. FifoInv => TypeOK
  BY DEF FifoInv, CounterInv, OutType, TypeOK
<1> QED
  BY <1>1, FifoInit, FifoStep, PTL DEF Spec

(***************************************************************************)
(* For every size of the buffer, of the counters and of the calls the      *)
(* transmit FIFO is a bounded queue of bytes, however often the counters   *)
(* start anew.                                                             *)
(***************************************************************************)
THEOREM FifoImplementsQueue == Spec => QueueSpec
BY FifoInit, FifoStep, PTL DEF Spec, QueueSpec, Queue!Spec

=============================================================================
