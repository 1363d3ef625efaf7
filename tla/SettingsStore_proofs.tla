------------------------ MODULE SettingsStore_proofs ------------------------
(***************************************************************************)
(* Theorems about the two implementations of SettingsStore: IniStore, for  *)
(* pages of any number of records of any length, wherever the power goes;  *)
(* and, at the end, EepromStore, for a configuration of any length.        *)
(***************************************************************************)
EXTENDS IniStore, TLAPS

\* The first n records of the page have been written to, the others not.
Used(n) == \A s \in Slot : page[s][0] = Erased <=> s > n

Frontier == \E n \in 0 .. Slots : Used(n)

\* A record whose first half-word is erased is erased.
ClearIsErased ==
  \A s \in Slot : page[s][0] = Erased => \A k \in Place : page[s][k] = Erased

\* An end marker closes one configuration.
EndedIsWhole == \A s \in Slot : Ended(s) => \E c \in Config : Whole(s, c)

\* The search for the last record ends at one.
HasLast == Records # {} => \E s \in Records : \A t \in Records : t <= s

\* The record in hand is the last one in use, programmed up to at.
UnderWay ==
  /\ pc = "erase" => at = 0
  /\ pc = "program" =>
       /\ adr \in Slot
       /\ Used(IF at = 0 THEN adr - 1 ELSE adr)
       /\ \A k \in Place : page[adr][k] = IF k < at THEN Word(k) ELSE Erased

IInv ==
  /\ TypeOK
  /\ Frontier
  /\ ClearIsErased
  /\ EndedIsWhole
  /\ HasLast
  /\ UnderWay

-----------------------------------------------------------------------------
(***************************************************************************)
(* What the searches find.                                                 *)
(***************************************************************************)

\* Two configurations do not fill the same half-words.
LEMMA WholeUnique ==
  ASSUME NEW s \in Slot, NEW c \in Config, NEW d \in Config, Whole(s, c), Whole(s, d)
  PROVE  c = d
<1>1. 1 \in 1 .. WordCnt
  BY WordAssumption
<1>2. page[s][1] = [kind |-> "data", of |-> c]
  BY <1>1 DEF Whole
<1>3. page[s][1] = [kind |-> "data", of |-> d]
  BY <1>1 DEF Whole
<1>4. [kind |-> "data", of |-> c].of = [kind |-> "data", of |-> d].of
  BY <1>2, <1>3
<1> QED
  BY <1>4

LEMMA LastIs ==
  ASSUME NEW s \in Records, \A t \in Records : t <= s
  PROVE  LastAdrIni = s
<1>1. \A t \in Records : t \in Int
  BY SlotsAssumption DEF Records, Slot
<1>2. \A u \in Records : (\A t \in Records : t <= u) => u = s
  BY <1>1
<1> QED
  BY <1>2 DEF LastAdrIni

\* ReadIniBlk finds the configuration of the last complete record.
LEMMA FoundIs ==
  ASSUME NEW s \in Records, \A t \in Records : t <= s,
         NEW c \in Config, Whole(s, c)
  PROVE  Found = c
<1>1. LastAdrIni = s /\ s \in Slot /\ s # 0
  BY LastIs, SlotsAssumption DEF Records, Slot
<1>2. \A d \in Config : Whole(s, d) => d = c
  BY <1>1, WholeUnique
<1> QED
  BY <1>1, <1>2 DEF Found

LEMMA FoundNone ==
  ASSUME Records = {} PROVE LastAdrIni = 0 /\ Found = None
BY DEF LastAdrIni, Found

\* The first clear record is the one behind those in use.
LEMMA ClearIs ==
  ASSUME NEW n \in 0 .. Slots, Used(n)
  PROVE  LastAdrClr = IF n = Slots THEN 0 ELSE n + 1
<1>1. Clear = {s \in Slot : s > n}
  BY DEF Clear, Used
<1>2. CASE n = Slots
  <2>1. Clear = {}
    BY <1>1, <1>2, SlotsAssumption DEF Slot
  <2> QED
    BY <1>2, <2>1 DEF LastAdrClr
<1>3. CASE n # Slots
  <2>1. n + 1 \in Clear /\ \A t \in Clear : t \in Int /\ n + 1 <= t
    BY <1>1, <1>3, SlotsAssumption DEF Slot
  <2>2. \A u \in Clear : (\A t \in Clear : u <= t) => u = n + 1
    BY <2>1
  <2> QED
    BY <1>3, <2>1, <2>2 DEF LastAdrClr
<1> QED
  BY <1>2, <1>3

(***************************************************************************)
(* The same of the next state.                                             *)
(***************************************************************************)
LEMMA FoundIsNext ==
  ASSUME NEW s \in Slot, s \in Records', \A t \in Records' : t <= s,
         NEW c \in Config, Whole(s, c)'
  PROVE  Found' = c
<1>1. s # 0 /\ \A t \in Records' : t \in Int
  BY SlotsAssumption DEF Records, Slot
<1>2. \A u \in Records' : (\A t \in Records' : t <= u) => u = s
  BY <1>1 DEF Slot
<1>3. LastAdrIni' = s
  BY <1>2 DEF LastAdrIni
<1>4. 1 \in 1 .. WordCnt
  BY WordAssumption
<1>5. \A d \in Config : Whole(s, d)' => d = c
  <2> SUFFICES ASSUME NEW d \in Config, Whole(s, d)'
               PROVE  d = c
    OBVIOUS
  <2>1. page'[s][1] = [kind |-> "data", of |-> c]
    BY <1>4 DEF Whole
  <2>2. page'[s][1] = [kind |-> "data", of |-> d]
    BY <1>4 DEF Whole
  <2>3. [kind |-> "data", of |-> c].of = [kind |-> "data", of |-> d].of
    BY <2>1, <2>2
  <2> QED
    BY <2>3
<1> QED
  BY <1>1, <1>3, <1>5 DEF Found

LEMMA FoundNoneNext ==
  ASSUME Records' = {} PROVE Found' = None
BY DEF LastAdrIni, Found

\* Nothing else is found as long as the complete records stay as they are.
LEMMA FoundKept ==
  ASSUME HasLast, EndedIsWhole, Records' = Records,
         \A s \in Records : \A k \in 1 .. WordCnt : page'[s][k] = page[s][k]
  PROVE  Found' = Found /\ HasLast'
<1>1. HasLast'
  BY DEF HasLast
<1>2. CASE Records = {}
  BY <1>1, <1>2, FoundNone, FoundNoneNext
<1>3. CASE Records # {}
  <2>1. PICK s \in Records : \A t \in Records : t <= s
    BY <1>3 DEF HasLast
  <2>2. s \in Slot /\ Ended(s)
    BY DEF Records
  <2>3. PICK c \in Config : Whole(s, c)
    BY <2>2 DEF EndedIsWhole
  <2>4. Whole(s, c)'
    BY <2>3 DEF Whole
  <2> QED
    BY <1>1, <2>1, <2>2, <2>3, <2>4, FoundIs, FoundIsNext
<1> QED
  BY <1>2, <1>3

-----------------------------------------------------------------------------
(***************************************************************************)
(* One half-word of the record in hand.                                    *)
(***************************************************************************)

\* It is put where flash is erased, and the other records stay as they are.
LEMMA PutWhere ==
  ASSUME IInv, pc = "program", NEW h, Put(h)
  PROVE  /\ adr \in Slot /\ at \in Place
         /\ page[adr][at] = Erased
         /\ page' = [page EXCEPT ![adr][at] = h]
         /\ page'[adr][at] = h
         /\ \A s \in Slot, k \in Place : s # adr \/ k # at => page'[s][k] = page[s][k]
         /\ \A s \in Slot : s > adr => page[s][0] = Erased
<1>1. adr \in Slot /\ at \in Place /\ page \in [Slot -> [Place -> Half]]
  BY DEF IInv, TypeOK, UnderWay
<1>2. page[adr][at] = Erased
  BY <1>1 DEF IInv, UnderWay, Place
<1>3. page' = [page EXCEPT ![adr][at] = h]
  BY DEF Put
<1>4. \A s \in Slot : s > adr => page[s][0] = Erased
  BY <1>1, SlotsAssumption DEF IInv, UnderWay, Used, Slot, Place
<1>5. page'[adr][at] = h
  BY <1>1, <1>3
<1>6. \A s \in Slot, k \in Place : s # adr \/ k # at => page'[s][k] = page[s][k]
  BY <1>1, <1>3
<1> QED
  BY <1>1, <1>2, <1>3, <1>4, <1>5, <1>6

\* Short of the end marker, the complete records are the same.
LEMMA PutKeeps ==
  ASSUME IInv, pc = "program", NEW h \in Half, h.kind # "end", Put(h)
  PROVE  /\ Records' = Records
         /\ Found' = Found /\ HasLast'
<1>0. 0 \in Place /\ Last \in Place /\ Last # 0
  BY WordAssumption DEF Place, Last
<1>1. /\ adr \in Slot /\ at \in Place
      /\ page[adr][at] = Erased
      /\ page'[adr][at] = h
      /\ \A s \in Slot, k \in Place : s # adr \/ k # at => page'[s][k] = page[s][k]
      /\ \A s \in Slot : s > adr => page[s][0] = Erased
  BY PutWhere
<1>2. page[adr][Last].kind # "end" /\ page'[adr][Last].kind # "end"
  <2>1. page[adr][Last] = Erased
    BY <1>0, <1>1 DEF IInv, UnderWay, Place
  <2>2. page'[adr][Last] = Erased \/ page'[adr][Last] = h
    BY <1>0, <1>1, <2>1
  <2> QED
    BY <2>1, <2>2 DEF Erased
<1>3. ASSUME NEW s \in Slot PROVE s \in Records <=> s \in Records'
  <2>1. CASE s = adr
    <3>1. ~Ended(s) /\ ~Ended(s)'
      BY <1>2, <2>1 DEF Ended
    <3> QED
      BY <3>1 DEF Records
  <2>2. CASE s > adr
    <3>1. page[s][0] = Erased /\ page'[s][0] = Erased
      BY <1>0, <1>1, <2>2 DEF Slot
    <3>2. ~Started(s) /\ ~Started(s)'
      BY <3>1 DEF Started, Erased
    <3>3. s \in 1 .. s
      BY SlotsAssumption DEF Slot
    <3> QED
      BY <3>2, <3>3 DEF Records
  <2>3. CASE s < adr
    <3>0. adr \in Slot
      BY <1>1
    <3>1. \A t \in 1 .. s : t \in Slot /\ t # adr
      BY <2>3, <3>0, SlotsAssumption DEF Slot
    <3>2. \A t \in 1 .. s : page'[t][0] = page[t][0]
      BY <3>1, <1>0, <1>1
    <3>3. s # adr
      BY <2>3, <3>0, SlotsAssumption DEF Slot
    <3>4. page'[s][Last] = page[s][Last]
      BY <3>3, <1>0, <1>1
    <3> QED
      BY <3>2, <3>4 DEF Records, Started, Ended
  <2>4. s \in Int /\ adr \in Int
    BY <1>1, SlotsAssumption DEF Slot
  <2> QED
    BY <2>1, <2>2, <2>3, <2>4
<1>4. Records' = Records /\ adr \notin Records
  <2>1. ~Ended(adr)
    BY <1>2 DEF Ended
  <2> QED
    BY <1>3, <2>1 DEF Records
<1>5. \A s \in Records : \A k \in 1 .. WordCnt : page'[s][k] = page[s][k]
  <2>1. \A s \in Records : s \in Slot /\ s # adr
    BY <1>4 DEF Records
  <2>2. 1 .. WordCnt \subseteq Place
    BY WordAssumption DEF Place, Last
  <2> QED
    BY <2>1, <2>2, <1>1
<1> QED
  BY <1>4, <1>5, FoundKept DEF IInv

\* With its end marker it is complete, and found if the search comes to it.
LEMMA PutEnds ==
  ASSUME IInv, pc = "program", at = Last, Put(Word(Last)),
         NEW a \in Slot, a = adr, NEW c \in Config, c = cfg
  PROVE  /\ Whole(a, c)'
         /\ Found' = IF \A t \in 1 .. a : Started(t) THEN c ELSE Found
         /\ HasLast'
<1>0. 0 \in Place /\ Last \in Place /\ Last # 0 /\ Last \in Int
  BY WordAssumption DEF Place, Last
<1>1. /\ page[a][Last] = Erased
      /\ page'[a][Last] = Word(Last)
      /\ \A s \in Slot, k \in Place : s # a \/ k # Last => page'[s][k] = page[s][k]
      /\ \A s \in Slot : s > a => page[s][0] = Erased
  BY PutWhere
<1>2. \A s \in Slot : Started(s)' <=> Started(s)
  BY <1>0, <1>1 DEF Started
<1>3. \A s \in Slot : s # a => (Ended(s)' <=> Ended(s))
  BY <1>0, <1>1 DEF Ended
<1>4. Whole(a, c)'
  <2> SUFFICES ASSUME NEW k \in 1 .. WordCnt
               PROVE  page'[a][k] = [kind |-> "data", of |-> c]
    BY DEF Whole
  <2>1. k \in Place /\ k < Last /\ k # 0 /\ k # Last
    BY WordAssumption DEF Place, Last
  <2>2. page[a][k] = Word(k)
    BY <2>1 DEF IInv, UnderWay
  <2>3. page'[a][k] = page[a][k]
    BY <1>1, <2>1
  <2> QED
    BY <2>1, <2>2, <2>3 DEF Word
<1>5. Ended(a)' /\ ~Ended(a)
  BY <1>0, <1>1 DEF Ended, Word, Erased
<1>6. \A s \in Slot : \A t \in 1 .. s : t \in Slot
  BY SlotsAssumption DEF Slot
<1>7. \A s \in Slot : s # a => (s \in Records' <=> s \in Records)
  BY <1>2, <1>3, <1>6 DEF Records
<1>8. a \notin Records /\ (a \in Records' <=> \A t \in 1 .. a : Started(t))
  BY <1>2, <1>5, <1>6 DEF Records
<1>9. \A s \in Records : s \in Slot /\ s < a
  <2> SUFFICES ASSUME NEW s \in Records PROVE s < a
    BY DEF Records
  <2>1. s \in Slot /\ s \in Int /\ a \in Int /\ s \in 1 .. s
    BY SlotsAssumption DEF Records, Slot
  <2>2. Started(s)
    BY <2>1 DEF Records
  <2>3. ~(s > a)
    BY <1>1, <2>1, <2>2 DEF Started, Erased
  <2> QED
    BY <1>8, <2>1, <2>3
<1>10. CASE \A t \in 1 .. a : Started(t)
  <2>1. a \in Records' /\ \A t \in Records' : t <= a
    <3>1. a \in Records' /\ a <= a
      BY <1>8, <1>10, SlotsAssumption DEF Slot
    <3>2. ASSUME NEW t \in Records', t # a PROVE t <= a
      <4>1. t \in Slot
        BY DEF Records
      <4>2. t < a
        BY <1>7, <1>9, <3>2, <4>1
      <4> QED
        BY <4>1, <4>2, SlotsAssumption DEF Slot
    <3> QED
      BY <3>1, <3>2
  <2>2. Found' = c
    BY <1>4, <2>1, FoundIsNext
  <2> QED
    BY <1>4, <1>10, <2>1, <2>2 DEF HasLast
<1>11. CASE ~(\A t \in 1 .. a : Started(t))
  <2>1. Records' = Records
    <3>1. \A s \in Slot : s \in Records' <=> s \in Records
      BY <1>7, <1>8, <1>11
    <3> QED
      BY <3>1 DEF Records
  <2>2. \A s \in Records : \A k \in 1 .. WordCnt : page'[s][k] = page[s][k]
    <3>1. 1 .. WordCnt \subseteq Place
      BY WordAssumption DEF Place, Last
    <3>2. \A s \in Records : s \in Slot /\ s # a
      BY <1>8 DEF Records
    <3> QED
      BY <1>1, <3>1, <3>2
  <2>3. Found' = Found /\ HasLast'
    BY <2>1, <2>2, FoundKept DEF IInv
  <2> QED
    BY <1>4, <1>11, <2>3
<1> QED
  BY <1>10, <1>11

-----------------------------------------------------------------------------
(***************************************************************************)
(* The invariant.                                                          *)
(***************************************************************************)
LEMMA InitIInv == Init => IInv
<1> SUFFICES ASSUME Init PROVE IInv
  OBVIOUS
<1>0. 0 \in Place /\ Last \in Place
  BY WordAssumption DEF Place, Last
<1>1. /\ page = [s \in Slot |-> [k \in Place |-> Erased]]
      /\ cfg = Default /\ pc = "off" /\ adr = 0 /\ at = 0
  BY DEF Init
<1>2. Erased \in Half /\ Erased.kind # "end"
  BY DEF Erased, Half
<1>3. TypeOK
  BY <1>0, <1>1, <1>2, SlotsAssumption, ConfigAssumption DEF TypeOK
<1>4. \A s \in Slot, k \in Place : page[s][k] = Erased
  BY <1>1
<1>5. \A s \in Slot : ~Ended(s)
  BY <1>0, <1>2, <1>4 DEF Ended
<1>6. Frontier
  <2>1. Used(0) /\ 0 \in 0 .. Slots
    BY <1>0, <1>4, SlotsAssumption DEF Used, Slot
  <2> QED
    BY <2>1 DEF Frontier
<1> QED
  BY <1>1, <1>3, <1>4, <1>5, <1>6
  DEF IInv, ClearIsErased, EndedIsWhole, HasLast, UnderWay, Records

\* The page stays: so does all that is said of it.
LEMMA PageKept ==
  ASSUME IInv, page' = page
  PROVE  Frontier' /\ ClearIsErased' /\ EndedIsWhole' /\ HasLast' /\ Found' = Found
<1>1. Records' = Records
  BY DEF Records, Started, Ended
<1>2. HasLast' /\ Found' = Found
  BY <1>1, FoundKept DEF IInv
<1>3. Frontier'
  BY DEF IInv, Frontier, Used
<1>4. ClearIsErased' /\ EndedIsWhole'
  BY DEF IInv, ClearIsErased, EndedIsWhole, Ended, Whole
<1> QED
  BY <1>2, <1>3, <1>4

\* The records in use after a half-word of the one in hand.
LEMMA PutFrontier ==
  ASSUME IInv, pc = "program", NEW h, h # Erased, Put(h),
         NEW a \in Slot, a = adr
  PROVE  /\ Used(a)' /\ a \in 0 .. Slots
         /\ ClearIsErased'
<1>0. 0 \in Place /\ a \in 0 .. Slots
  BY WordAssumption, SlotsAssumption DEF Place, Last, Slot
<1>1. /\ at \in Place
      /\ page'[a][at] = h
      /\ \A s \in Slot, k \in Place : s # a \/ k # at => page'[s][k] = page[s][k]
  BY PutWhere
<1>2. page'[a][0] # Erased
  <2>1. CASE at = 0
    BY <1>1, <2>1
  <2>2. CASE at # 0
    <3>1. page[a][0] = Word(0)
      BY <1>0, <1>1, <2>2 DEF IInv, UnderWay, Place
    <3>2. page'[a][0] = page[a][0]
      BY <1>0, <1>1, <2>2
    <3> QED
      BY <3>1, <3>2 DEF Word, Erased
  <2> QED
    BY <2>1, <2>2
<1>3. \A s \in Slot : s # a => page'[s][0] = page[s][0]
  BY <1>0, <1>1
<1>4. Used(IF at = 0 THEN a - 1 ELSE a)
  BY DEF IInv, UnderWay
<1>5. \A s \in Slot : s # a => (page[s][0] = Erased <=> s > a)
  BY <1>4, SlotsAssumption DEF Used, Slot
<1>6. Used(a)'
  BY <1>2, <1>3, <1>5, SlotsAssumption DEF Used, Slot
<1>7. ClearIsErased'
  <2> SUFFICES ASSUME NEW s \in Slot, page'[s][0] = Erased, NEW k \in Place
               PROVE  page'[s][k] = Erased
    BY DEF ClearIsErased
  <2>1. s # a
    BY <1>2
  <2>2. page[s][k] = Erased
    BY <1>3, <2>1 DEF IInv, ClearIsErased
  <2> QED
    BY <1>1, <2>1, <2>2
<1> QED
  BY <1>0, <1>6, <1>7

\* Short of the end marker, nothing is ended that was not.
LEMMA PutEnded ==
  ASSUME IInv, pc = "program", NEW h \in Half, h.kind # "end", Put(h)
  PROVE  EndedIsWhole'
<1>0. Last \in Place /\ 1 .. WordCnt \subseteq Place
  BY WordAssumption DEF Place, Last
<1>1. /\ adr \in Slot /\ at \in Place
      /\ page'[adr][at] = h
      /\ \A s \in Slot, k \in Place : s # adr \/ k # at => page'[s][k] = page[s][k]
  BY PutWhere
<1>2. page[adr][Last] = Erased
  BY <1>0, <1>1 DEF IInv, UnderWay, Place
<1>3. page'[adr][Last].kind # "end"
  BY <1>0, <1>1, <1>2 DEF Erased
<1> SUFFICES ASSUME NEW s \in Slot, Ended(s)'
             PROVE  \E c \in Config : Whole(s, c)'
  BY DEF EndedIsWhole
<1>4. s # adr
  BY <1>3 DEF Ended
<1>5. Ended(s)
  BY <1>0, <1>1, <1>4 DEF Ended
<1>6. PICK c \in Config : Whole(s, c)
  BY <1>5 DEF IInv, EndedIsWhole
<1>7. Whole(s, c)'
  BY <1>0, <1>1, <1>4, <1>6 DEF Whole
<1> QED
  BY <1>7

\* What one half-word does to the page: a configuration comes to be found only
\* with the end marker, and then it is the one that is being written.
LEMMA PutAny ==
  ASSUME IInv, pc = "program", NEW h \in {Word(at), Spoiled}, Put(h)
  PROVE  /\ page' \in [Slot -> [Place -> Half]]
         /\ Used(adr)' \/ adr' # adr
         /\ Frontier' /\ ClearIsErased' /\ EndedIsWhole' /\ HasLast'
         /\ Found' = Found \/ Found' = cfg
         /\ at = Last /\ h = Word(at) /\ (\A t \in 1 .. adr : Started(t)) => Found' = cfg
<1>0. /\ cfg \in Config /\ page \in [Slot -> [Place -> Half]]
      /\ at \in Place /\ adr \in Slot
  BY DEF IInv, TypeOK, UnderWay
<1>1. h \in Half /\ h # Erased
  BY <1>0 DEF Word, Spoiled, Erased, Half
<1>2. page' \in [Slot -> [Place -> Half]]
  <2>1. page' = [page EXCEPT ![adr] = [page[adr] EXCEPT ![at] = h]]
    BY DEF Put
  <2>2. [page[adr] EXCEPT ![at] = h] \in [Place -> Half]
    BY <1>0, <1>1
  <2> QED
    BY <1>0, <2>1, <2>2
<1>3. PICK a \in Slot : a = adr
  BY <1>0
<1>4. PICK c \in Config : c = cfg
  BY <1>0
<1>5. Used(a)' /\ a \in 0 .. Slots /\ ClearIsErased'
  BY <1>1, <1>3, PutFrontier
<1>6. Frontier' /\ (Used(adr)' \/ adr' # adr)
  BY <1>3, <1>5 DEF Frontier, Used
<1>7. CASE h.kind # "end"
  <2>1. EndedIsWhole' /\ Found' = Found /\ HasLast'
    BY <1>1, <1>7, PutEnded, PutKeeps
  <2>2. ~(at = Last /\ h = Word(at))
    BY <1>7, WordAssumption DEF Word, Last
  <2> QED
    BY <1>2, <1>5, <1>6, <2>1, <2>2
<1>8. CASE h.kind = "end"
  <2>1. at = Last /\ h = Word(Last)
    BY <1>8 DEF Word, Spoiled
  <2>2. /\ Whole(a, c)'
        /\ Found' = IF \A t \in 1 .. a : Started(t) THEN c ELSE Found
        /\ HasLast'
    BY <1>3, <1>4, <2>1, PutEnds
  <2>3. EndedIsWhole'
    <3> SUFFICES ASSUME NEW s \in Slot, Ended(s)', s # a
                 PROVE  \E d \in Config : Whole(s, d)'
      BY <1>4, <2>2 DEF EndedIsWhole
    <3>0. Last \in Place /\ 1 .. WordCnt \subseteq Place
      BY WordAssumption DEF Place, Last
    <3>1. \A k \in Place : page'[s][k] = page[s][k]
      BY <1>3, PutWhere
    <3>2. PICK d \in Config : Whole(s, d)
      BY <3>0, <3>1 DEF IInv, EndedIsWhole, Ended
    <3>3. Whole(s, d)'
      BY <3>0, <3>1, <3>2 DEF Whole
    <3> QED
      BY <3>3
  <2> QED
    BY <1>2, <1>3, <1>4, <1>5, <1>6, <2>1, <2>2, <2>3
<1> QED
  BY <1>7, <1>8

LEMMA StepIInv == IInv /\ [Next]_vars => IInv'
<1> SUFFICES ASSUME IInv, [Next]_vars PROVE IInv'
  OBVIOUS
<1>0. TypeOK
  BY DEF IInv
<1>1. CASE UNCHANGED vars
  <2>1. TypeOK' /\ UnderWay'
    BY <1>0, <1>1 DEF vars, TypeOK, IInv, UnderWay, Used, Word
  <2> QED
    BY <1>1, <2>1, PageKept DEF vars, IInv
<1>2. CASE Boot
  <2>1. Found = None \/ Found \in Config
    <3>1. CASE Records = {}
      BY <3>1, FoundNone
    <3>2. CASE Records # {}
      <4>1. PICK s \in Records : \A t \in Records : t <= s
        BY <3>2 DEF IInv, HasLast
      <4>2. PICK c \in Config : Whole(s, c)
        BY <4>1 DEF IInv, EndedIsWhole, Records
      <4> QED
        BY <4>1, <4>2, FoundIs
    <3> QED
      BY <3>1, <3>2
  <2>2. TypeOK'
    BY <1>0, <1>2, <2>1, ConfigAssumption DEF Boot, TypeOK
  <2> QED
    BY <1>2, <2>2, PageKept DEF Boot, IInv, UnderWay
<1>3. CASE CmdCfg
  <2>1. TypeOK'
    BY <1>0, <1>3 DEF CmdCfg, TypeOK
  <2> QED
    BY <1>3, <2>1, PageKept DEF CmdCfg, IInv, UnderWay
<1>4. CASE CmdScf
  <2>1. PICK n \in 0 .. Slots : Used(n)
    BY DEF IInv, Frontier
  <2>2. adr' = IF n = Slots THEN 0 ELSE n + 1
    BY <1>4, <2>1, ClearIs DEF CmdScf
  <2>3. 0 \in Place /\ adr' \in 0 .. Slots
    BY <2>2, SlotsAssumption, WordAssumption DEF Place, Last
  <2>4. TypeOK'
    BY <1>0, <1>4, <2>3 DEF CmdScf, TypeOK
  <2>5. UnderWay'
    <3>1. CASE n = Slots
      BY <1>4, <2>2, <3>1 DEF CmdScf, UnderWay
    <3>2. CASE n # Slots
      <4>1. adr' \in Slot /\ adr' - 1 = n /\ adr' > n
        BY <2>2, <3>2, SlotsAssumption DEF Slot
      <4>2. page[adr'][0] = Erased
        BY <2>1, <4>1 DEF Used
      <4>3. \A k \in Place : page[adr'][k] = Erased /\ ~(k < 0)
        BY <4>1, <4>2 DEF IInv, ClearIsErased, Place
      <4>4. page' = page /\ at' = 0
        BY <1>4 DEF CmdScf
      <4>5. Used(n)'
        BY <2>1, <4>4 DEF Used
      <4>6. Used(IF at = 0 THEN adr - 1 ELSE adr)'
        BY <4>1, <4>4, <4>5 DEF Used
      <4> QED
        BY <4>1, <4>3, <4>4, <4>6 DEF UnderWay
    <3> QED
      BY <3>1, <3>2
  <2> QED
    BY <1>4, <2>4, <2>5, PageKept DEF CmdScf, IInv
<1>5. CASE ErasePage
  <2>0. 0 \in Place /\ Last \in Place /\ 1 \in Slot /\ 1 \in 0 .. Slots
    BY WordAssumption, SlotsAssumption DEF Place, Last, Slot
  <2>1. \A s \in Slot, k \in Place : page'[s][k] = Erased
    BY <1>5 DEF ErasePage
  <2>2. TypeOK'
    BY <1>0, <1>5, <2>0 DEF ErasePage, TypeOK, Erased, Half
  <2>3. \A s \in Slot : ~Ended(s)'
    BY <2>0, <2>1 DEF Ended, Erased
  <2>4. Used(0)' /\ 0 \in 0 .. Slots
    BY <2>0, <2>1, SlotsAssumption DEF Used, Slot
  <2>5. Frontier'
    BY <2>4 DEF Frontier, Used
  <2>6. adr' = 1 /\ at' = 0
    BY <1>5 DEF ErasePage, IInv, UnderWay
  <2>7. UnderWay'
    <3>1. Used(IF at = 0 THEN adr - 1 ELSE adr)'
      BY <2>4, <2>6 DEF Used
    <3>2. \A k \in Place : ~(k < 0)
      BY DEF Place
    <3> QED
      BY <1>5, <2>0, <2>1, <2>6, <3>1, <3>2 DEF ErasePage, UnderWay
  <2> QED
    BY <2>1, <2>2, <2>3, <2>5, <2>7
    DEF IInv, ClearIsErased, EndedIsWhole, HasLast, Records
<1>6. CASE ProgramHalfWord
  <2>0. pc = "program" /\ Put(Word(at)) /\ adr' = adr /\ cfg' = cfg
    BY <1>6 DEF ProgramHalfWord
  <2>1. /\ page' \in [Slot -> [Place -> Half]]
        /\ Used(adr)' \/ adr' # adr
        /\ Frontier' /\ ClearIsErased' /\ EndedIsWhole' /\ HasLast'
    BY <2>0, PutAny
  <2>2. CASE at = Last
    <3>1. pc' = "answer" /\ at' = at
      BY <1>6, <2>2 DEF ProgramHalfWord
    <3> QED
      BY <1>0, <2>0, <2>1, <3>1 DEF IInv, TypeOK, UnderWay
  <2>3. CASE at # Last
    <3>1. at' = at + 1 /\ pc' = pc
      BY <1>6, <2>3 DEF ProgramHalfWord
    <3>2. at \in Nat /\ at' \in Place /\ at' # 0
      BY <1>0, <2>3, <3>1, WordAssumption DEF TypeOK, Place, Last
    <3>3. TypeOK'
      BY <1>0, <2>0, <2>1, <3>1, <3>2 DEF TypeOK
    <3>4. adr \in Slot /\ Used(adr)'
      BY <2>0, <2>1 DEF IInv, UnderWay
    <3>5. Used(IF at = 0 THEN adr - 1 ELSE adr)'
      BY <3>2, <3>4 DEF Used
    <3>6. ASSUME NEW k \in Place
          PROVE  page'[adr][k] = IF k < at' THEN Word(k) ELSE Erased
      <4>1. k \in Int
        BY DEF Place
      <4>2. CASE k = at
        BY <2>0, <3>1, <3>2, <4>2, PutWhere
      <4>3. CASE k # at
        <5>1. page'[adr][k] = page[adr][k]
          BY <2>0, <4>3, <3>4, PutWhere
        <5>2. page[adr][k] = IF k < at THEN Word(k) ELSE Erased
          BY <2>0 DEF IInv, UnderWay
        <5>3. k < at <=> k < at'
          BY <3>1, <3>2, <4>1, <4>3
        <5> QED
          BY <5>1, <5>2, <5>3
      <4> QED
        BY <4>2, <4>3
    <3>7. \A k \in Place : Word(k)' = Word(k)
      BY <2>0 DEF Word
    <3>8. UnderWay'
      BY <2>0, <3>1, <3>4, <3>5, <3>6, <3>7 DEF UnderWay
    <3> QED
      BY <2>1, <3>3, <3>8 DEF IInv
  <2> QED
    BY <2>2, <2>3
<1>7. CASE Answer
  <2>1. TypeOK'
    BY <1>0, <1>7 DEF Answer, TypeOK
  <2> QED
    BY <1>7, <2>1, PageKept DEF Answer, IInv, UnderWay
<1>8. CASE PowerCut
  <2>0. pc' = "off" /\ UNCHANGED <<cfg, adr, at>>
    BY <1>8 DEF PowerCut
  <2>1. CASE UNCHANGED page
    <3>1. TypeOK' /\ UnderWay'
      BY <1>0, <2>0, <2>1 DEF TypeOK, UnderWay
    <3> QED
      BY <2>1, <3>1, PageKept DEF IInv
  <2>2. CASE pc = "program" /\ \E h \in {Word(at), Spoiled} : Put(h)
    <3>1. /\ page' \in [Slot -> [Place -> Half]]
          /\ Frontier' /\ ClearIsErased' /\ EndedIsWhole' /\ HasLast'
      BY <2>2, PutAny
    <3>2. TypeOK' /\ UnderWay'
      BY <1>0, <2>0, <3>1 DEF TypeOK, UnderWay
    <3> QED
      BY <3>1, <3>2 DEF IInv
  <2> QED
    BY <1>8, <2>1, <2>2 DEF PowerCut
<1> QED
  BY <1>1, <1>2, <1>3, <1>4, <1>5, <1>6, <1>7, <1>8 DEF Next

LEMMA IInvHolds == Spec => []IInv
BY InitIInv, StepIInv, PTL DEF Spec

\* Every reachable state is type correct: what is searched, programmed and read
\* stays in the page.
THEOREM TypeCorrect == Spec => []TypeOK
<1>1. IInv => TypeOK
  BY DEF IInv
<1> QED
  BY <1>1, IInvHolds, PTL

\* Wherever the power goes, also in the middle of a half-word, what ReadIniBlk
\* returns is one configuration that was given to WriteIniBlk.
THEOREM RecordsAreWhole == Spec => []WholeRecord
<1>1. IInv => WholeRecord
  <2> SUFFICES ASSUME IInv, LastAdrIni # 0 PROVE \E c \in Config : Whole(LastAdrIni, c)
    BY DEF WholeRecord
  <2>1. Records # {}
    BY FoundNone
  <2>2. PICK s \in Records : \A t \in Records : t <= s
    BY <2>1 DEF IInv, HasLast
  <2>3. LastAdrIni = s /\ s \in Slot /\ Ended(s)
    BY <2>2, LastIs DEF Records
  <2> QED
    BY <2>3 DEF IInv, EndedIsWhole
<1> QED
  BY <1>1, IInvHolds, PTL

\* WriteIniBlk never programs a half-word that is not erased, whatever the records
\* look like that power cuts have left.
THEOREM OnlyErasedWritten == Spec => OnlyErased
<1>1. IInv /\ [Next]_vars => (pc = "program" /\ page' # page => page[adr][at] = Erased)
  <2> SUFFICES ASSUME IInv, pc = "program" PROVE page[adr][at] = Erased
    OBVIOUS
  <2>1. at \in Place /\ ~(at < at)
    BY DEF IInv, TypeOK, Place
  <2> QED
    BY <2>1 DEF IInv, UnderWay
<1>2. IInv /\ [Next]_vars => [pc = "program" /\ page' # page => page[adr][at] = Erased]_vars
  BY <1>1
<1> QED
  BY <1>2, IInvHolds, PTL DEF Spec, OnlyErased

-----------------------------------------------------------------------------
\* With no start marker spoiled, the record in hand is found with its end marker.
LEMMA EndCommits ==
  ASSUME IInv, MarkersWhole, ProgramHalfWord, at = Last
  PROVE  Found' = cfg
<1>1. pc = "program" /\ Put(Word(at)) /\ adr \in Slot /\ Used(adr)
  BY WordAssumption DEF ProgramHalfWord, IInv, UnderWay, Last
<1>2. \A t \in 1 .. adr : t \in Slot /\ ~(t > adr)
  BY <1>1, SlotsAssumption DEF Slot
<1>3. \A t \in 1 .. adr : Started(t)
  BY <1>1, <1>2 DEF Used, MarkersWhole
<1> QED
  BY <1>1, <1>3, PutAny

\* The page implements SettingsStore, but for an answer with a spoiled start marker in
\* the page: a restart finds the last settings that were saved, or none; those that
\* were answered are there; a power cut costs at most the old ones, and only in the
\* round in which the page is erased.
THEOREM PageImplementsStore == Spec => StoreSpec
<1>1. Init => Store!Init
  <2> SUFFICES ASSUME Init PROVE Store!Init
    OBVIOUS
  <2>1. \A s \in Slot : page[s][Last] = Erased
    BY WordAssumption DEF Init, Place, Last
  <2>2. Found = None
    BY <2>1, FoundNone DEF Records, Ended, Erased
  <2> QED
    BY <2>2 DEF Init, Store!Init, Phase
<1>2. IInv /\ [Next]_vars =>
        [(pc' = "answer" => MarkersWhole) => [Store!Next]_(Store!vars)]_vars
  <2> SUFFICES ASSUME IInv, [Next]_vars, pc' = "answer" => MarkersWhole
               PROVE  Store!Next \/ UNCHANGED Store!vars
    OBVIOUS
  <2>1. CASE UNCHANGED vars
    BY <2>1, PageKept DEF vars, Store!vars, Phase
  <2>2. CASE Boot
    <3>1. Found' = Found
      BY <2>2, PageKept DEF Boot
    <3>2. Store!Restart
      BY <2>2, <3>1 DEF Boot, Store!Restart, Phase
    <3> QED
      BY <3>2 DEF Store!Next
  <2>3. CASE CmdCfg
    <3>1. Found' = Found
      BY <2>3, PageKept DEF CmdCfg
    <3>2. Store!Configure
      BY <2>3, <3>1 DEF CmdCfg, Store!Configure, Phase
    <3> QED
      BY <3>2 DEF Store!Next
  <2>4. CASE CmdScf
    <3>1. Found' = Found
      BY <2>4, PageKept DEF CmdScf
    <3>2. Phase = "idle" /\ Phase' = "saving"
      BY <2>4 DEF CmdScf, Phase
    <3>3. Store!Begin
      BY <2>4, <3>1, <3>2 DEF CmdScf, Store!Begin
    <3> QED
      BY <3>3 DEF Store!Next
  <2>5. CASE ErasePage
    <3>1. \A s \in Slot : page'[s][Last] = Erased
      BY <2>5, WordAssumption DEF ErasePage, Place, Last
    <3>2. Found' = None
      BY <3>1, FoundNoneNext DEF Records, Ended, Erased
    <3>3. Store!Lose
      BY <2>5, <3>2 DEF ErasePage, Store!Lose, Phase
    <3> QED
      BY <3>3 DEF Store!Next
  <2>6. CASE ProgramHalfWord
    <3>0. pc = "program" /\ Put(Word(at)) /\ cfg' = cfg
      BY <2>6 DEF ProgramHalfWord
    <3>1. Phase = "saving"
      BY <3>0 DEF Phase
    <3>2. CASE at = Last
      <4>0. MarkersWhole
        BY <2>6, <3>2 DEF ProgramHalfWord
      <4>1. Found' = cfg
        BY <2>6, <3>2, <4>0, EndCommits
      <4>2. Phase' = "stored"
        BY <2>6, <3>2 DEF ProgramHalfWord, Phase
      <4>3. Store!Commit
        BY <3>0, <3>1, <4>1, <4>2 DEF Store!Commit
      <4> QED
        BY <4>3 DEF Store!Next
    <3>3. CASE at # Last
      <4>1. Phase' = "saving"
        BY <2>6, <3>0, <3>3 DEF ProgramHalfWord, Phase
      <4>2. Found' = Found \/ Found' = cfg
        BY <3>0, PutAny
      <4>3. UNCHANGED Store!vars \/ Store!Commit
        BY <3>0, <3>1, <4>1, <4>2 DEF Store!vars, Store!Commit
      <4> QED
        BY <4>3 DEF Store!Next
    <3> QED
      BY <3>2, <3>3
  <2>7. CASE Answer
    <3>1. Found' = Found
      BY <2>7, PageKept DEF Answer
    <3>2. Store!Answer
      BY <2>7, <3>1 DEF Answer, Store!Answer, Phase
    <3> QED
      BY <3>2 DEF Store!Next
  <2>8. CASE PowerCut
    <3>1. cfg' = cfg /\ pc # "off" /\ pc' = "off"
      BY <2>8 DEF PowerCut
    <3>2. Found' = Found \/ (pc = "program" /\ Found' = cfg)
      BY <2>8, PageKept, PutAny DEF PowerCut
    <3>3. pc \in {"idle", "erase", "program", "answer", "off"}
      BY DEF IInv, TypeOK
    <3>4. Phase # "off" /\ Phase' = "off"
      BY <3>1, <3>3 DEF Phase
    <3>5. pc = "program" => Phase = "saving"
      BY DEF Phase
    <3>6. Store!Cut
      BY <3>1, <3>2, <3>4, <3>5 DEF Store!Cut
    <3> QED
      BY <3>6 DEF Store!Next
  <2> QED
    BY <2>1, <2>2, <2>3, <2>4, <2>5, <2>6, <2>7, <2>8 DEF Next
<1> QED
  BY <1>1, <1>2, IInvHolds, PTL DEF Spec, StoreSpec

-----------------------------------------------------------------------------
(***************************************************************************)
(* EepromStore.  Its constants are those of IniStore, and page, cfg, pc    *)
(* and at its variables of those names; scf is the one it has besides.     *)
(***************************************************************************)
VARIABLE scf
Eeprom == INSTANCE EepromStore

\* What is known while the settings are being saved: the words before at are
\* written, and the answer has not been made out yet.
EepromInv ==
  /\ Eeprom!TypeOK
  /\ pc = "write" => \A k \in Eeprom!Word : k < at => page[k] = cfg
  /\ pc \in {"read", "erase", "write"} => scf = FALSE

LEMMA OneWord == 1 \in Eeprom!Word /\ WordCnt \in Eeprom!Word
BY WordAssumption DEF Eeprom!Word

\* What the page holds is found.
LEMMA HeldIsFound ==
  ASSUME NEW c \in Config, Eeprom!Holds(c)
  PROVE  Eeprom!Found = c
<1>1. \A d \in Config : Eeprom!Holds(d) => d = c
  BY OneWord DEF Eeprom!Holds
<1> QED
  BY <1>1 DEF Eeprom!Found

LEMMA EepromInit == Eeprom!Init => Eeprom!Store!Init
<1> SUFFICES ASSUME Eeprom!Init PROVE Eeprom!Store!Init
  OBVIOUS
<1>1. \A c \in Config : ~Eeprom!Holds(c)
  BY OneWord, ConfigAssumption DEF Eeprom!Init, Eeprom!Blank, Eeprom!Holds
<1>2. Eeprom!Found = None
  BY <1>1 DEF Eeprom!Found
<1> QED
  BY <1>2 DEF Eeprom!Init, Eeprom!Store!Init, Eeprom!Phase


LEMMA EepromInvInit == Eeprom!Init => EepromInv
BY OneWord, WordAssumption, ConfigAssumption
   DEF EepromInv, Eeprom!Init, Eeprom!TypeOK, Eeprom!Blank

LEMMA EepromInvStep == EepromInv /\ [Eeprom!Next]_(Eeprom!vars) => EepromInv'
<1> SUFFICES ASSUME EepromInv, [Eeprom!Next]_(Eeprom!vars) PROVE EepromInv'
  OBVIOUS
<1> USE DEF EepromInv, Eeprom!TypeOK
<1>1. ASSUME page' = page, cfg' = cfg, at' = at, scf' \in BOOLEAN,
             pc' \in {"idle", "read", "erase", "write", "answer", "off"},
             pc' = "write" => pc = "write",
             pc' \in {"read", "erase", "write"} => scf' = FALSE
      PROVE  EepromInv'
  BY <1>1
<1>2. CASE Eeprom!I2CDevReadSetings
  <2>1. Eeprom!Found # None => Eeprom!Found \in Config
    BY DEF Eeprom!Found
  <2> QED
    BY <1>2, <2>1, ConfigAssumption DEF Eeprom!I2CDevReadSetings
<1>3. CASE Eeprom!CmdCfg
  BY <1>3 DEF Eeprom!CmdCfg
<1>4. CASE Eeprom!CmdScf \/ Eeprom!Compare \/ Eeprom!ReadError \/ Eeprom!WriteError
           \/ Eeprom!Answer \/ UNCHANGED Eeprom!vars
  BY <1>1, <1>4 DEF Eeprom!CmdScf, Eeprom!Compare, Eeprom!ReadError, Eeprom!WriteError,
     Eeprom!Answer, Eeprom!vars
<1>5. CASE Eeprom!Erase
  BY <1>5, OneWord DEF Eeprom!Erase, Eeprom!Blank, Eeprom!Word
<1>6. CASE Eeprom!EraseError
  BY <1>6 DEF Eeprom!EraseError, Eeprom!Blank
<1>7. CASE Eeprom!Write
  <2>1. page' \in [Eeprom!Word -> Config \cup {None}]
    BY <1>7 DEF Eeprom!Write
  <2>2. CASE at = WordCnt
    BY <1>7, <2>1, <2>2 DEF Eeprom!Write
  <2>3. CASE at # WordCnt
    <3>1. at' = at + 1 /\ at' \in Eeprom!Word /\ cfg' = cfg
      BY <1>7, <2>3, WordAssumption DEF Eeprom!Write, Eeprom!Word
    <3>2. \A k \in Eeprom!Word : k < at' => page'[k] = cfg
      BY <1>7, <2>3, <3>1 DEF Eeprom!Write, Eeprom!Word
    <3> QED
      BY <1>7, <2>1, <2>3, <3>1, <3>2 DEF Eeprom!Write
  <2> QED
    BY <2>2, <2>3
<1>8. CASE Eeprom!PowerCut
  BY <1>8 DEF Eeprom!PowerCut
<1> QED
  BY <1>2, <1>3, <1>4, <1>5, <1>6, <1>7, <1>8 DEF Eeprom!Next

LEMMA EepromInvHolds == Eeprom!Spec => []EepromInv
BY EepromInvInit, EepromInvStep, PTL DEF Eeprom!Spec

\* The variables of EepromStore keep their types: the address that is written next
\* does not leave the page.
THEOREM EepromTypeCorrect == Eeprom!Spec => []Eeprom!TypeOK
<1>1. EepromInv => Eeprom!TypeOK
  BY DEF EepromInv
<1> QED
  BY <1>1, EepromInvHolds, PTL

\* The same page gives the same settings.
LEMMA EepromKept == page' = page => Eeprom!Found' = Eeprom!Found
BY DEF Eeprom!Found, Eeprom!Holds

\* A page of which a word is erased or spoiled gives none.
LEMMA BrokenIsNone ==
  ASSUME \E k \in Eeprom!Word : page'[k] = None
  PROVE  Eeprom!Found' = None
BY ConfigAssumption DEF Eeprom!Found, Eeprom!Holds

\* A page that lost some of its words gives what it gave or nothing.
LEMMA SpoiledLoses ==
  ASSUME \A k \in Eeprom!Word : page'[k] \in {page[k], None}
  PROVE  Eeprom!Found' \in {Eeprom!Found, None}
<1>1. CASE \E k \in Eeprom!Word : page'[k] = None
  BY <1>1, BrokenIsNone
<1>2. CASE \A k \in Eeprom!Word : page'[k] = page[k]
  BY <1>2 DEF Eeprom!Found, Eeprom!Holds
<1> QED
  BY <1>1, <1>2

\* A page in which a word is written holds that configuration or none; with the last
\* word it holds it.
LEMMA WrittenWord ==
  ASSUME EepromInv, pc = "write", page' = [page EXCEPT ![at] = cfg]
  PROVE  /\ Eeprom!Found' \in {None, cfg}
         /\ at = WordCnt => Eeprom!Found' = cfg
<1> USE DEF EepromInv, Eeprom!TypeOK
<1>1. at \in Eeprom!Word /\ page'[at] = cfg /\ cfg \in Config
  OBVIOUS
<1>2. ASSUME NEW c \in Config, \A k \in Eeprom!Word : page'[k] = c PROVE c = cfg
  BY <1>1, <1>2
<1>3. Eeprom!Found' \in {None, cfg}
  BY <1>2 DEF Eeprom!Found, Eeprom!Holds
<1>4. ASSUME at = WordCnt PROVE Eeprom!Found' = cfg
  <2>1. \A k \in Eeprom!Word : page'[k] = cfg
    BY <1>1, <1>4, WordAssumption DEF Eeprom!Word
  <2> QED
    BY <1>1, <1>2, <2>1 DEF Eeprom!Found, Eeprom!Holds
<1> QED
  BY <1>3, <1>4

(***************************************************************************)
(* The data flash of the CH583 implements SettingsStore: whichever call of *)
(* FLASH_EEPROM_CMD fails and whenever the power goes, I2CDevReadSetings   *)
(* finds the settings that were saved last or none, and CMD_DEV_SCF        *)
(* answers that they are saved only if they are.                           *)
(***************************************************************************)
THEOREM EepromImplementsStore == Eeprom!Spec => Eeprom!StoreSpec
<1>1. EepromInv /\ [Eeprom!Next]_(Eeprom!vars) => [Eeprom!Store!Next]_(Eeprom!Store!vars)
  <2> SUFFICES ASSUME EepromInv, [Eeprom!Next]_(Eeprom!vars)
               PROVE  Eeprom!Store!Next \/ UNCHANGED Eeprom!Store!vars
    OBVIOUS
  <2> DEFINE found == Eeprom!Found
             phase == Eeprom!Phase
  <2>1. CASE UNCHANGED Eeprom!vars
    BY <2>1, EepromKept DEF Eeprom!vars, Eeprom!Store!vars, Eeprom!Phase
  <2>2. CASE Eeprom!I2CDevReadSetings
    <3>1. found' = found
      BY <2>2, EepromKept DEF Eeprom!I2CDevReadSetings
    <3>2. Eeprom!Store!Restart
      BY <2>2, <3>1 DEF Eeprom!I2CDevReadSetings, Eeprom!Store!Restart, Eeprom!Phase
    <3> QED
      BY <3>2 DEF Eeprom!Store!Next
  <2>3. CASE Eeprom!CmdCfg
    <3>1. found' = found
      BY <2>3, EepromKept DEF Eeprom!CmdCfg
    <3>2. Eeprom!Store!Configure
      BY <2>3, <3>1 DEF Eeprom!CmdCfg, Eeprom!Store!Configure, Eeprom!Phase
    <3> QED
      BY <3>2 DEF Eeprom!Store!Next
  <2>4. CASE Eeprom!CmdScf
    <3>1. found' = found
      BY <2>4, EepromKept DEF Eeprom!CmdScf
    <3>2. phase = "idle" /\ phase' = "saving"
      BY <2>4 DEF Eeprom!CmdScf, Eeprom!Phase
    <3>3. Eeprom!Store!Begin
      BY <2>4, <3>1, <3>2 DEF Eeprom!CmdScf, Eeprom!Store!Begin
    <3> QED
      BY <3>3 DEF Eeprom!Store!Next
  <2>5. CASE Eeprom!Compare
    <3>1. found' = found /\ cfg' = cfg /\ phase = "saving"
      BY <2>5, EepromKept DEF Eeprom!Compare, Eeprom!Phase
    <3>2. CASE Eeprom!Holds(cfg)
      <4>1. phase' = "stored"
        BY <2>5, <3>2 DEF Eeprom!Compare, Eeprom!Phase
      <4>2. found = cfg
        BY <3>2, HeldIsFound DEF EepromInv, Eeprom!TypeOK
      <4>3. Eeprom!Store!Done
        BY <3>1, <4>1, <4>2 DEF Eeprom!Store!Done
      <4> QED
        BY <4>3 DEF Eeprom!Store!Next
    <3>3. CASE ~Eeprom!Holds(cfg)
      <4>1. phase' = "saving"
        BY <2>5, <3>3 DEF Eeprom!Compare, Eeprom!Phase
      <4> QED
        BY <3>1, <4>1 DEF Eeprom!Store!vars
    <3> QED
      BY <3>2, <3>3
  <2>6. CASE Eeprom!ReadError
    <3>1. found' = found
      BY <2>6, EepromKept DEF Eeprom!ReadError
    <3>2. phase = "saving" /\ phase' = "saving"
      BY <2>6 DEF Eeprom!ReadError, Eeprom!Phase
    <3> QED
      BY <2>6, <3>1, <3>2 DEF Eeprom!ReadError, Eeprom!Store!vars
  <2>7. CASE Eeprom!Erase
    <3>1. found' = None
      BY <2>7, OneWord, BrokenIsNone DEF Eeprom!Erase, Eeprom!Blank
    <3>2. phase = "saving" /\ phase' = "saving"
      BY <2>7 DEF Eeprom!Erase, Eeprom!Phase
    <3>3. Eeprom!Store!Lose
      BY <2>7, <3>1, <3>2 DEF Eeprom!Erase, Eeprom!Store!Lose
    <3> QED
      BY <3>3 DEF Eeprom!Store!Next
  <2>8. CASE Eeprom!EraseError
    <3>1. phase = "saving" /\ phase' = "failed" /\ cfg' = cfg
      BY <2>8 DEF Eeprom!EraseError, Eeprom!Phase, EepromInv
    <3>2. CASE page' = page
      <4>1. Eeprom!Store!Done
        BY <3>1, <3>2, EepromKept DEF Eeprom!Store!Done
      <4> QED
        BY <4>1 DEF Eeprom!Store!Next
    <3>3. CASE page' = Eeprom!Blank
      <4>1. found' = None
        BY <3>3, OneWord, BrokenIsNone DEF Eeprom!Blank
      <4>2. Eeprom!Store!Lose
        BY <3>1, <4>1 DEF Eeprom!Store!Lose
      <4> QED
        BY <4>2 DEF Eeprom!Store!Next
    <3> QED
      BY <2>8, <3>2, <3>3 DEF Eeprom!EraseError
  <2>9. CASE Eeprom!Write
    <3>1. /\ pc = "write" /\ page' = [page EXCEPT ![at] = cfg] /\ cfg' = cfg
          /\ phase = "saving"
      BY <2>9 DEF Eeprom!Write, Eeprom!Phase
    <3>2. CASE at = WordCnt
      <4>1. phase' = "stored"
        BY <2>9, <3>2 DEF Eeprom!Write, Eeprom!Phase
      <4>2. found' = cfg
        BY <3>1, <3>2, WrittenWord
      <4>3. Eeprom!Store!Commit
        BY <3>1, <4>1, <4>2 DEF Eeprom!Store!Commit
      <4> QED
        BY <4>3 DEF Eeprom!Store!Next
    <3>3. CASE at # WordCnt
      <4>1. phase' = "saving"
        BY <2>9, <3>1, <3>3 DEF Eeprom!Write, Eeprom!Phase
      <4>2. found' \in {None, cfg}
        BY <3>1, WrittenWord
      <4>3. Eeprom!Store!Commit \/ Eeprom!Store!Lose
        BY <3>1, <4>1, <4>2 DEF Eeprom!Store!Commit, Eeprom!Store!Lose
      <4> QED
        BY <4>3 DEF Eeprom!Store!Next
    <3> QED
      BY <3>2, <3>3
  <2>10. CASE Eeprom!WriteError
    <3>1. found' = found
      BY <2>10, EepromKept DEF Eeprom!WriteError
    <3>2. phase = "saving" /\ phase' = "failed"
      BY <2>10 DEF Eeprom!WriteError, Eeprom!Phase, EepromInv
    <3>3. Eeprom!Store!Done
      BY <2>10, <3>1, <3>2 DEF Eeprom!WriteError, Eeprom!Store!Done
    <3> QED
      BY <3>3 DEF Eeprom!Store!Next
  <2>11. CASE Eeprom!Answer
    <3>1. found' = found
      BY <2>11, EepromKept DEF Eeprom!Answer
    <3>2. phase \in {"stored", "failed"} /\ phase' = "idle"
      BY <2>11 DEF Eeprom!Answer, Eeprom!Phase
    <3>3. Eeprom!Store!Answer
      BY <2>11, <3>1, <3>2 DEF Eeprom!Answer, Eeprom!Store!Answer
    <3> QED
      BY <3>3 DEF Eeprom!Store!Next
  <2>12. CASE Eeprom!PowerCut
    <3>1. cfg' = cfg /\ pc # "off" /\ pc' = "off"
      BY <2>12 DEF Eeprom!PowerCut
    <3>2. phase # "off" /\ phase' = "off"
      BY <3>1 DEF EepromInv, Eeprom!TypeOK, Eeprom!Phase
    <3>3. found' = found \/ (pc \in {"erase", "write"} /\ found' \in {None, cfg})
      BY <2>12, EepromKept, SpoiledLoses, WrittenWord DEF Eeprom!PowerCut
    <3>4. pc \in {"erase", "write"} => phase = "saving"
      BY DEF Eeprom!Phase
    <3>5. Eeprom!Store!Cut
      BY <3>1, <3>2, <3>3, <3>4 DEF Eeprom!Store!Cut
    <3> QED
      BY <3>5 DEF Eeprom!Store!Next
  <2> QED
    BY <2>1, <2>2, <2>3, <2>4, <2>5, <2>6, <2>7, <2>8, <2>9, <2>10, <2>11, <2>12
       DEF Eeprom!Next
<1> QED
  BY <1>1, EepromInit, EepromInvHolds, PTL DEF Eeprom!Spec, Eeprom!StoreSpec, Eeprom!Store!Spec
=============================================================================
