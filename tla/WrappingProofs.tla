---------------------------- MODULE WrappingProofs ----------------------------
(***************************************************************************)
(* The two components whose words wrap round, and have nothing else in     *)
(* common.  The timer is correct for every word size: the subtraction      *)
(* undoes any number of wraps of the counter, as long as less than one     *)
(* round has passed, and never exaggerates.  The ring implements the       *)
(* bounded FIFO, for every size of at least two and every set of bytes.    *)
(***************************************************************************)
EXTENDS Timer, ByteQueue, SequenceTheorems, TLAPS

(* Remainders of a sum that exceeds the modulus at most once. *)
LEMMA WrappedSum ==
    ASSUME NEW m \in Nat \ {0}, NEW n \in Nat, n < 2 * m
    PROVE  n % m = IF n < m THEN n ELSE n - m
<1>1. CASE n < m
    BY <1>1, SMT
<1>2. CASE m <= n
    BY <1>2, SMT
<1> QED BY <1>1, <1>2

-----------------------------------------------------------------------------
(* The timer. *)

(* The subtraction, without the remainder. *)
LEMMA Difference ==
    ASSUME TimerTypeOK
    PROVE  Elapsed = IF timer.start_ms <= now_ms
                     THEN now_ms - timer.start_ms
                     ELSE now_ms + Modulus - timer.start_ms
<1> USE TimerAssumption
<1> DEFINE sum == now_ms + Modulus - timer.start_ms
<1>1. now_ms \in 0 .. Modulus - 1 /\ timer.start_ms \in 0 .. Modulus - 1
  BY DEF TimerTypeOK, Word
<1>2. CASE timer.start_ms <= now_ms
  <2>1. sum \in Nat /\ Modulus <= sum /\ sum < 2 * Modulus
    BY <1>1, <1>2
  <2>2. sum % Modulus = sum - Modulus
    BY <2>1, WrappedSum
  <2> QED BY <1>1, <1>2, <2>2 DEF Elapsed
<1>3. CASE ~(timer.start_ms <= now_ms)
  <2>1. sum \in Nat /\ sum < Modulus
    BY <1>1, <1>3
  <2>2. sum % Modulus = sum
    BY <2>1, WrappedSum
  <2> QED BY <1>1, <1>3, <2>2 DEF Elapsed
<1> QED BY <1>2, <1>3

(* What the subtraction has to do with the time that passed. *)
ElapsedIsTrue ==
    timer.running =>
        /\ Elapsed <= elapsed
        /\ elapsed < Modulus => Elapsed = elapsed

TimerInv == TimerTypeOK /\ ElapsedIsTrue

LEMMA TimerInitInv == ASSUME TimerInit PROVE TimerInv
<1> USE TimerAssumption
<1>1. TimerTypeOK
  BY DEF TimerInit, TimerTypeOK, StoppedTimer, Word
<1>2. ElapsedIsTrue
  BY DEF TimerInit, StoppedTimer, ElapsedIsTrue
<1> QED BY <1>1, <1>2 DEF TimerInv

(* One tick later the difference is one more, or starts again at zero. *)
LEMMA DifferenceAfterTick ==
    ASSUME TimerTypeOK, TimerTypeOK', Tick
    PROVE  Elapsed' = IF Elapsed + 1 < Modulus THEN Elapsed + 1 ELSE 0
<1> USE TimerAssumption
<1>1. /\ now_ms \in 0 .. Modulus - 1
      /\ timer.start_ms \in 0 .. Modulus - 1
      /\ timer' = timer
  BY DEF TimerTypeOK, Word, Tick
<1>2. now_ms' = IF now_ms + 1 < Modulus THEN now_ms + 1 ELSE 0
  <2>1. CASE now_ms + 1 < Modulus
    <3>1. now_ms + 1 \in Nat
      BY <1>1
    <3>2. (now_ms + 1) % Modulus = now_ms + 1
      BY <2>1, <3>1, WrappedSum
    <3> QED BY <2>1, <3>2 DEF Tick
  <2>2. CASE ~(now_ms + 1 < Modulus)
    <3>1. now_ms + 1 = Modulus
      BY <1>1, <2>2
    <3>2. Modulus % Modulus = 0
      BY WrappedSum
    <3> QED BY <2>2, <3>1, <3>2 DEF Tick
  <2> QED BY <2>1, <2>2
<1>3. Elapsed = IF timer.start_ms <= now_ms
                THEN now_ms - timer.start_ms
                ELSE now_ms + Modulus - timer.start_ms
  BY Difference
<1>4. Elapsed' = IF timer'.start_ms <= now_ms'
                 THEN now_ms' - timer'.start_ms
                 ELSE now_ms' + Modulus - timer'.start_ms
  <2>1. TimerTypeOK' => (Elapsed = IF timer.start_ms <= now_ms
                              THEN now_ms - timer.start_ms
                              ELSE now_ms + Modulus - timer.start_ms)'
    BY Difference, PTL
  <2> QED BY <2>1
<1> QED BY <1>1, <1>2, <1>3, <1>4

LEMMA TimerStepInv == ASSUME TimerInv, [TimerNext]_timerVars PROVE TimerInv'
<1> USE TimerAssumption
<1>1. TimerTypeOK /\ ElapsedIsTrue
  BY DEF TimerInv
<1>2. TimerTypeOK'
  <2>1. \A n \in Nat : n % Modulus \in Word
    BY DEF Word
  <2>2. ASSUME NEW d \in Durations, Start(d) PROVE TimerTypeOK'
    BY <1>1, <2>2 DEF TimerTypeOK, Start, Word
  <2>3. CASE Stop
    BY <1>1, <2>3 DEF TimerTypeOK, Stop, StoppedTimer, Word
  <2>4. CASE Tick
    <3>1. now_ms + 1 \in Nat
      BY <1>1 DEF TimerTypeOK, Word
    <3> QED BY <1>1, <2>1, <2>4, <3>1 DEF TimerTypeOK, Tick
  <2>5. CASE UNCHANGED timerVars
    BY <1>1, <2>5 DEF TimerTypeOK, timerVars
  <2> QED BY <2>2, <2>3, <2>4, <2>5 DEF TimerNext
<1>3. ElapsedIsTrue'
  <2>1. ASSUME NEW d \in Durations, Start(d) PROVE ElapsedIsTrue'
    <3>1. Modulus % Modulus = 0
      BY WrappedSum
    <3>2. Elapsed' = 0
      BY <1>1, <2>1, <3>1 DEF Start, Elapsed, TimerTypeOK, Word
    <3> QED BY <2>1, <3>2 DEF Start, ElapsedIsTrue
  <2>2. CASE Stop
    BY <2>2 DEF Stop, StoppedTimer, ElapsedIsTrue
  <2>3. CASE Tick
    <3>1. Elapsed' = IF Elapsed + 1 < Modulus THEN Elapsed + 1 ELSE 0
      BY <1>1, <1>2, <2>3, DifferenceAfterTick
    <3>2. Elapsed \in Nat /\ elapsed \in Nat
      BY <1>1, Difference DEF TimerTypeOK, Word
    <3> QED BY <1>1, <2>3, <3>1, <3>2 DEF Tick, ElapsedIsTrue
  <2>4. CASE UNCHANGED timerVars
    BY <1>1, <2>4 DEF ElapsedIsTrue, Elapsed, timerVars
  <2> QED BY <2>1, <2>2, <2>3, <2>4 DEF TimerNext
<1> QED BY <1>2, <1>3 DEF TimerInv

LEMMA TimerInvariant == TimerSpec => []TimerInv
BY TimerInitInv, TimerStepInv, PTL DEF TimerSpec

(* The state has its type, for every word size and set of timeouts. *)
THEOREM TimerTypeCorrect == TimerSpec => []TimerTypeOK
<1>1. TimerInv => TimerTypeOK
  BY DEF TimerInv
<1> QED BY <1>1, TimerInvariant, PTL

(* No timer expires early, however often the counter wraps. *)
THEOREM NoTimerIsEarly == TimerSpec => []NeverEarly
<1>1. ASSUME TimerInv PROVE NeverEarly
  <2>1. Elapsed \in Nat /\ elapsed \in Nat /\ timer.duration_ms \in Nat
    BY <1>1, TimerAssumption, Difference DEF TimerInv, TimerTypeOK, Word
  <2> QED BY <1>1, <2>1 DEF TimerInv, ElapsedIsTrue, NeverEarly, Expired
<1> QED BY <1>1, TimerInvariant, PTL

(* Within one round of the counter a timer expires exactly on time. *)
THEOREM TimersAreOnTime == TimerSpec => []ExpiresOnTime
<1>1. TimerInv => ExpiresOnTime
  BY DEF TimerInv, ElapsedIsTrue, ExpiresOnTime, Expired
<1> QED BY <1>1, TimerInvariant, PTL

-----------------------------------------------------------------------------
(* The byte queue. *)

LEMMA RemainderRange ==
    ASSUME NEW m \in Nat \ {0}, NEW n \in Nat
    PROVE  n % m \in 0 .. m - 1
BY SMT

(* The distance from h to t on the ring, and the o-th slot after h. *)
Distance(h, t) == IF h <= t THEN t - h ELSE t + Size - h

After(h, o) == IF h + o < Size THEN h + o ELSE h + o - Size

LEMMA DistanceIsRemainder ==
    ASSUME NEW h \in Indices, NEW t \in Indices
    PROVE  (t + Size - h) % Size = Distance(h, t)
<1> DEFINE sum == t + Size - h
<1>1. sum \in Nat /\ sum < 2 * Size /\ Size \in Nat \ {0}
  BY SizeAssumption DEF Indices
<1>2. sum % Size = IF sum < Size THEN sum ELSE sum - Size
  <2> HIDE DEF sum
  <2> QED BY <1>1, WrappedSum
<1> QED BY <1>2, SizeAssumption DEF Indices, Distance

LEMMA AfterIsRemainder ==
    ASSUME NEW h \in Indices, NEW o \in Nat, o <= Size
    PROVE  (h + o) % Size = After(h, o)
<1> DEFINE sum == h + o
<1>1. sum \in Nat /\ sum < 2 * Size /\ Size \in Nat \ {0}
  BY SizeAssumption DEF Indices
<1>2. sum % Size = IF sum < Size THEN sum ELSE sum - Size
  <2> HIDE DEF sum
  <2> QED BY <1>1, WrappedSum
<1> QED BY <1>2, SizeAssumption DEF Indices, After

(* The contents of a ring, as a sequence. *)
Contents(h, t, b) == [i \in 1 .. Distance(h, t) |-> b[After(h, i - 1)]]

LEMMA ContentsType ==
    ASSUME NEW h \in Indices, NEW t \in Indices, NEW b \in [Indices -> Bytes]
    PROVE  /\ Distance(h, t) \in Indices
           /\ Contents(h, t, b) \in Seq(Bytes)
           /\ Len(Contents(h, t, b)) = Distance(h, t)
           /\ \A i \in 1 .. Distance(h, t) :
                  /\ After(h, i - 1) \in Indices
                  /\ Contents(h, t, b)[i] = b[After(h, i - 1)]
<1>1. Distance(h, t) \in Indices
  BY SizeAssumption DEF Indices, Distance
<1>2. \A i \in 1 .. Distance(h, t) : After(h, i - 1) \in Indices
  BY <1>1, SizeAssumption DEF Indices, Distance, After
<1>3. \A i \in 1 .. Distance(h, t) : b[After(h, i - 1)] \in Bytes
  BY <1>2
<1>4. Distance(h, t) \in Nat
  BY <1>1, SizeAssumption DEF Indices
<1> QED BY <1>1, <1>2, <1>3, <1>4 DEF Contents

(* A byte written to the tail of a ring that is not full is appended. *)
Pushed(h, t, b, byte) ==
    /\ Distance(h, t) < Size - 1
    /\ Contents(h, After(t, 1), [b EXCEPT ![t] = byte])
           = Append(Contents(h, t, b), byte)

LEMMA PushAppends ==
    ASSUME NEW h \in Indices, NEW t \in Indices, NEW b \in [Indices -> Bytes],
           NEW byte \in Bytes, After(t, 1) # h
    PROVE  After(t, 1) \in Indices /\ Pushed(h, t, b, byte)
<1> DEFINE u == After(t, 1)
           c == [b EXCEPT ![t] = byte]
           d == Distance(h, t)
<1>1. u \in Indices
  BY SizeAssumption DEF Indices, After
<1>2. Distance(h, t) < Size - 1 /\ Distance(h, u) = Distance(h, t) + 1
  BY SizeAssumption DEF Indices, After, Distance
<1>3. \A o \in 0 .. Distance(h, t) - 1 : After(h, o) # t
  BY SizeAssumption DEF Indices, After, Distance
<1>4. After(h, Distance(h, t)) = t
  BY SizeAssumption DEF Indices, After, Distance
<1>5. c \in [Indices -> Bytes]
  OBVIOUS
<1>6. /\ Contents(h, t, b) \in Seq(Bytes)
      /\ Len(Contents(h, t, b)) = d
      /\ \A i \in 1 .. d : /\ After(h, i - 1) \in Indices
                           /\ Contents(h, t, b)[i] = b[After(h, i - 1)]
  BY ContentsType
<1>7. /\ Contents(h, u, c) \in Seq(Bytes)
      /\ Len(Contents(h, u, c)) = d + 1
      /\ \A i \in 1 .. d + 1 : /\ After(h, i - 1) \in Indices
                               /\ Contents(h, u, c)[i] = c[After(h, i - 1)]
  <2> HIDE DEF c, u
  <2> QED BY <1>1, <1>2, <1>5, ContentsType
<1>8. d \in Nat
  BY SizeAssumption DEF Indices, Distance
<1>9. ASSUME NEW i \in 1 .. d
      PROVE  c[After(h, i - 1)] = b[After(h, i - 1)]
  <2>1. i - 1 \in 0 .. d - 1
    BY <1>8
  <2> QED BY <2>1, <1>3, <1>6
<1>10. c[After(h, d)] = byte
  BY <1>4
<1> HIDE DEF d, c, u
<1>11. Contents(h, u, c) = Append(Contents(h, t, b), byte)
  <2> DEFINE s == Contents(h, t, b)
             r == Contents(h, u, c)
  <2>1. /\ Append(s, byte) \in Seq(Bytes)
        /\ Len(Append(s, byte)) = d + 1
        /\ \A i \in 1 .. d : Append(s, byte)[i] = s[i]
        /\ Append(s, byte)[d + 1] = byte
    BY <1>6, AppendProperties
  <2>2. \A i \in 1 .. d : r[i] = s[i]
    <3> TAKE i \in 1 .. d
    <3>1. i \in 1 .. d + 1
      BY <1>8
    <3> QED BY <3>1, <1>6, <1>7, <1>9
  <2>3. r[d + 1] = byte
    BY <1>7, <1>8, <1>10
  <2>4. \A i \in 1 .. d + 1 : r[i] = Append(s, byte)[i]
    BY <2>1, <2>2, <2>3, <1>8
  <2> HIDE DEF s, r
  <2>5. r \in Seq(Bytes) /\ Len(r) = d + 1
    BY <1>7 DEF r
  <2>6. r = Append(s, byte)
    BY <2>1, <2>4, <2>5, SeqEqual
  <2> QED BY <2>6 DEF r, s
<1> QED BY <1>1, <1>2, <1>11 DEF c, u, d, Pushed

(* Moving the head by n drops the first n bytes. *)
LEMMA AdvanceDrops ==
    ASSUME NEW h \in Indices, NEW t \in Indices, NEW b \in [Indices -> Bytes],
           NEW n \in 0 .. Distance(h, t)
    PROVE  /\ After(h, n) \in Indices
           /\ Distance(After(h, n), t) = Distance(h, t) - n
           /\ Contents(After(h, n), t, b)
                  = [i \in 1 .. Distance(h, t) - n |-> Contents(h, t, b)[i + n]]
           /\ \A o \in 0 .. Distance(h, t) - n :
                  After(After(h, n), o) = After(h, o + n)
<1> DEFINE g == After(h, n)
<1>1. g \in Indices /\ Distance(g, t) = Distance(h, t) - n
  BY SizeAssumption DEF Indices, After, Distance
<1>2. \A o \in 0 .. Distance(h, t) - n : After(g, o) = After(h, o + n)
  BY SizeAssumption DEF Indices, After, Distance
<1>3. Distance(h, t) \in Nat
  BY SizeAssumption DEF Indices, Distance
<1>4. ASSUME NEW i \in 1 .. Distance(h, t) - n
      PROVE  b[After(g, i - 1)] = Contents(h, t, b)[i + n]
  <2>1. i - 1 \in 0 .. Distance(h, t) - n /\ i + n \in 1 .. Distance(h, t)
    BY <1>3
  <2>2. After(g, i - 1) = After(h, (i + n) - 1)
    BY <1>2, <1>3, <2>1
  <2> QED BY <2>1, <2>2, ContentsType
<1>5. Contents(g, t, b)
          = [i \in 1 .. Distance(h, t) - n |-> Contents(h, t, b)[i + n]]
  BY <1>1, <1>4 DEF Contents
<1> QED BY <1>1, <1>2, <1>5

(* The ring's own terms, without remainders. *)
Unwrapped ==
    /\ DataLength = Distance(head, tail)
    /\ DataLength \in 0 .. Size - 1
    /\ Waiting = Contents(head, tail, buffer)
    /\ Waiting \in Seq(Bytes)
    /\ Len(Waiting) = DataLength
    /\ (tail + 1) % Size = After(tail, 1)
    /\ \A o \in 0 .. Size : Slot(o) = After(head, o)

LEMMA RingTerms == TypeOK => Unwrapped
<1> SUFFICES ASSUME TypeOK PROVE Unwrapped
  OBVIOUS
<1>1. DataLength = Distance(head, tail)
  BY DistanceIsRemainder DEF TypeOK, DataLength
<1>2. DataLength \in 0 .. Size - 1
  BY <1>1, ContentsType DEF TypeOK, Indices
<1>3. \A o \in 0 .. Size : Slot(o) = After(head, o)
  BY AfterIsRemainder, SizeAssumption DEF TypeOK, Slot
<1>4. Waiting = Contents(head, tail, buffer)
  <2>1. \A i \in 1 .. DataLength : i - 1 \in 0 .. Size
    BY <1>2, SizeAssumption
  <2> QED BY <1>1, <1>3, <2>1 DEF Waiting, Contents
<1>5. (tail + 1) % Size = After(tail, 1)
  BY AfterIsRemainder, SizeAssumption DEF TypeOK
<1>6. Waiting \in Seq(Bytes) /\ Len(Waiting) = DataLength
  BY <1>1, <1>4, ContentsType DEF TypeOK
<1> QED BY <1>1, <1>2, <1>3, <1>4, <1>5, <1>6 DEF Unwrapped

-----------------------------------------------------------------------------
(* Between the steps of a call the ring still holds what the call relies on: *)
(* the bytes it has yet to copy, and those it copied and has not removed.    *)
TakingInv ==
    /\ step \in {"pop", "advance"} => left \in 1 .. Len(Waiting)
    /\ step = "advance" => taken # <<>> /\ taken[Len(taken)] = Waiting[1]

CopyingInv ==
    /\ step = "peek" => left \in 1 .. Len(Waiting) - Len(taken)
    /\ step \in {"peek", "peeked"} =>
           /\ Len(taken) <= Len(Waiting)
           /\ \A i \in 1 .. Len(taken) : taken[i] = Waiting[i]

Inv == TypeOK /\ TakingInv /\ CopyingInv

(* A push appends to what waits, ... *)
LEMMA PushStep ==
    ASSUME TypeOK, NEW byte \in Bytes, PushByte(byte)
    PROVE  /\ TypeOK'
           /\ Waiting' = Append(Waiting, byte)
           /\ Len(Waiting) < Size - 1
<1>0. Unwrapped
  BY RingTerms
<1>1. After(tail, 1) # head
  BY <1>0 DEF PushByte, Unwrapped
<1>2. /\ buffer' = [buffer EXCEPT ![tail] = byte]
      /\ tail' = After(tail, 1)
      /\ head' = head
  BY <1>0 DEF PushByte, Unwrapped
<1>3. TypeOK'
  <2>1. tail' \in Indices
    BY <1>1, <1>2, PushAppends DEF TypeOK
  <2> QED BY <1>2, <2>1 DEF TypeOK, PushByte, consumer
<1>4. Unwrapped'
  BY <1>3, RingTerms, PTL
<1>5. Waiting' = Contents(head', tail', buffer')
  BY <1>4 DEF Unwrapped
<1>6. head \in Indices /\ tail \in Indices /\ buffer \in [Indices -> Bytes]
  BY DEF TypeOK
<1>7. /\ Distance(head, tail) < Size - 1
      /\ Contents(head, After(tail, 1), [buffer EXCEPT ![tail] = byte])
             = Append(Contents(head, tail, buffer), byte)
  <2>1. Pushed(head, tail, buffer, byte)
    BY <1>1, <1>6, PushAppends
  <2> QED BY <2>1 DEF Pushed
<1>8. /\ Waiting = Contents(head, tail, buffer)
      /\ Len(Waiting) = Distance(head, tail)
  BY <1>0, Zenon DEF Unwrapped
<1>9. Waiting' = Append(Waiting, byte)
  BY <1>2, <1>5, <1>7, <1>8, Zenon
<1>10. Len(Waiting) < Size - 1
  BY <1>7, <1>8, Zenon
<1> QED BY <1>3, <1>9, <1>10, Zenon

(* ... moving the head by n drops the first n of them, ... *)
LEMMA DropStep ==
    ASSUME TypeOK, TypeOK', NEW n \in 0 .. DataLength,
           head' = (head + n) % Size, UNCHANGED <<buffer, tail>>
    PROVE  /\ Len(Waiting') = Len(Waiting) - n
           /\ \A i \in 1 .. Len(Waiting) - n : Waiting'[i] = Waiting[i + n]
<1>1. Unwrapped /\ Unwrapped'
  BY RingTerms, PTL
<1>2. n \in 0 .. Distance(head, tail) /\ n \in Nat /\ n <= Size
  BY <1>1, SizeAssumption DEF Unwrapped
<1>3. head' = After(head, n)
  BY <1>2, AfterIsRemainder DEF TypeOK
<1>4. Waiting' = Contents(After(head, n), tail, buffer)
  BY <1>1, <1>3 DEF Unwrapped
<1>5. /\ Len(Waiting) = Distance(head, tail)
      /\ Len(Waiting') = Distance(head', tail)
      /\ Waiting = Contents(head, tail, buffer)
  BY <1>1 DEF Unwrapped
<1> QED BY <1>2, <1>3, <1>4, <1>5, AdvanceDrops DEF TypeOK

(* ... and a ring that cannot take a byte holds Size - 1. *)
LEMMA FullStep ==
    ASSUME TypeOK, PushFull
    PROVE  Len(Waiting) = Size - 1
<1>1. Unwrapped /\ After(tail, 1) = head
  BY RingTerms DEF Unwrapped, PushFull
<1>2. Distance(head, tail) = Size - 1
  BY <1>1, SizeAssumption DEF TypeOK, Indices, After, Distance
<1> QED BY <1>1, <1>2 DEF Unwrapped

LEMMA SameWaiting ==
    ASSUME UNCHANGED ring
    PROVE  Waiting' = Waiting
BY DEF ring, Waiting, DataLength, Slot

(* What a step of the consumer reads of the ring it relies on. *)
LEMMA PopAdvanceStep ==
    ASSUME Inv, PopAdvance
    PROVE  /\ TypeOK'
           /\ Len(Waiting) >= 1
           /\ Len(Waiting') = Len(Waiting) - 1
           /\ \A i \in 1 .. Len(Waiting) - 1 : Waiting'[i] = Waiting[i + 1]
<1>1. /\ TypeOK /\ TakingInv
      /\ Unwrapped
  BY RingTerms DEF Inv
<1>2. left \in 1 .. Len(Waiting) /\ Len(Waiting) = DataLength /\ DataLength \in 0 .. Size - 1
  BY <1>1 DEF PopAdvance, TakingInv, Unwrapped
<1>3. head' \in Indices
  BY <1>1, RemainderRange, SizeAssumption DEF TypeOK, PopAdvance, Indices
<1>4. TypeOK'
  BY <1>1, <1>2, <1>3, SizeAssumption DEF TypeOK, PopAdvance
<1>5. 1 \in 0 .. DataLength
  BY <1>2
<1> QED BY <1>1, <1>2, <1>4, <1>5, DropStep DEF PopAdvance

LEMMA DiscardStep ==
    ASSUME Inv, Discard
    PROVE  /\ TypeOK'
           /\ Len(taken) <= Len(Waiting)
           /\ Len(Waiting') = Len(Waiting) - Len(taken)
           /\ \A i \in 1 .. Len(Waiting) - Len(taken) :
                  Waiting'[i] = Waiting[i + Len(taken)]
           /\ \A i \in 1 .. Len(taken) : taken[i] = Waiting[i]
<1> DEFINE n == Len(taken)
<1>1. /\ TypeOK /\ CopyingInv
      /\ Unwrapped
  BY RingTerms DEF Inv
<1>2. /\ n <= Len(Waiting)
      /\ \A i \in 1 .. Len(taken) : taken[i] = Waiting[i]
  BY <1>1 DEF Discard, CopyingInv
<1>3. n \in Nat /\ Len(Waiting) = DataLength /\ DataLength \in 0 .. Size - 1
  BY <1>1 DEF Unwrapped, TypeOK
<1>4. Smaller(DataLength, Len(taken)) = n
  BY <1>2, <1>3, SizeAssumption DEF Smaller
<1>5. head' = (head + n) % Size
  BY <1>4 DEF Discard
<1>6. head' \in Indices
  BY <1>1, <1>3, <1>5, RemainderRange, SizeAssumption DEF TypeOK, Indices
<1>7. TypeOK'
  BY <1>1, <1>6 DEF TypeOK, Discard
<1>8. n \in 0 .. DataLength
  BY <1>2, <1>3, SizeAssumption
<1> HIDE DEF n
<1>9. UNCHANGED <<buffer, tail>>
  BY DEF Discard
<1>10. /\ Len(Waiting') = Len(Waiting) - n
       /\ \A i \in 1 .. Len(Waiting) - n : Waiting'[i] = Waiting[i + n]
  BY <1>1, <1>5, <1>7, <1>8, <1>9, DropStep
<1> QED BY <1>2, <1>7, <1>10 DEF n

LEMMA PeekByteStep ==
    ASSUME Inv, PeekByte
    PROVE  /\ Len(taken) < Len(Waiting)
           /\ left \in 1 .. Len(Waiting) - Len(taken)
           /\ taken' = Append(taken, Waiting[Len(taken) + 1])
           /\ Waiting' = Waiting
           /\ Waiting[Len(taken) + 1] \in Bytes
<1>1. /\ TypeOK /\ CopyingInv
      /\ Unwrapped
  BY RingTerms DEF Inv
<1>2. /\ left \in 1 .. Len(Waiting) - Len(taken)
      /\ Len(taken) \in Nat
      /\ Len(Waiting) = DataLength
      /\ DataLength \in Nat
  BY <1>1, SizeAssumption DEF PeekByte, CopyingInv, TypeOK, Unwrapped
<1>3. Len(taken) < Len(Waiting) /\ Len(taken) + 1 \in 1 .. DataLength
  BY <1>2
<1>4. Waiting[Len(taken) + 1] = buffer[Slot((Len(taken) + 1) - 1)]
  BY <1>3 DEF Waiting
<1>5. Waiting[Len(taken) + 1] = buffer[Slot(Len(taken))]
  BY <1>2, <1>4
<1>6. Waiting[Len(taken) + 1] \in Bytes
  BY <1>1, <1>2, <1>3 DEF Unwrapped
<1> QED BY <1>2, <1>3, <1>5, <1>6, SameWaiting DEF PeekByte

LEMMA PopByteStep ==
    ASSUME Inv, PopByte
    PROVE  /\ left \in 1 .. Len(Waiting)
           /\ taken' = Append(taken, Waiting[1])
           /\ Waiting' = Waiting
           /\ Waiting[1] \in Bytes
<1>1. /\ TypeOK /\ TakingInv
      /\ Unwrapped
  BY RingTerms DEF Inv
<1>2. left \in 1 .. Len(Waiting) /\ Len(Waiting) = DataLength /\ DataLength \in Nat
  BY <1>1, SizeAssumption DEF PopByte, TakingInv, Unwrapped
<1>3. 1 \in 1 .. DataLength
  BY <1>2
<1>4. Slot(0) = head
  BY <1>1, SizeAssumption DEF TypeOK, Indices, Unwrapped, After
<1>5. Waiting[1] = buffer[head]
  BY <1>3, <1>4 DEF Waiting
<1>6. Waiting[1] \in Bytes
  BY <1>1, <1>2, <1>3 DEF Unwrapped
<1> QED BY <1>2, <1>5, <1>6, SameWaiting DEF PopByte

LEMMA InductiveInv == Inv /\ [Next]_vars => Inv'
<1> SUFFICES ASSUME Inv, [Next]_vars PROVE Inv'
  OBVIOUS
<1>0. /\ TypeOK /\ TakingInv /\ CopyingInv
      /\ Unwrapped
  BY RingTerms DEF Inv
<1>1. Waiting \in Seq(Bytes) /\ Len(Waiting) = DataLength /\ DataLength \in Nat
  BY <1>0, SizeAssumption DEF Unwrapped
<1>2. ASSUME NEW byte \in Bytes, PushByte(byte) PROVE Inv'
  <2>1. TypeOK' /\ Waiting' = Append(Waiting, byte)
    BY <1>0, <1>2, PushStep
  <2>2. /\ Len(Waiting') = Len(Waiting) + 1
        /\ \A i \in 1 .. Len(Waiting) : Waiting'[i] = Waiting[i]
    BY <1>1, <2>1, AppendProperties
  <2>3. UNCHANGED <<step, left, taken>> /\ Len(taken) \in Nat /\ left \in Nat
    BY <1>0, <1>2 DEF PushByte, consumer, TypeOK
  <2>4. TakingInv'
    BY <1>0, <1>1, <2>2, <2>3 DEF TakingInv
  <2>5. CopyingInv'
    BY <1>0, <1>1, <2>2, <2>3 DEF CopyingInv
  <2> QED BY <2>1, <2>4, <2>5 DEF Inv
<1>3. ASSUME PushFull PROVE Inv'
  <2>1. TypeOK' /\ Waiting' = Waiting /\ UNCHANGED <<step, left, taken>>
    BY <1>0, <1>3 DEF TypeOK, PushFull, consumer, Waiting, DataLength, Slot
  <2> QED BY <1>0, <2>1 DEF Inv, TakingInv, CopyingInv
<1>4. ASSUME NEW length \in 1 .. Size, StartPop(length) \/ StartPeek(length)
      PROVE  Inv'
  <2>1. Waiting' = Waiting /\ taken' = <<>> /\ left' \in 0 .. DataLength
    BY <1>1, <1>4, SameWaiting, SizeAssumption DEF StartPop, StartPeek, Smaller
  <2>2. TypeOK'
    BY <1>0, <1>1, <1>4, <2>1 DEF TypeOK, StartPop, StartPeek, ring
  <2>3. left' = 0 => step' = "none"
    BY <1>4 DEF StartPop, StartPeek
  <2>4. step' # "advance" /\ step' # "peeked" /\ Len(taken') = 0
    BY <1>4, <2>1 DEF StartPop, StartPeek
  <2>5. step' # "none" => left' \in 1 .. Len(Waiting')
    BY <1>1, <2>1, <2>3
  <2>6. TakingInv'
    BY <2>4, <2>5 DEF TakingInv
  <2>7. CopyingInv'
    BY <1>1, <2>1, <2>4, <2>5 DEF CopyingInv
  <2> QED BY <2>2, <2>6, <2>7 DEF Inv
<1>5. ASSUME PopByte PROVE Inv'
  <2>1. /\ left \in 1 .. Len(Waiting)
        /\ taken' = Append(taken, Waiting[1])
        /\ Waiting' = Waiting
        /\ Waiting[1] \in Bytes
    BY <1>5, PopByteStep
  <2>2. /\ taken' \in Seq(Bytes)
        /\ taken' # <<>>
        /\ taken'[Len(taken')] = Waiting[1]
    BY <1>0, <2>1, AppendProperties DEF TypeOK
  <2>3. TypeOK'
    BY <1>0, <1>5, <2>2 DEF TypeOK, PopByte, ring
  <2>4. TakingInv' /\ CopyingInv'
    BY <1>5, <2>1, <2>2 DEF PopByte, TakingInv, CopyingInv
  <2> QED BY <2>3, <2>4 DEF Inv
<1>6. ASSUME PopAdvance PROVE Inv'
  <2>1. TypeOK' /\ Len(Waiting') = Len(Waiting) - 1
    BY <1>6, PopAdvanceStep
  <2>2. left \in 1 .. Len(Waiting)
    BY <1>0, <1>6 DEF PopAdvance, TakingInv
  <2>3. left' = left - 1 /\ step' = IF left' = 0 THEN "none" ELSE "pop"
    BY <1>6 DEF PopAdvance
  <2>4. TakingInv' /\ CopyingInv'
    BY <1>1, <2>1, <2>2, <2>3 DEF TakingInv, CopyingInv
  <2> QED BY <2>1, <2>4 DEF Inv
<1>7. ASSUME PeekByte PROVE Inv'
  <2>1. /\ left \in 1 .. Len(Waiting) - Len(taken)
        /\ taken' = Append(taken, Waiting[Len(taken) + 1])
        /\ Waiting' = Waiting
        /\ Waiting[Len(taken) + 1] \in Bytes
        /\ Len(taken) \in Nat
    BY <1>0, <1>7, PeekByteStep DEF TypeOK
  <2>2. /\ taken' \in Seq(Bytes)
        /\ Len(taken') = Len(taken) + 1
        /\ \A i \in 1 .. Len(taken) : taken'[i] = taken[i]
        /\ taken'[Len(taken) + 1] = Waiting[Len(taken) + 1]
    BY <1>0, <2>1, AppendProperties DEF TypeOK
  <2>3. TypeOK'
    BY <1>0, <1>7, <2>1, <2>2 DEF TypeOK, PeekByte, ring
  <2>4. \A i \in 1 .. Len(taken) : taken[i] = Waiting[i]
    BY <1>0, <1>7 DEF PeekByte, CopyingInv
  <2>5. \A i \in 1 .. Len(taken') : taken'[i] = Waiting'[i]
    BY <2>1, <2>2, <2>4
  <2>6. left' = left - 1 /\ step' = IF left' = 0 THEN "peeked" ELSE "peek"
    BY <1>7 DEF PeekByte
  <2>7. TakingInv'
    BY <2>6 DEF TakingInv
  <2>8. CopyingInv'
    BY <1>1, <2>1, <2>2, <2>5, <2>6 DEF CopyingInv
  <2> QED BY <2>3, <2>7, <2>8 DEF Inv
<1>8. ASSUME Discard PROVE Inv'
  <2>1. TypeOK' /\ step' = "none"
    BY <1>8, DiscardStep DEF Discard
  <2> QED BY <2>1 DEF Inv, TakingInv, CopyingInv
<1>9. ASSUME Keep PROVE Inv'
  BY <1>0, <1>9 DEF Inv, Keep, ring, TypeOK, TakingInv, CopyingInv
<1>10. ASSUME UNCHANGED vars PROVE Inv'
  <2>1. Waiting' = Waiting /\ UNCHANGED <<buffer, head, tail, full, step, left, taken>>
    BY <1>10, SameWaiting DEF vars, ring, consumer
  <2> QED BY <1>0, <2>1 DEF Inv, TypeOK, TakingInv, CopyingInv
<1> QED
  BY <1>2, <1>3, <1>4, <1>5, <1>6, <1>7, <1>8, <1>9, <1>10 DEF Next

-----------------------------------------------------------------------------
(* A sequence without its last element. *)
LEMMA FrontOfAppend ==
    ASSUME NEW S, NEW s \in Seq(S), NEW e \in S
    PROVE  SubSeq(Append(s, e), 1, Len(Append(s, e)) - 1) = s
<1> DEFINE r == Append(s, e)
           f == SubSeq(r, 1, Len(r) - 1)
<1>1. /\ r \in Seq(S) /\ Len(r) = Len(s) + 1 /\ Len(s) \in Nat
      /\ \A i \in 1 .. Len(s) : r[i] = s[i]
  BY AppendProperties
<1>2. \A i \in 1 .. Len(s) : s[i] \in S
  OBVIOUS
<1> HIDE DEF r
<1>3. Len(r) - 1 \in Int /\ 1 \in Int /\ \A i \in 1 .. Len(r) - 1 : r[i] \in S
  BY <1>1, <1>2
<1>4. /\ f \in Seq(S)
      /\ Len(f) = IF 1 <= Len(r) - 1 THEN (Len(r) - 1) - 1 + 1 ELSE 0
      /\ \A i \in 1 .. (Len(r) - 1) - 1 + 1 : f[i] = r[1 + i - 1]
  <2> DEFINE n == Len(r) - 1
  <2>1. n \in Int /\ 1 \in Int /\ \A i \in 1 .. n : r[i] \in S
    BY <1>3
  <2> HIDE DEF n
  <2>2. /\ SubSeq(r, 1, n) \in Seq(S)
        /\ Len(SubSeq(r, 1, n)) = IF 1 <= n THEN n - 1 + 1 ELSE 0
        /\ \A i \in 1 .. n - 1 + 1 : SubSeq(r, 1, n)[i] = r[1 + i - 1]
    BY <2>1, SubSeqProperties
  <2> QED BY <2>2 DEF n
<1> HIDE DEF f
<1>5. Len(f) = Len(s)
  BY <1>1, <1>4
<1>6. \A i \in 1 .. Len(f) : f[i] = s[i]
  BY <1>1, <1>4, <1>5
<1>7. f = s
  BY <1>4, <1>5, <1>6, SeqEqual
<1> QED BY <1>7 DEF f, r

LEMMA LastAppended ==
    ASSUME NEW S, NEW s \in Seq(S), s # <<>>
    PROVE  s = Append(SubSeq(s, 1, Len(s) - 1), s[Len(s)])
<1>1. PICK front \in Seq(S), last \in S : s = Append(front, last)
  BY SequenceEmptyOrAppend
<1>2. SubSeq(s, 1, Len(s) - 1) = front
  BY <1>1, FrontOfAppend
<1>3. s[Len(s)] = last
  BY <1>1, AppendProperties
<1> QED BY <1>1, <1>2, <1>3

(* What is left when the first element is dropped. *)
LEMMA TailIsDrop ==
    ASSUME NEW S, NEW s \in Seq(S), NEW r \in Seq(S), Len(s) >= 1,
           Len(r) = Len(s) - 1,
           \A i \in 1 .. Len(s) - 1 : r[i] = s[i + 1]
    PROVE  s # <<>> /\ Head(s) = s[1] /\ r = Tail(s)
<1>1. s # <<>> /\ Head(s) = s[1]
  OBVIOUS
<1>2. /\ Tail(s) \in Seq(S) /\ Len(Tail(s)) = Len(s) - 1
      /\ \A i \in 1 .. Len(Tail(s)) : Tail(s)[i] = s[i + 1]
  BY <1>1, HeadTailProperties
<1>3. \A i \in 1 .. Len(r) : r[i] = Tail(s)[i]
  BY <1>2
<1>4. r = Tail(s)
  BY <1>2, <1>3, SeqEqual
<1> QED BY <1>1, <1>4

(* What is left when the first elements are dropped. *)
LEMMA ConcatOfDrop ==
    ASSUME NEW S, NEW s \in Seq(S), NEW p \in Seq(S), NEW r \in Seq(S),
           Len(p) <= Len(s),
           \A i \in 1 .. Len(p) : p[i] = s[i],
           Len(r) = Len(s) - Len(p),
           \A i \in 1 .. Len(s) - Len(p) : r[i] = s[i + Len(p)]
    PROVE  s = p \o r
<1>1. p \o r \in Seq(S) /\ Len(p \o r) = Len(s) /\ Len(p) \in Nat /\ Len(s) \in Nat
  BY ConcatProperties
<1>2. ASSUME NEW i \in 1 .. Len(s) PROVE s[i] = (p \o r)[i]
  <2>1. CASE i <= Len(p)
    BY <2>1, <1>1, ConcatProperties
  <2>2. CASE i > Len(p)
    <3>1. i - Len(p) \in 1 .. Len(s) - Len(p) /\ (i - Len(p)) + Len(p) = i
      BY <2>2, <1>1
    <3>2. r[i - Len(p)] = s[i]
      BY <3>1
    <3>3. (p \o r)[i] = r[i - Len(p)]
      BY <2>2, <1>1, ConcatProperties
    <3> QED BY <3>2, <3>3
  <2> QED BY <2>1, <2>2, <1>1
<1> QED BY <1>1, <1>2, SeqEqual

-----------------------------------------------------------------------------
(* Every step of the ring is a step of the FIFO or leaves it as it is.       *)
LEMMA Simulation == Inv /\ Inv' /\ [Next]_vars => [Fifo!Next]_Fifo!vars
<1> SUFFICES ASSUME Inv, Inv', [Next]_vars PROVE [Fifo!Next]_Fifo!vars
  OBVIOUS
<1>0. /\ TypeOK /\ TypeOK' /\ TakingInv /\ CopyingInv
      /\ Unwrapped /\ Unwrapped'
  BY RingTerms, PTL DEF Inv
<1>1. /\ Waiting \in Seq(Bytes) /\ Waiting' \in Seq(Bytes)
      /\ taken \in Seq(Bytes) /\ Len(taken) \in Nat
  BY <1>0 DEF Unwrapped, TypeOK
<1>2. ASSUME NEW byte \in Bytes, PushByte(byte) PROVE Fifo!Put(byte)
  <2>1. Waiting' = Append(Waiting, byte) /\ Len(Waiting) < Size - 1
    BY <1>0, <1>2, PushStep
  <2>2. UNCHANGED <<step, left, taken>> /\ full' = FALSE
    BY <1>2 DEF PushByte, consumer
  <2>3. UNCHANGED <<Call, Returned>>
    BY <2>2 DEF Call, Returned
  <2> QED BY <2>1, <2>2, <2>3 DEF Fifo!Put
<1>3. ASSUME PushFull PROVE Fifo!Refuse
  <2>1. Len(Waiting) = Size - 1
    BY <1>0, <1>3, FullStep
  <2>2. UNCHANGED <<buffer, head, tail, step, left, taken>> /\ full' = TRUE
    BY <1>3 DEF PushFull, consumer
  <2>3. UNCHANGED <<Waiting, Call, Returned>>
    BY <2>2 DEF Call, Returned, Waiting, DataLength, Slot
  <2> QED BY <2>1, <2>2, <2>3 DEF Fifo!Refuse
<1>4. ASSUME NEW length \in 1 .. Size, StartPop(length) PROVE Fifo!Begin("take")
  <2>1. Call = "none" /\ Call' \in {"take", "none"} /\ Returned' = <<>>
    BY <1>4 DEF StartPop, Call, Returned
  <2>2. UNCHANGED <<Waiting, full>>
    BY <1>4, SameWaiting DEF StartPop, ring
  <2> QED BY <2>1, <2>2 DEF Fifo!Begin
<1>5. ASSUME NEW length \in 1 .. Size, StartPeek(length) PROVE Fifo!Begin("copy")
  <2>1. Call = "none" /\ Call' \in {"copy", "none"} /\ Returned' = <<>>
    BY <1>5 DEF StartPeek, Call, Returned
  <2>2. UNCHANGED <<Waiting, full>>
    BY <1>5, SameWaiting DEF StartPeek, ring
  <2> QED BY <2>1, <2>2 DEF Fifo!Begin
<1>6. ASSUME PopByte PROVE UNCHANGED Fifo!vars
  <2>1. /\ taken' = Append(taken, Waiting[1]) /\ Waiting[1] \in Bytes
        /\ Waiting' = Waiting /\ full' = full
    BY <1>0, <1>6, PopByteStep DEF Inv, PopByte, ring
  <2>2. Call' = Call /\ Returned = taken
    BY <1>6 DEF PopByte, Call, Returned
  <2>3. Returned' = SubSeq(taken', 1, Len(taken') - 1)
    BY <1>6 DEF PopByte, Returned
  <2>4. Returned' = Returned
    BY <1>1, <2>1, <2>2, <2>3, FrontOfAppend
  <2> QED BY <2>1, <2>2, <2>4 DEF Fifo!vars
<1>7. ASSUME PopAdvance PROVE Fifo!Take
  <2>1. /\ Len(Waiting) >= 1
        /\ Len(Waiting') = Len(Waiting) - 1
        /\ \A i \in 1 .. Len(Waiting) - 1 : Waiting'[i] = Waiting[i + 1]
    BY <1>0, <1>7, PopAdvanceStep DEF Inv
  <2>2. Waiting # <<>> /\ Head(Waiting) = Waiting[1] /\ Waiting' = Tail(Waiting)
    BY <1>1, <2>1, TailIsDrop
  <2>3. taken # <<>> /\ taken[Len(taken)] = Waiting[1]
    BY <1>0, <1>7 DEF PopAdvance, TakingInv
  <2>4. taken = Append(SubSeq(taken, 1, Len(taken) - 1), Waiting[1])
    BY <1>1, <2>3, LastAppended
  <2>5. /\ Returned = SubSeq(taken, 1, Len(taken) - 1)
        /\ Returned' = taken
        /\ Call = "take" /\ Call' \in {"take", "none"}
        /\ full' = full
    BY <1>7 DEF PopAdvance, Returned, Call
  <2> QED BY <2>2, <2>4, <2>5 DEF Fifo!Take
<1>8. ASSUME PeekByte PROVE Fifo!Copy
  <2>1. /\ Len(taken) < Len(Waiting)
        /\ taken' = Append(taken, Waiting[Len(taken) + 1])
        /\ Waiting' = Waiting
    BY <1>0, <1>8, PeekByteStep DEF Inv
  <2>2. /\ Returned = taken /\ Returned' = taken'
        /\ Call = "copy" /\ Call' = "copy"
        /\ full' = full
    BY <1>8 DEF PeekByte, Returned, Call, ring
  <2> QED BY <2>1, <2>2 DEF Fifo!Copy
<1>9. ASSUME Discard PROVE Fifo!Discard
  <2>1. /\ Len(taken) <= Len(Waiting)
        /\ Len(Waiting') = Len(Waiting) - Len(taken)
        /\ \A i \in 1 .. Len(Waiting) - Len(taken) :
               Waiting'[i] = Waiting[i + Len(taken)]
        /\ \A i \in 1 .. Len(taken) : taken[i] = Waiting[i]
    BY <1>0, <1>9, DiscardStep DEF Inv
  <2>2. Waiting = taken \o Waiting'
    BY <1>1, <2>1, ConcatOfDrop
  <2>3. /\ Returned = taken /\ Returned' = taken
        /\ Call = "copy" /\ Call' = "none"
        /\ full' = full
    BY <1>9 DEF Discard, Returned, Call
  <2> QED BY <2>2, <2>3 DEF Fifo!Discard
<1>10. ASSUME Keep PROVE Fifo!Discard
  <2>1. /\ Returned = taken /\ Returned' = taken
        /\ Call = "copy" /\ Call' = "none"
        /\ full' = full /\ UNCHANGED Waiting
    BY <1>10, SameWaiting DEF Keep, Returned, Call, ring
  <2> QED BY <2>1 DEF Fifo!Discard
<1>11. ASSUME UNCHANGED vars PROVE UNCHANGED Fifo!vars
  <2>1. UNCHANGED <<Waiting, full, step, taken>>
    BY <1>11, SameWaiting DEF vars, ring, consumer
  <2> QED BY <2>1 DEF Fifo!vars, Call, Returned
<1>12. CASE \E byte \in Bytes : PushByte(byte)
  BY <1>2, <1>12 DEF Fifo!Next
<1>13. CASE \E length \in 1 .. Size : StartPop(length) \/ StartPeek(length)
  BY <1>4, <1>5, <1>13 DEF Fifo!Next
<1>14. CASE PushFull \/ PopAdvance \/ PeekByte \/ Discard \/ Keep
  BY <1>3, <1>7, <1>8, <1>9, <1>10, <1>14 DEF Fifo!Next
<1> QED
  BY <1>6, <1>11, <1>12, <1>13, <1>14 DEF Next

LEMMA Initially == Init => Inv /\ Fifo!Init
<1> SUFFICES ASSUME Init PROVE Inv /\ Fifo!Init
  OBVIOUS
<1>1. TypeOK
  <2>1. buffer \in [Indices -> Bytes]
    BY BytesAssumption DEF Init
  <2>2. 0 \in Indices
    BY SizeAssumption DEF Indices
  <2>3. taken \in Seq(Bytes)
    BY EmptySeq DEF Init
  <2> QED BY <2>1, <2>2, <2>3 DEF Init, TypeOK
<1>2. Inv
  BY <1>1 DEF Init, Inv, TakingInv, CopyingInv
<1>3. Waiting = <<>>
  <2>1. Waiting \in Seq(Bytes) /\ Len(Waiting) = Distance(head, tail)
    BY <1>1, RingTerms DEF Unwrapped
  <2>2. Len(Waiting) = 0
    BY <2>1 DEF Init, Distance
  <2> QED BY <2>1, <2>2
<1>4. Call = "none" /\ Returned = <<>> /\ full = FALSE
  BY DEF Init, Call, Returned
<1> QED BY <1>2, <1>3, <1>4 DEF Fifo!Init

LEMMA AlwaysInv == Spec => []Inv
BY Initially, InductiveInv, PTL DEF Spec

(* The indices stay on the ring, in whatever order the interrupt and the    *)
(* steps of the main loop fall.                                             *)
THEOREM QueueTypeCorrect == Spec => []TypeOK
BY AlwaysInv, PTL DEF Inv

(* Whatever the interleaving of queue_push_byte with queue_pop,             *)
(* queue_peek_data and queue_discard, the unlocked ring is a bounded FIFO:  *)
(* nothing is lost, repeated, reordered or overwritten before it is read.   *)
THEOREM QueueImplementsFifo == Spec => ImplementsFifo
<1>1. Init => Fifo!Init
  BY Initially
<1>2. Inv /\ Inv' /\ [Next]_vars => [Fifo!Next]_Fifo!vars
  BY Simulation
<1> QED BY <1>1, <1>2, AlwaysInv, PTL DEF Spec, ImplementsFifo, Fifo!Spec
=============================================================================
