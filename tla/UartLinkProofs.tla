---------------------------- MODULE UartLinkProofs ----------------------------
(***************************************************************************)
(* No byte of a report is lost or left behind by the transmitter, for      *)
(* every queue and buffer size and every set of frames, alone and under    *)
(* the interrupt handler it shares with the receiver; and the receiver     *)
(* listens as long as no overrun is left over.                             *)
(*                                                                         *)
(* Neither invariant is inductive alone.  TransmitInv adds that the busy   *)
(* flag is set from before the driver starts until it ends, and that the   *)
(* active buffer holds the oldest bytes of the queue until they are        *)
(* discarded.  LinkInv adds where the overrun the handler has seen is.     *)
(***************************************************************************)
EXTENDS UartLink, SequenceTheorems, TLAPS

(* comm_control's copy of the oldest bytes. *)
Copied ==
    /\ to_send \in 1 .. FrameLimit
    /\ to_send <= Len(tx_queue)
    /\ \A i \in 1 .. to_send : active[i] = tx_queue[i]

TransmitInv ==
    /\ TypeOK
    /\ gState = "READY" => count = 0
    /\ gState = "BUSY_TX" => in_progress = 1 /\ step \in {"idle", "started"}
    /\ pointer + count <= FrameLimit
    /\ step # "idle" => Copied
    /\ step = "peeked" => in_progress = 0
    /\ step = "marked" => in_progress = 1

-----------------------------------------------------------------------------
(* The transmitter alone. *)

LEMMA SendInv ==
    ASSUME TransmitInv, NEW frame \in Frames, Send(frame)
    PROVE  TransmitInv'
<1>1. /\ frame \in Seq(Bytes) /\ Len(frame) \in Nat
      /\ tx_queue' = tx_queue \o frame
      /\ Len(frame) <= Capacity - Len(tx_queue)
    BY FramesAssumption DEF Send
<1>2. /\ tx_queue' \in Seq(Bytes)
      /\ Len(tx_queue') = Len(tx_queue) + Len(frame)
    BY <1>1 DEF TransmitInv, TypeOK
<1>3. Len(tx_queue') <= Capacity
    BY <1>1, <1>2, LimitAssumption DEF TransmitInv, TypeOK
<1> QED BY <1>2, <1>3 DEF Send, uart, TransmitInv, TypeOK

LEMMA PeekInv ==
    ASSUME TransmitInv, Peek
    PROVE  TransmitInv'
<1>1. /\ Len(tx_queue) \in Nat \ {0}
      /\ to_send' = Smaller(Len(tx_queue), FrameLimit)
    BY DEF TransmitInv, TypeOK, Peek
<1>2. /\ to_send' \in 1 .. FrameLimit
      /\ to_send' <= Len(tx_queue)
    BY <1>1, LimitAssumption DEF Smaller
<1>3. \A i \in 1 .. Len(tx_queue) : tx_queue[i] \in Bytes
    BY DEF TransmitInv, TypeOK
<1>4. /\ active' = [i \in 1 .. FrameLimit |->
                       IF i <= to_send' THEN tx_queue[i] ELSE active[i]]
      /\ active \in [1 .. FrameLimit -> Bytes]
    BY DEF TransmitInv, TypeOK, Peek
<1>5. active' \in [1 .. FrameLimit -> Bytes]
    BY <1>1, <1>2, <1>3, <1>4, LimitAssumption
<1>6. \A i \in 1 .. to_send' : active'[i] = tx_queue[i]
    BY <1>2, <1>4, LimitAssumption
<1> QED BY <1>2, <1>5, <1>6 DEF Peek, uart, TransmitInv, TypeOK, Copied

LEMMA DiscardInv ==
    ASSUME TransmitInv, Discard
    PROVE  TransmitInv'
<1>1. /\ tx_queue \in Seq(Bytes) /\ Len(tx_queue) <= Capacity
      /\ to_send \in 1 .. FrameLimit /\ to_send <= Len(tx_queue)
    BY DEF TransmitInv, TypeOK, Discard, Copied
<1>2. tx_queue' = SubSeq(tx_queue, to_send + 1, Len(tx_queue))
    BY DEF Discard
<1>3. /\ tx_queue' \in Seq(Bytes)
      /\ Len(tx_queue') <= Len(tx_queue)
    BY <1>1, <1>2, SubSeqProperties, LimitAssumption
<1>4. Len(tx_queue') <= Capacity
    BY <1>1, <1>3, LimitAssumption
<1> QED BY <1>3, <1>4 DEF Discard, uart, TransmitInv, TypeOK

LEMMA InterruptInv ==
    ASSUME TransmitInv, Interrupt
    PROVE  TransmitInv'
<1>1. CASE TransmitByte
    <2>1. /\ count \in 1 .. FrameLimit
          /\ pointer \in 0 .. FrameLimit
          /\ pointer + count <= FrameLimit
          /\ active \in [1 .. FrameLimit -> Bytes]
        BY <1>1 DEF TransmitByte, TransmitInv, TypeOK
    <2>2. /\ pointer + 1 \in 1 .. FrameLimit
          /\ count - 1 \in 0 .. FrameLimit
          /\ (pointer + 1) + (count - 1) <= FrameLimit
          /\ active[pointer + 1] \in Bytes
        BY <2>1, LimitAssumption
    <2>3. /\ pointer' \in 0 .. FrameLimit
          /\ count' \in 0 .. FrameLimit
          /\ pointer' + count' <= FrameLimit
          /\ sent' \in Bytes
        BY <1>1, <2>2 DEF TransmitByte
    <2> QED BY <1>1, <2>3 DEF TransmitByte, loop, TransmitInv, TypeOK, Copied
<1>2. CASE TransmitComplete
    BY <1>2 DEF TransmitComplete, loop, TransmitInv, TypeOK, Copied
<1> QED BY <1>1, <1>2 DEF Interrupt

LEMMA StepInv ==
    ASSUME TransmitInv, [Next]_vars
    PROVE  TransmitInv'
<1>1. CASE \E frame \in Frames : Send(frame)
    BY <1>1, SendInv
<1>2. CASE Peek
    BY <1>2, PeekInv
<1>3. CASE Mark
    BY <1>3 DEF Mark, uart, TransmitInv, TypeOK, Copied
<1>4. CASE Start
    BY <1>4 DEF Start, TransmitInv, TypeOK, Copied
<1>5. CASE StartRefused
    BY <1>5 DEF StartRefused, uart, TransmitInv, TypeOK, Copied
<1>6. CASE Discard
    BY <1>6, DiscardInv
<1>7. CASE Interrupt
    BY <1>7, InterruptInv
<1>8. CASE UNCHANGED vars
    BY <1>8 DEF vars, loop, uart, TransmitInv, TypeOK, Copied
<1> QED BY <1>1, <1>2, <1>3, <1>4, <1>5, <1>6, <1>7, <1>8
        DEF Next, CommControl, SendRefused

LEMMA InitInv == Init => TransmitInv
<1> SUFFICES ASSUME Init
             PROVE  TransmitInv
    OBVIOUS
<1>1. tx_queue \in Seq(Bytes) /\ Len(tx_queue) = 0
    BY DEF Init
<1>2. active \in [1 .. FrameLimit -> Bytes]
    BY BytesAssumption DEF Init
<1> QED BY <1>1, <1>2, BytesAssumption, LimitAssumption DEF Init, TransmitInv, TypeOK

LEMMA TransmitInvariant == Spec => []TransmitInv
<1>1. TransmitInv /\ [Next]_vars => TransmitInv'
    BY StepInv
<1> QED BY <1>1, InitInv, PTL DEF Spec

(* The transmit queue, the buffer and the driver's offsets have their types *)
(* and bounds: nothing is read or written outside the active buffer.        *)
THEOREM TransmitTypeCorrect == Spec => []TypeOK
BY TransmitInvariant, PTL DEF TransmitInv

-----------------------------------------------------------------------------
(* What is owed. *)

OwedOK ==
    /\ Unsent \in Seq(Bytes) /\ Len(Unsent) = count
    /\ \A i \in 1 .. count : Unsent[i] = active[pointer + i]
    /\ Queued \in Seq(Bytes)

LEMMA OwedTypes == TransmitInv => OwedOK
<1> SUFFICES ASSUME TransmitInv
             PROVE  OwedOK
    OBVIOUS
<1>1. /\ count \in Nat /\ pointer \in Nat
      /\ pointer + count <= FrameLimit
      /\ active \in [1 .. FrameLimit -> Bytes]
      /\ tx_queue \in Seq(Bytes)
    BY DEF TransmitInv, TypeOK
<1>2. \A i \in 1 .. count : active[pointer + i] \in Bytes
    BY <1>1, LimitAssumption
<1>3. Unsent \in [1 .. count -> Bytes]
    BY <1>2 DEF Unsent
<1>4. Unsent \in Seq(Bytes) /\ Len(Unsent) = count
    BY <1>1, <1>3
<1>5. Queued \in Seq(Bytes)
    <2>1. CASE step = "started"
        <3>1. to_send \in Nat /\ to_send <= Len(tx_queue)
            BY <2>1 DEF TransmitInv, Copied
        <3> QED BY <1>1, <2>1, <3>1, SubSeqProperties DEF Queued
    <2>2. CASE step # "started"
        BY <1>1, <2>2 DEF Queued
    <2> QED BY <2>1, <2>2
<1> QED BY <1>4, <1>5 DEF OwedOK, Unsent

LEMMA OwedTypesNext ==
    ASSUME TransmitInv'
    PROVE  OwedOK'
<1>1. (TransmitInv => OwedOK)'
    BY OwedTypes, PTL
<1> QED BY <1>1

LEMMA NothingUnsent ==
    ASSUME TransmitInv, count = 0
    PROVE  Unsent = <<>> /\ Unsent \o Queued = Queued
<1>1. Unsent = <<>>
    BY OwedTypes DEF OwedOK
<1> QED BY <1>1, OwedTypes DEF OwedOK

(* The boot controller's idle transmitter: comm_manager_tx_idle is true     *)
(* only when the driver has put the last byte of the last report on the     *)
(* line, for TransmitComplete is what clears the flag.                      *)
THEOREM TransmitterIdleMeansSent == Spec => []IdleMeansSent
<1>1. TransmitInv => IdleMeansSent
    <2> SUFFICES ASSUME TransmitInv, step = "idle", TxIdle
                 PROVE  Unsent \o Queued = <<>> /\ gState = "READY"
        BY DEF IdleMeansSent
    <2>1. gState = "READY" /\ count = 0
        BY DEF TransmitInv, TypeOK, TxIdle
    <2>2. Queued = <<>>
        BY DEF Queued, TxIdle
    <2> QED BY <2>1, <2>2, NothingUnsent
<1> QED BY <1>1, TransmitInvariant, PTL

-----------------------------------------------------------------------------
(* Every step of the transmitter is a step of the stream, or none. *)

LEMMA StartSplits ==
    ASSUME TransmitInv, Start
    PROVE  Unsent' \o Queued' = Unsent \o Queued
<1>1. /\ count = 0 /\ Unsent \o Queued = Queued
      /\ Queued = tx_queue
      /\ tx_queue \in Seq(Bytes)
      /\ to_send \in Nat /\ to_send <= Len(tx_queue)
      /\ \A i \in 1 .. to_send : active[i] = tx_queue[i]
    BY NothingUnsent DEF Start, TransmitInv, TypeOK, Copied, Queued
<1>2. Queued' = SubSeq(tx_queue, to_send + 1, Len(tx_queue))
    BY DEF Start, Queued
<1>3. Unsent' = [i \in 1 .. to_send |-> active[0 + i]]
    BY DEF Start, Unsent
<1>4. Unsent' = SubSeq(tx_queue, 1, to_send)
    <2>1. \A i \in 1 .. to_send : active[0 + i] = active[i]
        BY <1>1
    <2>2. SubSeq(tx_queue, 1, to_send) = [i \in 1 .. to_send |-> tx_queue[i]]
        BY <1>1
    <2> QED BY <1>1, <1>3, <2>1, <2>2
<1>5. SubSeq(tx_queue, 1, to_send) \o SubSeq(tx_queue, to_send + 1, Len(tx_queue))
          = SubSeq(tx_queue, 1, Len(tx_queue))
    <2>1. /\ 1 \in 1 .. Len(tx_queue) + 1
          /\ to_send \in 1 - 1 .. Len(tx_queue)
          /\ Len(tx_queue) \in to_send .. Len(tx_queue)
        BY <1>1
    <2> QED BY <1>1, <2>1, ConcatAdjacentSubSeq
<1>6. SubSeq(tx_queue, 1, Len(tx_queue)) = tx_queue
    BY <1>1, SubSeqFull
<1> QED BY <1>1, <1>2, <1>4, <1>5, <1>6

(* The head of a concatenation is taken from its first part. *)
LEMMA ConcatTail ==
    ASSUME NEW S, NEW s \in Seq(S), NEW t \in Seq(S), s # <<>>
    PROVE  /\ s \o t # <<>>
           /\ Head(s \o t) = s[1]
           /\ Tail(s \o t) = Tail(s) \o t
<1> DEFINE whole == s \o t
           rest == Tail(s) \o t
<1>1. /\ whole \in Seq(S) /\ Len(whole) = Len(s) + Len(t)
      /\ \A i \in 1 .. Len(s) + Len(t) :
             whole[i] = IF i <= Len(s) THEN s[i] ELSE t[i - Len(s)]
    BY ConcatProperties
<1>2. Len(s) \in Nat \ {0} /\ Len(t) \in Nat
    OBVIOUS
<1>3. whole # <<>> /\ whole[1] = s[1]
    BY <1>1, <1>2
<1>4. /\ Tail(s) \in Seq(S) /\ Len(Tail(s)) = Len(s) - 1
      /\ \A i \in 1 .. Len(s) - 1 : Tail(s)[i] = s[i + 1]
    OBVIOUS
<1>5. /\ rest \in Seq(S) /\ Len(rest) = Len(s) - 1 + Len(t)
      /\ \A i \in 1 .. Len(s) - 1 + Len(t) :
             rest[i] = IF i <= Len(s) - 1 THEN Tail(s)[i] ELSE t[i - (Len(s) - 1)]
    BY <1>4, ConcatProperties
<1> HIDE DEF whole, rest
<1>6. /\ Tail(whole) \in Seq(S) /\ Len(Tail(whole)) = Len(whole) - 1
      /\ \A i \in 1 .. Len(whole) - 1 : Tail(whole)[i] = whole[i + 1]
    BY <1>1, <1>3
<1>7. Len(whole) - 1 = Len(rest) /\ Len(rest) = Len(s) - 1 + Len(t)
    BY <1>1, <1>2, <1>5
<1>8. ASSUME NEW i \in 1 .. Len(s) - 1 + Len(t)
      PROVE  whole[i + 1] = rest[i]
    <2>1. CASE i <= Len(s) - 1
        <3>1. i \in 1 .. Len(s) - 1 /\ i + 1 <= Len(s) /\ i + 1 \in 1 .. Len(s) + Len(t)
            BY <1>2, <2>1
        <3> QED BY <1>1, <1>4, <1>5, <2>1, <3>1
    <2>2. CASE ~ (i <= Len(s) - 1)
        <3>1. /\ ~ (i + 1 <= Len(s)) /\ i + 1 \in 1 .. Len(s) + Len(t)
              /\ (i + 1) - Len(s) = i - (Len(s) - 1)
            BY <1>2, <2>2
        <3> QED BY <1>1, <1>5, <2>2, <3>1
    <2> QED BY <2>1, <2>2
<1>9. Tail(whole) = rest
    <2>1. \A i \in 1 .. Len(Tail(whole)) : Tail(whole)[i] = rest[i]
        BY <1>6, <1>7, <1>8
    <2> QED BY <1>5, <1>6, <1>7, <2>1, SeqEqual
<1>10. Head(whole) = whole[1]
    BY <1>1, <1>3
<1> QED BY <1>3, <1>9, <1>10 DEF whole, rest

LEMMA ByteIsEmitted ==
    ASSUME TransmitInv, TransmitByte
    PROVE  Stream!Emit
<1> DEFINE owed == Unsent \o Queued
<1>1. /\ Unsent \in Seq(Bytes) /\ Len(Unsent) = count
      /\ \A i \in 1 .. count : Unsent[i] = active[pointer + i]
      /\ Queued \in Seq(Bytes)
    BY OwedTypes DEF OwedOK
<1>2. /\ Unsent' \in Seq(Bytes) /\ Len(Unsent') = count'
      /\ \A i \in 1 .. count' : Unsent'[i] = active'[pointer' + i]
    BY InterruptInv, OwedTypesNext DEF OwedOK, Interrupt
<1>3. /\ count \in Nat \ {0} /\ count' = count - 1
      /\ pointer \in Nat /\ pointer' = pointer + 1
      /\ active' = active /\ Queued' = Queued
      /\ sent' = active[pointer + 1]
    BY DEF TransmitByte, loop, TransmitInv, TypeOK, Queued
<1>4. Unsent # <<>>
    BY <1>1, <1>3
<1>5. Unsent' = Tail(Unsent)
    <2>1. /\ Tail(Unsent) \in Seq(Bytes) /\ Len(Tail(Unsent)) = count - 1
          /\ \A i \in 1 .. count - 1 : Tail(Unsent)[i] = Unsent[i + 1]
        BY <1>1, <1>4, HeadTailProperties
    <2>2. \A i \in 1 .. count - 1 : Unsent'[i] = Tail(Unsent)[i]
        <3> SUFFICES ASSUME NEW i \in 1 .. count - 1
                     PROVE  Unsent'[i] = Tail(Unsent)[i]
            OBVIOUS
        <3>1. Unsent'[i] = active[(pointer + 1) + i]
            BY <1>2, <1>3
        <3>2. /\ Unsent[i + 1] = active[pointer + (i + 1)]
              /\ (pointer + 1) + i = pointer + (i + 1)
            BY <1>1, <1>3
        <3> QED BY <2>1, <3>1, <3>2
    <2> QED BY <1>2, <1>3, <2>1, <2>2, SeqEqual
<1>6. /\ owed # <<>>
      /\ Head(owed) = Unsent[1]
      /\ Tail(owed) = Tail(Unsent) \o Queued
    BY <1>1, <1>4, ConcatTail
<1>7. Unsent[1] = active[pointer + 1]
    BY <1>1, <1>3
<1>8. owed' = Tail(owed)
    BY <1>3, <1>5, <1>6
<1>9. sent' = Head(owed)
    BY <1>3, <1>6, <1>7
<1> QED BY <1>6, <1>8, <1>9 DEF Stream!Emit

LEMMA StreamStep ==
    ASSUME TransmitInv, [Next]_vars
    PROVE  [Stream!Next]_(Stream!vars)
<1>1. ASSUME NEW frame \in Frames, Send(frame)
      PROVE  Stream!Accept(frame)
    <2>1. /\ Unsent' = Unsent /\ sent' = sent
          /\ Queued = tx_queue /\ Queued' = tx_queue \o frame
        BY <1>1 DEF Send, uart, Unsent, Queued
    <2>2. (Unsent \o Queued) \o frame = Unsent \o (Queued \o frame)
        <3>1. Unsent \in Seq(Bytes) /\ Queued \in Seq(Bytes) /\ frame \in Seq(Bytes)
            BY OwedTypes, FramesAssumption DEF OwedOK
        <3> QED BY <3>1, ConcatAssociative
    <2> QED BY <2>1, <2>2 DEF Stream!Accept
<1>2. CASE Peek
    <2>1. /\ count = 0 /\ count' = 0
          /\ Queued = tx_queue /\ Queued' = tx_queue
          /\ sent' = sent
        BY <1>2 DEF Peek, uart, Queued, TransmitInv, TypeOK
    <2>2. Unsent = <<>> /\ Unsent' = <<>>
        BY <1>2, <2>1, PeekInv, NothingUnsent, OwedTypesNext DEF OwedOK
    <2> QED BY <2>1, <2>2 DEF Stream!vars
<1>3. CASE Mark \/ StartRefused \/ SendRefused(<<>>) \/ UNCHANGED vars
    BY <1>3 DEF Mark, StartRefused, SendRefused, vars, loop, uart, Unsent, Queued, Stream!vars
<1>4. CASE Start
    BY <1>4, StartSplits DEF Start, Stream!vars
<1>5. CASE Discard
    BY <1>5 DEF Discard, uart, Unsent, Queued, Stream!vars
<1>6. CASE TransmitByte
    BY <1>6, ByteIsEmitted DEF Stream!Next
<1>7. CASE TransmitComplete
    BY <1>7 DEF TransmitComplete, loop, Unsent, Queued, Stream!vars
<1> QED BY <1>1, <1>2, <1>3, <1>4, <1>5, <1>6, <1>7
        DEF Next, CommControl, Interrupt, SendRefused, Stream!Next

(* The transmitter implements the stream, whatever the order of interrupts  *)
(* and steps of comm_control and whatever the transport refuses: the bytes  *)
(* of accepted frames leave once, in order.  That they do leave is fairness. *)
THEOREM TransmitImplementsStream == Spec => Stream!Spec
<1>1. Init => Stream!Init
    <2> SUFFICES ASSUME Init
                 PROVE  Unsent \o Queued = <<>> /\ sent = 0
        BY DEF Stream!Init
    <2>1. TransmitInv /\ count = 0 /\ Queued = <<>> /\ sent = 0
        BY InitInv DEF Init, Queued
    <2> QED BY <2>1, NothingUnsent
<1>2. TransmitInv /\ [Next]_vars => [Stream!Next]_(Stream!vars)
    BY StreamStep
<1> QED BY <1>1, <1>2, TransmitInvariant, PTL DEF Spec, Stream!Spec

-----------------------------------------------------------------------------
(* Under the shared handler. *)

LEMMA LinkStep ==
    ASSUME [LinkNext]_linkVars
    PROVE  [Next]_vars
BY DEF LinkNext, linkVars, Main, StartTransmit, EnableTransmit, Arrive, ReceiveInterrupt,
       EnterReceive, ReceiveData, ReceiveNothing, Finish, TransmitInterrupt, Next, CommControl

(* Sharing the interrupt handler with the receiver delays the transmitter   *)
(* and does nothing else to it, so all of the above holds of the link.      *)
THEOREM LinkImplementsTransmit == LinkSpec => Spec
<1>1. [LinkNext]_linkVars => [Next]_vars
    BY LinkStep
<1>2. LinkInit => Init
    BY DEF LinkInit
<1> QED BY <1>1, <1>2, PTL DEF LinkSpec, Spec

(* On the link, too, an idle transmitter has sent everything ... *)
THEOREM LinkIdleMeansSent == LinkSpec => []IdleMeansSent
BY LinkImplementsTransmit, TransmitterIdleMeansSent

(* ... and no byte is lost, repeated or reordered. *)
THEOREM LinkImplementsStream == LinkSpec => Stream!Spec
BY LinkImplementsTransmit, TransmitImplementsStream

LinkTypeOK ==
    /\ {RXNE, ORE, RXNEIE, ErrorCode} \subseteq BOOLEAN
    /\ RxState \in {"BUSY_RX", "READY"}
    /\ isr \in {"idle", "entered", "finish"}
    /\ isrflags \subseteq {"RXNE", "ORE"}
    /\ CR1 \subseteq BOOLEAN

(* The reception ends with an overrun, and nothing clears one after it; the *)
(* interrupt is off only then, also where the main loop holds a copy of it. *)
LinkInv ==
    /\ LinkTypeOK
    /\ RxState = "READY" => ORE
    /\ ~ RXNEIE \/ FALSE \in CR1 => RxState = "READY"
    /\ isr = "entered" /\ "ORE" \in isrflags => ORE
    /\ isr = "finish" /\ ErrorCode => ORE

LEMMA LinkStepInv ==
    ASSUME LinkInv, [LinkNext]_linkVars
    PROVE  LinkInv'
<1> USE DEF LinkInv, LinkTypeOK
<1>1. CASE Main \/ TransmitInterrupt
    <2>1. UNCHANGED <<receiver, CR1>>
        BY <1>1 DEF Main, TransmitInterrupt
    <2> QED BY <2>1 DEF receiver
<1>2. CASE StartTransmit
    BY <1>2 DEF StartTransmit
<1>3. CASE EnableTransmit
    BY <1>3 DEF EnableTransmit, None
<1>4. CASE Arrive
    BY <1>4 DEF Arrive
<1>5. CASE EnterReceive
    BY <1>5 DEF EnterReceive
<1>6. CASE ReceiveData
    BY <1>6 DEF ReceiveData, Return
<1>7. CASE ReceiveNothing
    BY <1>7 DEF ReceiveNothing, Return
<1>8. CASE Finish
    BY <1>8 DEF Finish
<1>9. CASE UNCHANGED linkVars
    BY <1>9 DEF linkVars, receiver
<1> QED BY <1>1, <1>2, <1>3, <1>4, <1>5, <1>6, <1>7, <1>8, <1>9
        DEF LinkNext, ReceiveInterrupt

LEMMA LinkInvariant == LinkSpec => []LinkInv
<1>1. LinkInit => LinkInv
    BY DEF LinkInit, LinkInv, LinkTypeOK, None
<1>2. LinkInv /\ [LinkNext]_linkVars => LinkInv'
    BY LinkStepInv
<1> QED BY <1>1, <1>2, PTL DEF LinkSpec

(* The device is deaf only after an overrun that stays set, however the     *)
(* line, the handler and HAL_UART_Transmit_IT interleave.                   *)
THEOREM LinkListens == LinkSpec => []ListensUnlessOverrun
<1>1. LinkInv => ListensUnlessOverrun
    BY DEF LinkInv, LinkTypeOK, ListensUnlessOverrun
<1> QED BY <1>1, LinkInvariant, PTL
=============================================================================
