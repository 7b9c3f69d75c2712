------------------------------- MODULE UartLink -------------------------------
(***************************************************************************)
(* The one interrupt handler that CommTransmit's transmissions share with  *)
(* the receiver: HAL_UART_IRQHandler, with main.c's callback that rearms   *)
(* the reception of each byte.  The handler preempts the main loop and     *)
(* goes on between two bytes of the line; one that arrives while the data  *)
(* register is full, or between the handler's reads of SR and of DR, is    *)
(* lost and leaves an overrun.  No more than Burst bytes in a row find the *)
(* handler busy or waiting: it may be held up while the Flash is erased,   *)
(* and is much faster than the line otherwise.                             *)
(*                                                                         *)
(* HAL_UART_Transmit_IT reads CR1 and writes it back with TXEIE: what the  *)
(* handler did to RXNEIE in between is undone.  CR3's EIE is set and       *)
(* cleared with RXNEIE and never without it, and the handler asks for      *)
(* either: it has no variable.  What comm_manager.c does with a byte is    *)
(* CommReceive's matter.                                                   *)
(***************************************************************************)
EXTENDS CommTransmit

CONSTANT Burst

ASSUME BurstAssumption == Burst \in Nat

VARIABLES
    RXNE, ORE,      \* of SR
    RXNEIE,         \* of CR1
    RxState,        \* of the UART driver
    ErrorCode,      \* of it: HAL_UART_ERROR_ORE or none
    isr,            \* where the handler is
    isrflags,       \* its copy of SR
    CR1,            \* what the main loop read of RXNEIE and has to write back
    early           \* bytes since the receiver was quiet: of the line

receiver == <<RXNE, ORE, RXNEIE, RxState, ErrorCode, isr, isrflags>>
linkVars == <<vars, receiver, CR1, early>>

None == {}

(* main enters its loop with the reception armed; the line may have been    *)
(* busy before.                                                             *)
LinkInit ==
    /\ Init
    /\ RXNE \in BOOLEAN
    /\ ORE \in {FALSE, RXNE}
    /\ RXNEIE = TRUE
    /\ RxState = "BUSY_RX"
    /\ ErrorCode = FALSE
    /\ isr = "idle"
    /\ isrflags = {}
    /\ CR1 = None
    /\ early = 0

-----------------------------------------------------------------------------
(* The main loop, outside HAL_UART_Transmit_IT. *)
Main ==
    /\ isr = "idle"
    /\ CR1 = None
    /\ \/ \E frame \in Frames : Send(frame) \/ SendRefused(frame)
       \/ CommControl /\ step # "marked"
       \/ StartRefused
    /\ UNCHANGED <<receiver, CR1, early>>

(* HAL_UART_Transmit_IT, up to its read of CR1 ... *)
StartTransmit ==
    /\ isr = "idle"
    /\ Start
    /\ ErrorCode' = FALSE
    /\ CR1' = {RXNEIE}
    /\ UNCHANGED <<RXNE, ORE, RXNEIE, RxState, isr, isrflags, early>>

(* ... and its write. *)
EnableTransmit ==
    /\ isr = "idle"
    /\ CR1 # None
    /\ RXNEIE' \in CR1
    /\ CR1' = None
    /\ UNCHANGED <<vars, RXNE, ORE, RxState, ErrorCode, isr, isrflags, early>>

-----------------------------------------------------------------------------
ReceivePending == RXNEIE /\ (RXNE \/ ORE)

Quiet == isr = "idle" /\ ~ ReceivePending

(* The last bit of a byte arrives. *)
Arrive ==
    /\ early < Burst \/ Quiet
    /\ early' = IF Quiet THEN 0 ELSE early + 1
    /\ RXNE' = TRUE
    /\ ORE' = (ORE \/ RXNE)
    /\ UNCHANGED <<vars, RXNEIE, RxState, ErrorCode, isr, isrflags, CR1>>

(* HAL_UART_IRQHandler, when there is something to receive. *)
EnterReceive ==
    /\ isr = "idle"
    /\ ReceivePending
    /\ isr' = "entered"
    /\ isrflags' = {flag \in {"RXNE", "ORE"} : IF flag = "ORE" THEN ORE ELSE RXNE}
    /\ ErrorCode' = (ErrorCode \/ ORE)
    /\ UNCHANGED <<vars, RXNE, ORE, RXNEIE, RxState, CR1, early>>

(* Without an error the handler returns from here. *)
Return ==
    /\ isr' = IF "ORE" \in isrflags THEN "finish" ELSE "idle"
    /\ isrflags' = {}

(* Mutant: the next reception keeps the last one's error. *)
ReceiveDataKeepingError ==
    /\ isr = "entered"
    /\ "RXNE" \in isrflags
    /\ RxState = "BUSY_RX"
    /\ RXNE' = FALSE
    /\ ORE' = (ORE /\ "ORE" \notin isrflags)
    /\ RXNEIE' = TRUE
    /\ Return
    /\ UNCHANGED <<vars, RxState, ErrorCode, CR1, early>>

(* UART_Receive_IT: the read of DR clears the overrun that SR showed; the   *)
(* callback hands the byte on and starts the next reception.                *)
ReceiveData ==
    /\ isr = "entered"
    /\ "RXNE" \in isrflags
    /\ RxState = "BUSY_RX"
    /\ RXNE' = FALSE
    /\ ORE' = (ORE /\ "ORE" \notin isrflags)
    /\ ErrorCode' = FALSE
    /\ RXNEIE' = TRUE
    /\ Return
    /\ UNCHANGED <<vars, RxState, CR1, early>>

(* There is no byte, or no reception it belongs to. *)
ReceiveNothing ==
    /\ isr = "entered"
    /\ "RXNE" \notin isrflags \/ RxState # "BUSY_RX"
    /\ Return
    /\ UNCHANGED <<vars, RXNE, ORE, RXNEIE, RxState, ErrorCode, CR1, early>>

(* Mutant: the reception ends with its interrupt enabled. *)
EndReceptionOnly ==
    /\ isr = "finish"
    /\ RxState' = IF ErrorCode THEN "READY" ELSE RxState
    /\ isr' = "idle"
    /\ UNCHANGED <<vars, RXNE, ORE, RXNEIE, ErrorCode, isrflags, CR1, early>>

(* UART_EndRxTransfer, if the error is still there.  Nobody overrides the   *)
(* error callback, and nobody starts a reception again.                     *)
Finish ==
    /\ isr = "finish"
    /\ RXNEIE' = (RXNEIE /\ ~ ErrorCode)
    /\ RxState' = IF ErrorCode THEN "READY" ELSE RxState
    /\ isr' = "idle"
    /\ UNCHANGED <<vars, RXNE, ORE, ErrorCode, isrflags, CR1, early>>

ReceiveInterrupt == EnterReceive \/ ReceiveData \/ ReceiveNothing \/ Finish

(* The transmitter is served when there is nothing to receive. *)
TransmitInterrupt ==
    /\ Quiet
    /\ CR1 = None
    /\ Interrupt
    /\ UNCHANGED <<receiver, CR1, early>>

LinkNext ==
    \/ Main
    \/ StartTransmit
    \/ EnableTransmit
    \/ Arrive
    \/ ReceiveInterrupt
    \/ TransmitInterrupt

LinkSpec == LinkInit /\ [][LinkNext]_linkVars

(* The main loop comes round, however often it is interrupted, and the      *)
(* transport does not refuse for ever.                                      *)
LinkFairSpec ==
    /\ LinkSpec
    /\ SF_linkVars(Main /\ step' # step)
    /\ SF_linkVars(StartTransmit)
    /\ SF_linkVars(EnableTransmit)
    /\ SF_linkVars(TransmitInterrupt)
    /\ WF_linkVars(ReceiveInterrupt)

-----------------------------------------------------------------------------
(* The device listens, unless an overrun was left that no read of DR can    *)
(* clear any more: one seen together with its byte does no harm.            *)
ListensUnlessOverrun ==
    isr = "idle" /\ ~ ORE => RxState = "BUSY_RX" /\ RXNEIE

(* The handler is not entered again and again for the same interrupt, also  *)
(* when the main loop restores one that the handler disabled.               *)
InterruptsSubside == []<>Quiet
=============================================================================
