-------------------------------- MODULE Timer --------------------------------
(***************************************************************************)
(* custom_timer.c: one timer over the millisecond counter of the platform. *)
(* The counter is a machine word and wraps; `elapsed` is the time that has *)
(* really passed since the timer was started, which the code cannot see.   *)
(***************************************************************************)
EXTENDS Naturals

CONSTANTS
    Modulus,      \* number of values of the counter, 2^32
    Durations,    \* timeouts in use
    Horizon       \* bound: how long a started timer is observed

ASSUME TimerAssumption ==
    /\ Modulus \in Nat \ {0}
    /\ Durations \subseteq 0 .. Modulus - 1
    /\ Horizon \in Nat

VARIABLES
    now_ms,     \* boot_platform_time_ms
    timer,      \* custom_timer_t
    elapsed     \* true time since the start

timerVars == <<now_ms, timer, elapsed>>

Word == 0 .. Modulus - 1

TimerTypeOK ==
    /\ now_ms \in Word
    /\ timer \in [start_ms : Word, duration_ms : Word, running : BOOLEAN]
    /\ elapsed \in Nat

(* custom_timer_init *)
StoppedTimer == [start_ms |-> 0, duration_ms |-> 0, running |-> FALSE]

(* custom_timer_elapsed_at: an unsigned subtraction. *)
Elapsed == (now_ms + Modulus - timer.start_ms) % Modulus

(* Mutants of Expired: the deadline is computed and compared; one           *)
(* millisecond too late.                                                    *)
ExpiredByDeadline ==
    timer.running /\ now_ms >= (timer.start_ms + timer.duration_ms) % Modulus

ExpiredLate == timer.running /\ Elapsed > timer.duration_ms

(* custom_timer_expired_at *)
Expired == timer.running /\ Elapsed >= timer.duration_ms

TimerInit ==
    /\ now_ms \in Word
    /\ timer = StoppedTimer
    /\ elapsed = 0

(* custom_timer_start, also of a timer that runs. *)
Start(duration_ms) ==
    /\ timer' = [start_ms |-> now_ms, duration_ms |-> duration_ms, running |-> TRUE]
    /\ elapsed' = 0
    /\ UNCHANGED now_ms

Stop ==
    /\ timer' = StoppedTimer
    /\ elapsed' = 0
    /\ UNCHANGED now_ms

(* SysTick increments the counter. *)
Tick ==
    /\ now_ms' = (now_ms + 1) % Modulus
    /\ \/ timer.running /\ elapsed < Horizon /\ elapsed' = elapsed + 1
       \/ ~timer.running /\ UNCHANGED elapsed
    /\ UNCHANGED timer

TimerNext ==
    \/ \E duration_ms \in Durations : Start(duration_ms)
    \/ Stop
    \/ Tick

TimerSpec == TimerInit /\ [][TimerNext]_timerVars

-----------------------------------------------------------------------------
(* No timer expires before its duration has really passed, wherever the     *)
(* counter stood when it was started and however often it wraps.            *)
NeverEarly == Expired => elapsed >= timer.duration_ms

(* A timer that is looked at before the counter comes round has expired     *)
(* exactly when its duration has passed.                                    *)
ExpiresOnTime ==
    timer.running /\ elapsed < Modulus =>
        (Expired <=> elapsed >= timer.duration_ms)
=============================================================================
