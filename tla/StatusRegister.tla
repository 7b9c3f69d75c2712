--------------------------- MODULE StatusRegister ---------------------------
(***************************************************************************)
(* What the callers of secure_boot.c rely on when they persist the boot    *)
(* status: one register, and a commit that takes effect entirely or not at *)
(* all.  A commit that reports success has taken effect, one that reports  *)
(* a Flash error has not, and losing power leaves the register as it was   *)
(* or as the commit made it.  Nothing here knows of pages or generations.  *)
(***************************************************************************)

CONSTANTS
    Contents,         \* everything a status record can say
    DefaultContents   \* what an unprogrammed device says

VARIABLES
    current,   \* the contents a load returns
    request    \* the commit in progress: [stage, contents]

vars == <<current, request>>

NoRequest == [stage |-> "none", contents |-> DefaultContents]

Init ==
    /\ current = DefaultContents
    /\ request = NoRequest

(* A caller asks for new contents. *)
Commit(contents) ==
    /\ request.stage = "none"
    /\ request' = [stage |-> "pending", contents |-> contents]
    /\ UNCHANGED current

(* The only step that changes the register. *)
TakeEffect ==
    /\ request.stage = "pending"
    /\ current' = request.contents
    /\ request' = [request EXCEPT !.stage = "done"]

(* The commit fails and leaves no trace. *)
Fail ==
    /\ request.stage = "pending"
    /\ request' = [request EXCEPT !.stage = "failed"]
    /\ UNCHANGED current

(* The caller learns the outcome. *)
Return ==
    /\ request.stage \in {"done", "failed"}
    /\ request' = NoRequest
    /\ UNCHANGED current

(* The caller disappears, and with it every trace of the request. *)
Crash ==
    /\ request' = NoRequest
    /\ UNCHANGED current

Next ==
    \/ \E contents \in Contents : Commit(contents)
    \/ TakeEffect
    \/ Fail
    \/ Return
    \/ Crash

Spec == Init /\ [][Next]_vars
=============================================================================
