---------------------------- MODULE MCTrialHistory ----------------------------
(***************************************************************************)
(* The secure boot policy with a history: how often an image that was put  *)
(* on trial has got control since, as long as it stays in its slot and is  *)
(* not confirmed.                                                          *)
(***************************************************************************)
EXTENDS MCSecureBoot

VARIABLE trialBoots   \* boots of every slot whose image was put on trial

TriedSlots ==
    {slot \in AppSlots :
        /\ slot \in DOMAIN trialBoots \/ Status'.trial_slot = slot
        /\ Status'.confirmed_slot # slot
        /\ slots'[slot] = slots[slot]}

CountTrialBoots ==
    trialBoots' = [slot \in TriedSlots |->
        (IF slot \in DOMAIN trialBoots THEN trialBoots[slot] ELSE 0)
            + (IF phase' = slot /\ phase # slot THEN 1 ELSE 0)]

HistorySpec ==
    /\ Init
    /\ trialBoots = [slot \in {} |-> 0]
    /\ [][Next /\ CountTrialBoots]_<<vars, trialBoots>>

HistoryView == <<RelativeGenerations, trialBoots>>

(* README: a trial image can boot only SECURE_BOOT_TRIAL_BOOT_LIMIT times.  *)
(* The fallback starts it again when no image has been confirmed.           *)
TrialBootsAreLimited ==
    \A slot \in DOMAIN trialBoots : trialBoots[slot] <= TrialBootLimit
=============================================================================
