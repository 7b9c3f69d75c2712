--------------------------- MODULE MCBootController ---------------------------
(***************************************************************************)
(* Model checking of the boot controller: images of two units, so that a   *)
(* transfer can stop half way, and both kinds of chunk sequence occur: one *)
(* chunk, and a first chunk followed by another.                           *)
(***************************************************************************)
EXTENDS BootController

MCImages == [linked_slot : AppSlots, image_version : {1, 2}]

(* Release 1 for either slot, release 2 for the second: enough to install,  *)
(* to update and to try a downgrade.                                        *)
MCThreeImages == {image \in MCImages :
                      image.image_version = 1 \/ image.linked_slot = "APP2"}

(* The smallest update: a release for the first slot, its successor for the *)
(* second.                                                                  *)
MCTwoImages == {[linked_slot |-> "APP1", image_version |-> 1],
                [linked_slot |-> "APP2", image_version |-> 2]}

BlankSlot == [image |-> Blank, manifest |-> Blank]

EmptyDevice == [slot \in AppSlots |-> BlankSlot]

ProgrammedDevice(image) ==
    [EmptyDevice EXCEPT ![image.linked_slot] = [image |-> image, manifest |-> image]]

MCFactorySlots == {EmptyDevice} \cup {ProgrammedDevice(image) : image \in Images}

MCEmptyFactory == {EmptyDevice}

MCProgrammedFactory ==
    {ProgrammedDevice([linked_slot |-> "APP1", image_version |-> 1])}

(* Only the order of generations matters to a load: states whose            *)
(* generations differ by a constant are identified.                         *)
BaseGeneration ==
    LET inUse == {pages[p].generation : p \in {q \in Journal!Pages : pages[q].valid}}
    IN  IF inUse = {} THEN write.generation
        ELSE CHOOSE g \in inUse : \A h \in inUse : g <= h

(* So are states that differ in what nothing reads: the reply, and the      *)
(* transfer that is over.                                                   *)
View ==
    <<[p \in Journal!Pages |->
          IF pages[p].valid
          THEN [pages[p] EXCEPT !.generation = @ - BaseGeneration]
          ELSE pages[p]],
      [write EXCEPT !.generation =
          IF write.stage = "none" THEN 0
          ELSE IF @ >= BaseGeneration THEN @ - BaseGeneration ELSE 0],
      slots, phase, call, state, handler, chunk,
      IF Updating THEN transfer ELSE NoTransfer,
      IF state = "RECOVERY" THEN "running" ELSE timer>>
=============================================================================
