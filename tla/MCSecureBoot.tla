---------------------------- MODULE MCSecureBoot ----------------------------
(***************************************************************************)
(* Model checking of the secure boot policy: two releases of the           *)
(* application, each built for either slot, and devices that leave the     *)
(* factory empty or with one release programmed by a debugger.             *)
(***************************************************************************)
EXTENDS SecureBoot

MCImages == [linked_slot : AppSlots, image_version : {1, 2}]

BlankSlot == [image |-> Blank, manifest |-> Blank]

EmptyDevice == [slot \in AppSlots |-> BlankSlot]

ProgrammedDevice(image) ==
    [EmptyDevice EXCEPT ![image.linked_slot] = [image |-> image, manifest |-> image]]

MCFactorySlots == {EmptyDevice} \cup {ProgrammedDevice(image) : image \in MCImages}

MCEmptyFactory == {EmptyDevice}

(* Only the order of generations matters to a load: states whose            *)
(* generations differ by a constant are identified.                         *)
BaseGeneration ==
    LET inUse == {pages[p].generation : p \in {q \in Journal!Pages : pages[q].valid}}
    IN  IF inUse = {} THEN write.generation
        ELSE CHOOSE g \in inUse : \A h \in inUse : g <= h

RelativeGenerations ==
    <<[p \in Journal!Pages |->
          IF pages[p].valid
          THEN [pages[p] EXCEPT !.generation = @ - BaseGeneration]
          ELSE pages[p]],
      [write EXCEPT !.generation =
          IF write.stage = "none" THEN 0
          ELSE IF @ >= BaseGeneration THEN @ - BaseGeneration ELSE 0],
      slots, phase, call, target>>
=============================================================================
