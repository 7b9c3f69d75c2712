-------------------------- MODULE MCStatusJournal --------------------------
(***************************************************************************)
(* Model checking of the status journal.  Only the order of generations    *)
(* matters to a load, so states whose generations differ by a constant are *)
(* identified: the view makes the state space finite without a bound on    *)
(* the number of commits.                                                  *)
(***************************************************************************)
EXTENDS StatusJournal

CONSTANTS a, b, c

MCContents == {a, b, c}

(* The smallest generation in use; the generation of an invalid page is 0. *)
BaseGeneration ==
    LET inUse == {pages[p].generation : p \in {q \in Pages : pages[q].valid}}
    IN  IF inUse = {} THEN write.generation
        ELSE CHOOSE g \in inUse : \A h \in inUse : g <= h

RelativeGenerations ==
    <<[p \in Pages |-> IF pages[p].valid
                       THEN [pages[p] EXCEPT !.generation = @ - BaseGeneration]
                       ELSE pages[p]],
      [write EXCEPT !.generation = IF Writing THEN @ - BaseGeneration ELSE 0]>>
=============================================================================
