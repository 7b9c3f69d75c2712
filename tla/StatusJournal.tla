---------------------------- MODULE StatusJournal ----------------------------
(***************************************************************************)
(* The persistent boot status: two Flash pages, each able to hold one      *)
(* record with a generation number and a CRC.  A load takes the valid      *)
(* record with the higher generation; a commit erases and programs the     *)
(* page the load did not take (secure_boot_load_status,                    *)
(* secure_boot_commit_status, boot_flash_write_status_page).               *)
(*                                                                         *)
(* A page is "valid" when magic, version, size and CRC all match; a page   *)
(* whose erase or programming was cut short is simply not valid, so the    *)
(* bytes of a record are left out and so is its CRC.  Generations are      *)
(* natural numbers: the 32-bit counter would need more commits than the    *)
(* Flash cells endure to wrap.                                             *)
(***************************************************************************)
EXTENDS Naturals

CONSTANTS
    Contents,         \* the fields of a record other than its generation
    DefaultContents   \* secure_boot_default_status

ASSUME DefaultAssumption == DefaultContents \in Contents

VARIABLES
    pages,   \* the two status pages
    write    \* the secure_boot_commit_status call in progress

vars == <<pages, write>>

Pages == {"PRIMARY", "BACKUP"}

(* A page no load accepts: erased, half erased or half programmed. *)
ErasedPage == [valid |-> FALSE, generation |-> 0, contents |-> DefaultContents]

(* `source` is the page the caller loaded its record from. *)
NoWrite == [stage |-> "none", source |-> "NONE", generation |-> 0,
            contents |-> DefaultContents]

PageRecord == [valid : BOOLEAN, generation : Nat, contents : Contents]

WriteRecord == [stage : {"none", "erase", "program", "done", "failed"},
                source : Pages \cup {"NONE"},
                generation : Nat,
                contents : Contents]

TypeOK ==
    /\ pages \in [Pages -> PageRecord]
    /\ write \in WriteRecord

-----------------------------------------------------------------------------
(* secure_boot_load_status: which record wins, and what it says. *)

(* Mutant of Source: the primary page wins whenever it is valid. *)
SourcePrimaryFirst ==
    IF pages["PRIMARY"].valid THEN "PRIMARY"
    ELSE IF pages["BACKUP"].valid THEN "BACKUP" ELSE "NONE"

Source ==
    IF /\ pages["PRIMARY"].valid
       /\ \/ ~pages["BACKUP"].valid
          \/ pages["PRIMARY"].generation >= pages["BACKUP"].generation
    THEN "PRIMARY"
    ELSE IF pages["BACKUP"].valid THEN "BACKUP" ELSE "NONE"

Status == IF Source = "NONE" THEN DefaultContents ELSE pages[Source].contents

Generation == IF Source = "NONE" THEN 0 ELSE pages[Source].generation

(* Mutant of CommitPage: the record is rewritten where it was found. *)
CommitPageInPlace(source) == IF source = "PRIMARY" THEN "PRIMARY" ELSE "BACKUP"

(* The page a commit overwrites, given the page the record came from. *)
CommitPage(source) == IF source = "PRIMARY" THEN "BACKUP" ELSE "PRIMARY"

Writing == write.stage \in {"erase", "program"}

-----------------------------------------------------------------------------
Init ==
    /\ pages = [p \in Pages |-> ErasedPage]
    /\ write = NoWrite

(* Mutant of CommitFrom: the generation counts down. *)
CommitFromDown(contents, generation, source) ==
    /\ write' = [stage |-> "erase", source |-> source,
                 generation |-> generation - 1, contents |-> contents]
    /\ UNCHANGED pages

(* secure_boot_commit_status(status, source) begins; generation is the one  *)
(* in the caller's copy of the record, which the call increments.           *)
CommitFrom(contents, generation, source) ==
    /\ write' = [stage |-> "erase", source |-> source,
                 generation |-> generation + 1, contents |-> contents]
    /\ UNCHANGED pages

(* The usual caller has just loaded the record it changes. *)
CommitStatus(contents) ==
    /\ write.stage = "none"
    /\ CommitFrom(contents, Generation, Source)

(* Mutant of EraseStatusPage: the record is programmed over the old one. *)
EraseStatusPageSkipped ==
    /\ write.stage = "erase"
    /\ write' = [write EXCEPT !.stage = "program"]
    /\ UNCHANGED pages

EraseStatusPage ==
    /\ write.stage = "erase"
    /\ pages' = [pages EXCEPT ![CommitPage(write.source)] = ErasedPage]
    /\ write' = [write EXCEPT !.stage = "program"]

(* The last half-word, which completes the CRC, makes the record valid. *)
ProgramStatusPage ==
    /\ write.stage = "program"
    /\ pages' = [pages EXCEPT ![CommitPage(write.source)] =
                    [valid |-> TRUE, generation |-> write.generation,
                     contents |-> write.contents]]
    /\ write' = [write EXCEPT !.stage = "done"]

(* The Flash driver reports an error: before the page is touched, or        *)
(* between its erase and its last half-word.                                *)
StatusWriteFails ==
    /\ Writing
    /\ write' = [write EXCEPT !.stage = "failed"]
    /\ UNCHANGED pages

(* The caller consumes SECURE_BOOT_OK or SECURE_BOOT_ERROR_FLASH. *)
Return ==
    /\ write.stage \in {"done", "failed"}
    /\ write' = NoWrite
    /\ UNCHANGED pages

(* RAM is lost, the pages stay as they are. *)
PowerLoss ==
    /\ write' = NoWrite
    /\ UNCHANGED pages

Next ==
    \/ \E contents \in Contents : CommitStatus(contents)
    \/ EraseStatusPage
    \/ ProgramStatusPage
    \/ StatusWriteFails
    \/ Return
    \/ PowerLoss

Spec == Init /\ [][Next]_vars

-----------------------------------------------------------------------------
(* A commit in progress never targets the record a load would return, and  *)
(* its record will win the next load.                                       *)
WriteSparesSource ==
    Writing =>
        /\ write.source = Source
        /\ write.generation = Generation + 1
        /\ write.stage = "program" => ~pages[CommitPage(Source)].valid

(* The generation a load returns never goes back, whatever power losses and *)
(* Flash errors hit the commits (secure_boot.h:120 calls it monotonic).     *)
GenerationNeverDecreases == [][Generation' >= Generation]_vars

(* The register the callers believe in: the pages decide its contents, the  *)
(* two Flash steps of a commit are one pending request.                     *)
Register == INSTANCE StatusRegister WITH
    current <- Status,
    request <- [stage |-> IF Writing THEN "pending" ELSE write.stage,
                contents |-> write.contents]

(* Every commit is atomic: the journal implements the register. *)
ImplementsRegister == Register!Spec
=============================================================================
