------------------------ MODULE StatusJournalProofs ------------------------
(***************************************************************************)
(* The status journal is crash-atomic for every set of contents and every  *)
(* number of commits.  The inductive invariant is JournalInv: types, and   *)
(* the fact that a commit in progress writes the page a load does not take *)
(* under a generation that will win.                                       *)
(***************************************************************************)
EXTENDS StatusJournal, TLAPS

JournalInv == TypeOK /\ WriteSparesSource

(* A load takes one of the two pages or none, whatever they hold. *)
LEMMA SourceType ==
    ASSUME pages \in [Pages -> PageRecord]
    PROVE  /\ Source \in Pages \cup {"NONE"}
           /\ Generation \in Nat
           /\ Status \in Contents
BY DefaultAssumption DEF Source, Generation, Status, Pages, PageRecord

(* Types of the initial state. *)
LEMMA InitType == Init => TypeOK
BY DefaultAssumption
DEF Init, TypeOK, Pages, PageRecord, WriteRecord, ErasedPage, NoWrite

(* Types are preserved by every step. *)
LEMMA NextType == TypeOK /\ [Next]_vars => TypeOK'
<1> SUFFICES ASSUME TypeOK, [Next]_vars
             PROVE  TypeOK'
    OBVIOUS
<1> USE DefaultAssumption DEF TypeOK
<1>1. ASSUME NEW contents \in Contents, CommitStatus(contents)
      PROVE  TypeOK'
    BY <1>1, SourceType DEF CommitStatus, CommitFrom, WriteRecord
<1>2. CASE EraseStatusPage
    BY <1>2 DEF EraseStatusPage, CommitPage, ErasedPage, Pages, PageRecord, WriteRecord
<1>3. CASE ProgramStatusPage
    BY <1>3 DEF ProgramStatusPage, CommitPage, Pages, PageRecord, WriteRecord
<1>4. CASE StatusWriteFails
    BY <1>4 DEF StatusWriteFails, WriteRecord
<1>5. CASE Return
    BY <1>5 DEF Return, NoWrite, WriteRecord
<1>6. CASE PowerLoss
    BY <1>6 DEF PowerLoss, NoWrite, WriteRecord
<1>7. CASE UNCHANGED vars
    BY <1>7 DEF vars
<1> QED BY <1>1, <1>2, <1>3, <1>4, <1>5, <1>6, <1>7 DEF Next

(* The fields of pages and write always have their types. *)
THEOREM TypeCorrect == Spec => []TypeOK
BY InitType, NextType, PTL DEF Spec

-----------------------------------------------------------------------------
(* The three steps on the pages, seen through a load: they do not depend on *)
(* the caller being the one of this module.                                 *)

(* Erasing the page a load does not take does not change what it returns. *)
LEMMA EraseKeepsLoad ==
    ASSUME TypeOK, write.source = Source, EraseStatusPage
    PROVE  /\ Source' = Source
           /\ Status' = Status
           /\ Generation' = Generation
           /\ ~pages'[CommitPage(Source)].valid
<1>1. pages' = [pages EXCEPT ![CommitPage(Source)] = ErasedPage]
  BY DEF EraseStatusPage
<1>2. ~pages'[CommitPage(Source)].valid
  BY <1>1 DEF TypeOK, Source, CommitPage, ErasedPage, Pages
<1>3. Source' = Source
  BY <1>1 DEF TypeOK, Source, CommitPage, ErasedPage, Pages, PageRecord
<1>4. Source # "NONE" => pages'[Source] = pages[Source]
  BY <1>1 DEF TypeOK, Source, CommitPage, Pages
<1> QED BY <1>2, <1>3, <1>4 DEF Status, Generation

(* Completing a record with the next generation makes it the one loaded. *)
LEMMA ProgramTakesEffect ==
    ASSUME TypeOK, WriteSparesSource, ProgramStatusPage
    PROVE  /\ Source' = CommitPage(write.source)
           /\ Status' = write.contents
           /\ Generation' = Generation + 1
<1>1. /\ write.source = Source
      /\ write.generation = Generation + 1
      /\ ~pages[CommitPage(Source)].valid
    BY DEF WriteSparesSource, ProgramStatusPage, Writing
<1>2. pages' = [pages EXCEPT ![CommitPage(Source)] =
                    [valid |-> TRUE, generation |-> Generation + 1,
                     contents |-> write.contents]]
    BY <1>1 DEF ProgramStatusPage
<1> DEFINE page == CommitPage(Source)
<1>3. page \in Pages /\ Source # page /\ Source \in Pages \cup {"NONE"}
    BY DEF Source, CommitPage, Pages
<1>4. /\ pages'[page].valid
      /\ pages'[page].generation = Generation + 1
      /\ pages'[page].contents = write.contents
      /\ \A p \in Pages : p # page => pages'[p] = pages[p]
    BY <1>2, <1>3 DEF TypeOK
<1>5. \A p \in Pages : p # page /\ pages[p].valid => p = Source
    BY <1>1 DEF Source, CommitPage, Pages
<1>6. Generation \in Nat /\ \A p \in Pages : pages[p].generation \in Nat
    BY SourceType DEF TypeOK, PageRecord
<1>7. \A p \in Pages :
          p # page /\ pages'[p].valid => pages'[p].generation < Generation + 1
    <2>1. Source # "NONE" => pages[Source].generation = Generation
        BY DEF Generation
    <2> QED BY <1>4, <1>5, <1>6, <2>1 DEF Source, Pages
<1> HIDE DEF page
<1>8. Source' = page
    BY <1>3, <1>4, <1>6, <1>7 DEF Source, Pages
<1>9. Source' # "NONE"
    BY <1>3, <1>8 DEF Pages
<1>10. Status' = pages'[page].contents /\ Generation' = pages'[page].generation
    BY <1>8, <1>9 DEF Status, Generation
<1> QED BY <1>1, <1>4, <1>8, <1>10 DEF page

(* A commit in progress keeps sparing the record a load returns. *)
LEMMA NextSparesSource == JournalInv /\ [Next]_vars => WriteSparesSource'
<1> SUFFICES ASSUME TypeOK, WriteSparesSource, [Next]_vars
             PROVE  WriteSparesSource'
    BY DEF JournalInv
<1>1. ASSUME NEW contents \in Contents, CommitStatus(contents)
      PROVE  WriteSparesSource'
    BY <1>1 DEF CommitStatus, CommitFrom, WriteSparesSource, Writing, Source,
                Generation
<1>2. CASE EraseStatusPage
    <2>1. /\ write.stage = "erase"
          /\ write.source = Source
          /\ write.generation = Generation + 1
        BY <1>2 DEF EraseStatusPage, WriteSparesSource, Writing
    <2>2. /\ write'.source = Source
          /\ write'.generation = Generation + 1
        BY <1>2, <2>1 DEF EraseStatusPage, TypeOK, WriteRecord
    <2> QED BY <1>2, <2>1, <2>2, EraseKeepsLoad DEF WriteSparesSource
<1>3. CASE ProgramStatusPage
    BY <1>3 DEF ProgramStatusPage, WriteSparesSource, Writing, TypeOK, WriteRecord
<1>4. CASE StatusWriteFails
    BY <1>4 DEF StatusWriteFails, WriteSparesSource, Writing, TypeOK, WriteRecord
<1>5. CASE Return
    BY <1>5 DEF Return, NoWrite, WriteSparesSource, Writing
<1>6. CASE PowerLoss
    BY <1>6 DEF PowerLoss, NoWrite, WriteSparesSource, Writing
<1>7. CASE UNCHANGED vars
    BY <1>7 DEF vars, WriteSparesSource, Writing, Source, Generation
<1> QED BY <1>1, <1>2, <1>3, <1>4, <1>5, <1>6, <1>7 DEF Next

(* JournalInv is inductive. *)
LEMMA JournalInvariant == Spec => []JournalInv
<1>1. Init => JournalInv
    BY InitType DEF Init, NoWrite, WriteSparesSource, Writing, JournalInv
<1>2. JournalInv /\ [Next]_vars => JournalInv'
    BY NextType, NextSparesSource DEF JournalInv
<1> QED BY <1>1, <1>2, PTL DEF Spec

(* No commit, finished or cut short, destroys the record a load returns     *)
(* before its own record is complete.                                       *)
THEOREM SourceSpared == Spec => []WriteSparesSource
BY JournalInvariant, PTL DEF JournalInv

-----------------------------------------------------------------------------
(* What every step does to a load: nothing, or it installs the pending      *)
(* contents under the next generation.                                      *)
LEMMA StepAsLoad ==
    ASSUME JournalInv, [Next]_vars, ~ProgramStatusPage
    PROVE  Status' = Status /\ Generation' = Generation
<1> USE DEF JournalInv
<1>1. CASE EraseStatusPage
    BY <1>1, EraseKeepsLoad DEF EraseStatusPage, WriteSparesSource, Writing
<1>2. CASE UNCHANGED pages
    BY <1>2 DEF Status, Generation, Source
<1> QED BY <1>1, <1>2
    DEF Next, CommitStatus, CommitFrom, StatusWriteFails, Return, PowerLoss, vars

(* The generation a load returns never goes back. *)
THEOREM GenerationMonotone == Spec => GenerationNeverDecreases
<1>1. JournalInv /\ [Next]_vars => [Generation' >= Generation]_vars
    <2> SUFFICES ASSUME JournalInv, [Next]_vars
                 PROVE  Generation' >= Generation
        OBVIOUS
    <2>1. Generation \in Nat
        BY SourceType DEF JournalInv, TypeOK
    <2>2. CASE ProgramStatusPage
        BY <2>1, <2>2, ProgramTakesEffect DEF JournalInv
    <2>3. CASE ~ProgramStatusPage
        BY <2>1, <2>3, StepAsLoad
    <2> QED BY <2>2, <2>3
<1> QED BY <1>1, JournalInvariant, PTL DEF Spec, GenerationNeverDecreases

-----------------------------------------------------------------------------
(* The journal implements the register: erasing a page is a stutter,        *)
(* completing a record is where the commit takes effect.                    *)
THEOREM JournalImplementsRegister == Spec => ImplementsRegister
<1>1. Init => Register!Init
    BY DEF Init, NoWrite, ErasedPage, Pages, Source, Status, Writing,
           Register!Init, Register!NoRequest
<1>2. JournalInv /\ [Next]_vars => [Register!Next]_(Register!vars)
    <2> SUFFICES ASSUME JournalInv, [Next]_vars
                 PROVE  [Register!Next]_(Register!vars)
        OBVIOUS
    <2> USE DEF Writing
    <2>1. ASSUME NEW contents \in Contents, CommitStatus(contents)
          PROVE  Register!Commit(contents)
        <3>1. Status' = Status
            BY <2>1 DEF CommitStatus, CommitFrom, Status, Source
        <3> QED BY <2>1, <3>1
            DEF CommitStatus, CommitFrom, Register!Commit
    <2>2. CASE EraseStatusPage
        <3>1. Status' = Status
            BY <2>2, StepAsLoad DEF EraseStatusPage, ProgramStatusPage
        <3>2. /\ write.stage = "erase"
              /\ write'.stage = "program"
              /\ write'.contents = write.contents
            BY <2>2 DEF EraseStatusPage, JournalInv, TypeOK, WriteRecord
        <3> QED BY <3>1, <3>2 DEF Register!vars
    <2>3. CASE ProgramStatusPage
        <3>1. Status' = write.contents
            BY <2>3, ProgramTakesEffect DEF JournalInv
        <3>2. /\ write.stage = "program"
              /\ write'.stage = "done"
              /\ write'.contents = write.contents
            BY <2>3 DEF ProgramStatusPage, JournalInv, TypeOK, WriteRecord
        <3> QED BY <3>1, <3>2 DEF Register!TakeEffect, Register!Next
    <2>4. CASE StatusWriteFails
        <3>1. Status' = Status
            BY <2>4 DEF StatusWriteFails, Status, Source
        <3>2. /\ write.stage \in {"erase", "program"}
              /\ write'.stage = "failed"
              /\ write'.contents = write.contents
            BY <2>4 DEF StatusWriteFails, JournalInv, TypeOK, WriteRecord
        <3> QED BY <3>1, <3>2 DEF Register!Fail, Register!Next
    <2>5. CASE Return
        <3>1. Status' = Status
            BY <2>5 DEF Return, Status, Source
        <3> QED BY <2>5, <3>1
            DEF Return, NoWrite, Register!Return, Register!NoRequest, Register!Next
    <2>6. CASE PowerLoss
        <3>1. Status' = Status
            BY <2>6 DEF PowerLoss, Status, Source
        <3> QED BY <2>6, <3>1
            DEF PowerLoss, NoWrite, Register!Crash, Register!NoRequest, Register!Next
    <2>7. CASE UNCHANGED vars
        BY <2>7 DEF vars, Status, Source, Register!vars
    <2> QED BY <2>1, <2>2, <2>3, <2>4, <2>5, <2>6, <2>7 DEF Next, Register!Next
<1> QED BY <1>1, <1>2, JournalInvariant, PTL
    DEF Spec, ImplementsRegister, Register!Spec
=============================================================================
