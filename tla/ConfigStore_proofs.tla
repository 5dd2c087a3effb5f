------------------------- MODULE ConfigStore_proofs -------------------------
(***************************************************************************)
(* Proofs about ConfigStore for any settings, certificates, number of      *)
(* double words, of retries and of commands in a round, with and without   *)
(* the PREV_BANK pin: the type invariant, that no torn record is accepted, *)
(* that the bank the device will start from is whole, that the stored      *)
(* length is the certificate's, what a failed save leaves, and that the    *)
(* store implements the cell of ConfigCell.                                *)
(***************************************************************************)
EXTENDS ConfigStore, TLAPS

\* What the actions assign lies within the types.
LEMMA Values ==
  /\ 1 \in Words /\ DataWord \in Words /\ NWords \in Words
  /\ 0 \in 0 .. MaxRetry /\ 0 \in 0 .. MaxCmd /\ MaxCmd \in 0 .. MaxCmd
  /\ Erased \in Record /\ Zero \in Record /\ Zero.bank \in Bank
  /\ Blank \in [Words -> Record]
  /\ \A r \in Record : Factory(r) \in Record /\ Factory(r).bank \in Bank
  /\ \A r \in Record : r.bank \in Bank => r # Erased /\ Factory(r).bank = r.bank
  /\ \A r \in Record : Factory(r).len = r.len
<1>1. /\ 1 \in Words /\ DataWord \in Words /\ NWords \in Words
      /\ 0 \in 0 .. MaxRetry /\ 0 \in 0 .. MaxCmd /\ MaxCmd \in 0 .. MaxCmd
  BY StoreAssumption DEF StoreAssumption, Words, DataWord
<1>2. Erased \in Record /\ Zero \in Record /\ Zero.bank \in Bank
  BY DEF Erased, Zero, Record, Bank
<1>3. Blank \in [Words -> Record]
  BY <1>2 DEF Blank
<1>4. \A r \in Record : /\ Factory(r) \in Record /\ Factory(r).bank \in Bank
                        /\ Factory(r).len = r.len
                        /\ r.bank \in Bank => Factory(r).bank = r.bank
  BY StoreAssumption DEF StoreAssumption, Factory, Record, Bank
<1>5. \A r \in Record : r.bank \in Bank => r # Erased
  BY DEF Erased, Bank, AllOnes
<1>6. QED
  BY <1>1, <1>2, <1>3, <1>4, <1>5

-----------------------------------------------------------------------------
(* Types                                                                   *)

\* current_bank in RAM is always a bank: only a page read back can hold none.
RamBank == ram.bank \in Bank

\* Who is writing, by the place of the program.
JobInv ==
  /\ pc \in {"erase", "write", "compare"} => job # "none"
  /\ job # "none" => \/ pc \in {"erase", "write", "compare", "eraseCert", "writeCert"}
                     \/ job = "load" /\ pc = "reset"
  /\ IsSave => pc \in {"erase", "write", "compare"}
  /\ pc = "compare" => IsSave
  /\ pc \in {"eraseCert", "writeCert"} => job = "upload"
  /\ job = "upload" => ram.len \in Cert
  /\ at # 1 => pc = "write"

TypeInv == TypeOK /\ RamBank /\ JobInv

\* Every action keeps the types and what is known of the writer.
LEMMA TypeInductive == TypeInv /\ [Next]_vars => TypeInv'
<1> USE DEF TypeInv, TypeOK, RamBank, JobInv, IsSave, flash, round, writer, hist
<1>1. TypeInv /\ UNCHANGED vars => TypeInv'
  BY DEF vars
<1> USE Values
<1>2. ASSUME TypeInv, Flash PROVE TypeInv'
  <2>1. CASE EraseConfig
    BY <1>2, <2>1 DEF EraseConfig
  <2>2. CASE ProgramWord
    <3>1. page' \in [Words -> Record]
      BY <1>2, <2>2 DEF ProgramWord, Content
    <3>2. at' \in Words /\ irqOff' \in BOOLEAN
      <4>1. CASE MoreWords
        <5>1. at + 1 \in Words
          BY <1>2, <4>1, StoreAssumption DEF MoreWords, Words, StoreAssumption
        <5>2. at' = at + 1 /\ irqOff' = irqOff
          BY <2>2, <4>1 DEF ProgramWord
        <5>3. QED
          BY <1>2, <5>1, <5>2
      <4>2. CASE ~MoreWords
        BY <2>2, <4>2 DEF ProgramWord
      <4>3. QED
        BY <4>1, <4>2
    <3>3. \/ pc' = "write"
          \/ pc' = AfterWrite /\ at' = 1
      BY <1>2, <2>2 DEF ProgramWord
    <3>4. QED
      BY <1>2, <2>2, <3>1, <3>2, <3>3 DEF ProgramWord, AfterWrite
  <2>3. CASE ProgramRefused
    BY <1>2, <2>3 DEF ProgramRefused, GiveUpWriting, AfterWrite
  <2>4. CASE Compare
    <3>1. retry' \in 0 .. MaxRetry
      BY <1>2, <2>4, StoreAssumption DEF Compare, StoreAssumption
    <3>2. \/ pc' = "write" /\ job' = job
          \/ pc' \in {"fwup", "reset"} /\ job' = "none"
      BY <1>2, <2>4 DEF Compare, AfterSave
    <3>3. QED
      BY <1>2, <2>4, <3>1, <3>2 DEF Compare
  <2>5. CASE EraseCert
    BY <1>2, <2>5 DEF EraseCert
  <2>6. CASE WriteCert
    <3>1. pc' = "command" /\ job' = "none"
      BY <1>2, <2>6 DEF WriteCert
    <3>2. cert' \in Cert \cup {AllOnes}
      BY <1>2, <2>6 DEF WriteCert, CertCutOff, CertText
    <3>3. irqOff' \in BOOLEAN /\ pairing' \in {"good", "refused", "apart"}
      BY <1>2, <2>6 DEF WriteCert
    <3>4. QED
      BY <1>2, <2>6, <3>1, <3>2, <3>3 DEF WriteCert
  <2>7. QED
    BY <1>2, <2>1, <2>2, <2>3, <2>4, <2>5, <2>6 DEF Flash
<1>3. ASSUME TypeInv, Start PROVE TypeInv'
  <2>1. CASE Reset
    BY <1>3, <2>1 DEF Reset, ResetTo
  <2>2. CASE Boot
    <3>1. running' \in Bank /\ pinUsed' \in BOOLEAN
      BY <1>3, <2>2, StoreAssumption DEF Boot, Bank, StoreAssumption
    <3>2. pc' \in {"load", "dead"}
      BY <2>2 DEF Boot
    <3>3. QED
      BY <1>3, <2>2, <3>1, <3>2 DEF Boot
  <2>3. CASE Load
    <3>1. ram' \in Record /\ ram'.bank \in Bank
      BY <1>3, <2>3 DEF Load, Record
    <3>2. QED
      BY <1>3, <2>3, <3>1 DEF Load
  <2>4. CASE LoadFactory
    BY <1>3, <2>4 DEF LoadFactory, StartWriter
  <2>5. QED
    BY <1>3, <2>1, <2>2, <2>3, <2>4 DEF Start
<1>l. ASSUME TypeInv, LinkUp PROVE TypeInv'
  BY <1>l DEF LinkUp
<1>4. ASSUME TypeInv, Segcp PROVE TypeInv'
  <2>1. CASE Round
    <3>1. pc' \in {"command", "wait", "reset"}
          /\ left' \in 0 .. MaxCmd /\ wdt' \in BOOLEAN
      BY <1>4, <2>1 DEF Round
    <3>2. QED
      BY <1>4, <2>1, <3>1 DEF Round
  <2>2. CASE Handle
    <3>1. CASE HandleNothing
      BY <1>4, <3>1 DEF HandleNothing, MessagesRead
    <3>2. CASE HandleFactory
      BY <1>4, <3>2 DEF HandleFactory, Answered, MessagesRead, StartWriter
    <3>3. CASE HandleSave
      BY <1>4, <3>3 DEF HandleSave, Answered, MessagesRead, StartWriter
    <3>4. CASE HandleErase
      BY <1>4, <3>4 DEF HandleErase, Answered, MessagesRead
    <3>5. CASE HandleOther
      BY <1>4, <3>5 DEF HandleOther, Answered, MessagesRead
    <3>6. QED
      BY <2>2, <3>1, <3>2, <3>3, <3>4, <3>5 DEF Handle
  <2>3. CASE Fwup
    <3>1. banks' \in [Bank -> {"image", "partial", "joined"}]
      BY <1>4, <2>3 DEF Fwup
    <3>2. QED
      BY <1>4, <2>3, <3>1 DEF Fwup, EndHandler
  <2>4. QED
    BY <1>4, <2>1, <2>2, <2>3 DEF Segcp
<1>5. ASSUME TypeInv, Commands PROVE TypeInv'
  <2>1. CASE Request
    <3>1. PICK bits \in SUBSET Bits : Answer(bits)
      BY <2>1 DEF Request, Bits
    <3>2. left' \in 0 .. MaxCmd
      BY <1>5, <3>1 DEF Answer
    <3>3. QED
      BY <1>5, <3>1, <3>2 DEF Answer
  <2>2. CASE SetCommand
    <3>1. left' \in 0 .. MaxCmd
      BY <1>5, <2>2 DEF SetCommand
    <3>2. ram' \in Record /\ ram'.bank \in Bank
      BY <1>5, <2>2 DEF SetCommand, Record
    <3>3. QED
      BY <1>5, <2>2, <3>1, <3>2 DEF SetCommand
  <2>3. CASE UploadRefused
    <3>1. left' \in 0 .. MaxCmd
      BY <1>5, <2>3 DEF UploadRefused
    <3>2. ram' \in Record /\ ram'.bank \in Bank
      BY <1>5, <2>3 DEF UploadRefused, Record
    <3>3. word' \subseteq Bits
      BY <1>5, <2>3 DEF UploadRefused, Bits
    <3>4. QED
      BY <1>5, <2>3, <3>1, <3>2, <3>3 DEF UploadRefused
  <2>4. CASE UploadAccepted
    <3>1. left' \in 0 .. MaxCmd
      BY <1>5, <2>4 DEF UploadAccepted
    <3>2. ram' \in Record /\ ram'.bank \in Bank /\ ram'.len \in Cert
      BY <1>5, <2>4 DEF UploadAccepted, Record
    <3>3. QED
      BY <1>5, <2>4, <3>1, <3>2 DEF UploadAccepted, StartWriter
  <2>5. CASE LineFeed
    BY <1>5, <2>5 DEF LineFeed
  <2>6. QED
    BY <1>5, <2>1, <2>2, <2>3, <2>4, <2>5 DEF Commands
<1>6. ASSUME TypeInv, DownloadDone \/ DownloadFails PROVE TypeInv'
  <2>1. CASE DownloadDone
    <3>1. ram' \in Record /\ ram'.bank \in Bank
      <4>1. 1 - ram.bank \in Bank
        BY <1>6 DEF Bank
      <4>2. QED
        BY <1>6, <2>1, <4>1 DEF DownloadDone, Record
    <3>2. banks' \in [Bank -> {"image", "partial", "joined"}]
      BY <1>6, <2>1 DEF DownloadDone, Downloaded
    <3>3. QED
      BY <1>6, <2>1, <3>1, <3>2 DEF DownloadDone, StartWriter
  <2>2. CASE DownloadFails
    BY <1>6, <2>2 DEF DownloadFails, EndHandler
  <2>3. QED
    BY <1>6, <2>1, <2>2
<1>7. ASSUME TypeInv, ButtonDown \/ ButtonUp \/ Trigger \/ FactoryISR
      PROVE  TypeInv'
  <2>1. CASE ButtonDown \/ ButtonUp \/ Trigger
    <3>1. CASE ButtonDown
      BY <1>7, <3>1 DEF ButtonDown
    <3>2. CASE ButtonUp
      <4>1. factoryFlag' \in BOOLEAN
        BY <3>2 DEF ButtonUp
      <4>2. /\ UNCHANGED <<ram, running, pc, opmode, irqOff, wdt>>
            /\ UNCHANGED flash /\ UNCHANGED writer /\ UNCHANGED round
            /\ UNCHANGED hist
        BY <3>2 DEF ButtonUp
      <4>3. QED
        BY <1>7, <4>1, <4>2
    <3>3. CASE Trigger
      BY <1>7, <3>3 DEF Trigger
    <3>4. QED
      BY <2>1, <3>1, <3>2, <3>3
  <2>2. CASE FactoryISR
    BY <1>7, <2>2 DEF FactoryISR, StartWriter
  <2>3. QED
    BY <1>7, <2>1, <2>2
<1>8. ASSUME TypeInv, Fault \/ Watchdog PROVE TypeInv'
  <2>1. CASE PowerLoss \/ Watchdog
    <3>1. cert' \in Cert \cup {AllOnes}
      BY <1>8, <2>1 DEF PowerLoss, Watchdog, CertCutOff, CertText
    <3>2. QED
      BY <1>8, <2>1, <3>1 DEF PowerLoss, Watchdog, ResetTo
  <2>2. CASE EraseConfigFails \/ EraseCertFails
    BY <1>8, <2>2 DEF EraseConfigFails, EraseCertFails
  <2>3. CASE ProgramFails
    BY <1>8, <2>3 DEF ProgramFails, GiveUpWriting, AfterWrite
  <2>4. QED
    BY <1>8, <2>1, <2>2, <2>3 DEF Fault
<1>9. QED
  BY <1>1, <1>2, <1>3, <1>l, <1>4, <1>5, <1>6, <1>7, <1>8
     DEF Next, Program, Environment

LEMMA TypeInitial == Init => TypeInv
<1> SUFFICES ASSUME Init PROVE TypeInv
  OBVIOUS
<1>1. page \in [Words -> Record]
  <2>1. [set |-> FactorySetting, bank |-> 0, len |-> AllOnes] \in Record
    BY StoreAssumption DEF StoreAssumption, Record, Bank
  <2>2. QED
    BY <2>1 DEF Init
<1>2. banks \in [Bank -> {"image", "partial", "joined"}]
  BY DEF Init
<1>3. RamBank /\ JobInv
  BY Values DEF Init, RamBank, JobInv, IsSave
<1>4. QED
  BY <1>1, <1>2, <1>3, Values DEF Init, TypeInv, TypeOK, Bank

\* The flash, dev_config and the program's place keep their types through every
\* order of commands, resets and flash failures.
THEOREM TypeCorrect == Spec => []TypeOK
<1>1. TypeInv => TypeOK
  BY DEF TypeInv
<1>2. QED
  BY <1>1, TypeInitial, TypeInductive, PTL DEF Spec

-----------------------------------------------------------------------------
(* The page                                                                *)

\* The page is always the beginning of one record; while it is being written,
\* of the one in RAM.
Prefix(n, r) == [w \in Words |-> IF w <= n THEN r ELSE Erased]

Torn(n, r) ==
  /\ r.bank \in Bank /\ page = Prefix(n, r)
  /\ at # 1 => n = at - 1 /\ r = ram

PageInv ==
  /\ \E n \in 0 .. NWords, r \in Record : Torn(n, r)
  /\ pc = "compare" => page = Image(ram) \/ irqOff

\* Only three actions touch the page; no other one moves within write_flash.
LEMMA PageKept ==
  TypeInv /\ [Next]_vars =>
    \/ EraseConfig \/ ProgramWord \/ HandleErase
    \/ page' = page /\ (at' = 1 \/ UNCHANGED <<pc, at, ram>>)
<1> SUFFICES ASSUME TypeInv, [Next]_vars,
                    ~EraseConfig, ~ProgramWord, ~HandleErase
             PROVE  page' = page /\ (at' = 1 \/ UNCHANGED <<pc, at, ram>>)
  OBVIOUS
<1> USE DEF TypeInv, JobInv, flash, round, writer, hist
<1>1. CASE UNCHANGED vars
  BY <1>1 DEF vars
<1>2. CASE Flash
  BY <1>2 DEF Flash, ProgramRefused, GiveUpWriting, Compare, EraseCert, WriteCert
<1>3. CASE Start
  BY <1>3 DEF Start, Reset, ResetTo, Boot, Load, LoadFactory, StartWriter
<1>4. CASE Segcp
  <2>1. CASE Handle
    BY <2>1 DEF Handle, HandleNothing, HandleFactory, HandleSave, HandleOther,
       Answered, MessagesRead, StartWriter
  <2>2. CASE Round \/ Fwup
    BY <2>2 DEF Round, Fwup, EndHandler
  <2>3. QED
    BY <1>4, <2>1, <2>2 DEF Segcp
<1>5. CASE Commands
  <2>1. CASE Request
    <3>1. PICK bits \in SUBSET Bits : Answer(bits)
      BY <2>1 DEF Request, Bits
    <3>2. QED
      BY <3>1 DEF Answer
  <2>2. CASE SetCommand \/ UploadRefused \/ UploadAccepted \/ LineFeed
    BY <2>2 DEF SetCommand, UploadRefused, UploadAccepted, LineFeed, StartWriter
  <2>3. QED
    BY <1>5, <2>1, <2>2 DEF Commands
<1>6. CASE LinkUp \/ DownloadDone \/ DownloadFails \/ ButtonDown \/ ButtonUp
           \/ Trigger \/ FactoryISR
  BY <1>6 DEF LinkUp, DownloadDone, DownloadFails, EndHandler, ButtonDown, ButtonUp,
     Trigger, FactoryISR, StartWriter
<1>7. CASE Fault \/ Watchdog
  BY <1>7 DEF Fault, PowerLoss, Watchdog, ResetTo, EraseConfigFails, ProgramFails,
     GiveUpWriting, EraseCertFails
<1>8. QED
  BY <1>1, <1>2, <1>3, <1>4, <1>5, <1>6, <1>7 DEF Next, Program, Environment

\* Programming a double word lengthens the beginning by one; the last one
\* completes the record in RAM.
LEMMA ProgramPrefix ==
  ASSUME TypeInv, PageInv, ProgramWord
  PROVE  /\ page' = Prefix(at, ram)
         /\ page = Prefix(at - 1, ram)
<1> USE DEF TypeInv, TypeOK, RamBank
<1>1. PICK n \in 0 .. NWords, r \in Record : Torn(n, r)
  BY DEF PageInv
<1>2. page[at] = Erased /\ page' = [page EXCEPT ![at] = ram]
  BY DEF ProgramWord, Content
<1>3. n < at
  <2>1. r # Erased
    BY <1>1, Values DEF Torn
  <2>2. QED
    BY <1>1, <1>2, <2>1 DEF Torn, Prefix, Words
<1>4. at \in Nat /\ at >= 1
  BY StoreAssumption DEF Words, StoreAssumption
<1>5. page = Prefix(at - 1, ram)
  <2>1. CASE at = 1
    <3>1. n = 0
      BY <1>3, <2>1
    <3>2. QED
      BY <1>1, <2>1, <3>1 DEF Torn, Prefix, Words
  <2>2. CASE at # 1
    BY <1>1, <2>2 DEF Torn
  <2>3. QED
    BY <2>1, <2>2
<1>6. page' = Prefix(at, ram)
  <2>1. \A w \in Words : w <= at <=> w = at \/ w <= at - 1
    BY <1>4, StoreAssumption DEF Words, StoreAssumption
  <2>2. \A w \in Words : page[w] = IF w <= at - 1 THEN ram ELSE Erased
    BY <1>5 DEF Prefix
  <2>3. page' = [w \in Words |-> IF w = at THEN ram ELSE page[w]]
    BY <1>2
  <2>4. QED
    BY <2>1, <2>2, <2>3 DEF Prefix
<1>7. QED
  BY <1>5, <1>6

LEMMA PageInductive == TypeInv /\ PageInv /\ [Next]_vars => PageInv'
<1> SUFFICES ASSUME TypeInv, PageInv, [Next]_vars PROVE PageInv'
  OBVIOUS
<1>t. TypeInv'
  BY TypeInductive
<1>1. PICK n \in 0 .. NWords, r \in Record : Torn(n, r)
  BY DEF PageInv
<1>2. ASSUME page' = Blank, at' = 1, pc' # "compare" PROVE PageInv'
  <2>1. Blank = Prefix(0, Zero)
    BY DEF Blank, Prefix, Words
  <2>2. 0 \in 0 .. NWords
    BY StoreAssumption DEF StoreAssumption
  <2>3. Torn(0, Zero)'
    BY <1>2, <2>1, Values DEF Torn
  <2>4. QED
    BY <1>2, <2>2, <2>3, Values DEF PageInv
<1>3. ASSUME page' = page, at' = 1 \/ UNCHANGED <<pc, at, ram>>
      PROVE  \E m \in 0 .. NWords, q \in Record : Torn(m, q)'
  BY <1>1, <1>3 DEF Torn
<1>4. CASE EraseConfig
  <2>1. at' = 1
    BY <1>4 DEF EraseConfig, TypeInv, JobInv, writer
  <2>2. QED
    BY <1>2, <1>4, <2>1 DEF EraseConfig
<1>5. CASE HandleErase
  <2>1. at' = 1 /\ pc' = "fwup" /\ page' \in {page, Blank}
    BY <1>5 DEF HandleErase, Answered, MessagesRead, TypeInv, JobInv, writer
  <2>2. QED
    BY <1>2, <1>3, <2>1 DEF PageInv
<1>6. CASE ProgramWord
  <2>1. page' = Prefix(at, ram) /\ ram' = ram
    BY <1>6, ProgramPrefix DEF ProgramWord
  <2>2. at \in 0 .. NWords /\ at \in Nat
    BY StoreAssumption DEF TypeInv, TypeOK, Words, StoreAssumption
  <2>3. at' # 1 => at' = at + 1
    BY <1>6 DEF ProgramWord
  <2>k. PICK k \in 0 .. NWords, q \in Record : k = at /\ q = ram
    BY <2>2 DEF TypeInv, TypeOK
  <2>4. Torn(k, q)'
    BY <2>1, <2>2, <2>3, <2>k, <1>t DEF Torn, Prefix, TypeInv, RamBank
  <2>5. pc' = "compare" => page' = Image(ram)'
    <3>1. pc' = "compare" => at = NWords
      BY <1>6, <2>2, StoreAssumption
         DEF ProgramWord, MoreWords, TypeInv, TypeOK, Words, StoreAssumption
    <3>2. Prefix(NWords, ram) = Image(ram)
      BY DEF Prefix, Image, Words
    <3>3. QED
      BY <2>1, <3>1, <3>2 DEF Image
  <2>6. QED
    BY <2>4, <2>5 DEF PageInv
<1>7. CASE page' = page /\ (at' = 1 \/ UNCHANGED <<pc, at, ram>>)
           /\ ~EraseConfig /\ ~ProgramWord /\ ~HandleErase
  <2>1. pc' = "compare" => page' = Image(ram)' \/ irqOff'
    <3> USE DEF TypeInv, JobInv, flash, round, writer, hist
    <3> SUFFICES ASSUME pc' = "compare"
                 PROVE  irqOff' \/ UNCHANGED <<pc, ram, irqOff>>
      BY <1>7 DEF PageInv, Image
    <3>1. CASE UNCHANGED vars
      BY <3>1 DEF vars
    <3>2. CASE Flash
      BY <3>2, <1>7 DEF Flash, ProgramRefused, GiveUpWriting, Compare, AfterSave,
         EraseCert, WriteCert
    <3>3. CASE Start
      BY <3>3 DEF Start, Reset, ResetTo, Boot, Load, LoadFactory, StartWriter
    <3>4. CASE Segcp
      BY <3>4, <1>7 DEF Segcp, Round, Handle, HandleNothing, HandleFactory,
         HandleSave, HandleOther, StartWriter, Fwup, EndHandler
    <3>5. CASE Commands
      <4>1. CASE Request
        <5>1. PICK bits \in SUBSET Bits : Answer(bits)
          BY <4>1 DEF Request, Bits
        <5>2. QED
          BY <5>1 DEF Answer
      <4>2. CASE SetCommand \/ UploadRefused \/ UploadAccepted \/ LineFeed
        BY <4>2 DEF SetCommand, UploadRefused, UploadAccepted, LineFeed, StartWriter
      <4>3. QED
        BY <3>5, <4>1, <4>2 DEF Commands
    <3>6. CASE LinkUp \/ DownloadDone \/ DownloadFails \/ ButtonDown \/ ButtonUp
               \/ Trigger \/ FactoryISR
      BY <3>6 DEF LinkUp, DownloadDone, DownloadFails, EndHandler, ButtonDown,
         ButtonUp, Trigger, FactoryISR, StartWriter
    <3>7. CASE Fault \/ Watchdog
      BY <3>7 DEF Fault, PowerLoss, Watchdog, ResetTo, EraseConfigFails,
         ProgramFails, GiveUpWriting, EraseCertFails
    <3>8. QED
      BY <3>1, <3>2, <3>3, <3>4, <3>5, <3>6, <3>7 DEF Next, Program, Environment
  <2>2. QED
    BY <1>3, <1>7, <2>1 DEF PageInv
<1>8. QED
  BY <1>4, <1>5, <1>6, <1>7, PageKept

LEMMA PageInitial == Init => PageInv
<1> SUFFICES ASSUME Init PROVE PageInv
  OBVIOUS
<1> DEFINE r == [set |-> FactorySetting, bank |-> 0, len |-> AllOnes]
<1>1. r \in Record /\ r.bank \in Bank
  BY StoreAssumption DEF StoreAssumption, Record, Bank
<1>2. page = Prefix(NWords, r)
  <2>1. \A w \in Words : w <= NWords
    BY StoreAssumption DEF Words, StoreAssumption
  <2>2. QED
    BY <2>1 DEF Init, Prefix
<1>3. NWords \in 0 .. NWords
  BY StoreAssumption DEF StoreAssumption
<1>4. QED
  BY <1>1, <1>2, <1>3 DEF Init, PageInv, Torn

\* What the loader accepts is one record and names a bank.
LEMMA PageWhole ==
  ASSUME TypeInv, PageInv
  PROVE  /\ Accepts(page) => Whole(page)
         /\ Whole(page) => page[1].bank \in Bank /\ page[DataWord] = page[1]
<1>1. PICK n \in 0 .. NWords, r \in Record : Torn(n, r)
  BY DEF PageInv
<1>2. r # Erased
  BY <1>1, Values DEF Torn
<1>3. Accepts(page) => Whole(page)
  <2>1. ASSUME Accepts(page) PROVE n = NWords
    <3>1. page[NWords] = IF NWords <= n THEN r ELSE Erased
      BY <1>1, Values DEF Torn, Prefix
    <3>2. NWords <= n
      BY <2>1, <3>1 DEF Accepts
    <3>3. QED
      BY <3>2, StoreAssumption DEF StoreAssumption
  <2>2. n = NWords => Whole(page)
    <3>1. \A w \in Words : w <= NWords
      BY StoreAssumption DEF Words, StoreAssumption
    <3>2. n = NWords => page = Image(r)
      BY <1>1, <3>1 DEF Torn, Prefix, Image
    <3>3. Image(r)[1] = r
      BY Values DEF Image
    <3>4. QED
      BY <1>2, <3>2, <3>3 DEF Whole
  <2>3. QED
    BY <2>1, <2>2
<1>4. ASSUME Whole(page) PROVE page[1].bank \in Bank /\ page[DataWord] = page[1]
  <2>1. page[1] = r
    <3>1. page[1] = IF 1 <= n THEN r ELSE Erased
      BY <1>1, Values DEF Torn, Prefix
    <3>2. QED
      BY <1>4, <3>1 DEF Whole
  <2>2. page[DataWord] = page[1]
    BY <1>4, Values DEF Whole, Image
  <2>3. QED
    BY <1>1, <2>1, <2>2 DEF Torn
<1>5. QED
  BY <1>3, <1>4

\* No reset, failed erase or hopeless retry ever leaves a page that the loader
\* takes for a configuration and that is not one, for any length of the record.
THEOREM AcceptedCorrect == Spec => []AcceptedIsWhole
<1>1. TypeInv /\ PageInv => AcceptedIsWhole
  BY PageWhole DEF AcceptedIsWhole
<1>2. QED
  BY <1>1, TypeInitial, TypeInductive, PageInitial, PageInductive, PTL DEF Spec

\* A save that did not store dev_config has left interrupts disabled.
THEOREM SaveCorrect == Spec => []FailedSaveIsDeaf
<1>1. PageInv => FailedSaveIsDeaf
  BY DEF PageInv, FailedSaveIsDeaf
<1>2. QED
  BY <1>1, TypeInitial, TypeInductive, PageInitial, PageInductive, PTL DEF Spec

-----------------------------------------------------------------------------
(* The bank                                                                *)

Loaded == pc \notin {"boot", "dead", "load"}

\* current_bank in RAM and in a whole page agree while the program may begin a
\* download: only the save behind a download, or a factory reset that cuts it
\* short, parts them, and both end in a restart.
Agreed == Loaded /\ pc # "reset" /\ job \notin {"update", "isr"}

Named == IF page[DataWord].bank \in Bank THEN page[DataWord].bank ELSE 0

\* the writing of bank b was reported as done
Written(b) == banks[b] \in {"image", "joined"}

BankInv ==
  ~pinUsed =>
    /\ Whole(page) => Written(page[1].bank)
    /\ pc = "load" => running = Named /\ Written(running)
    /\ Loaded => Written(ram.bank)
    /\ Agreed /\ Whole(page) => page[1].bank = ram.bank

\* A double word that completes a record completes the one in RAM.
LEMMA ProgramWhole ==
  ASSUME TypeInv, PageInv, ProgramWord, Whole(page)'
  PROVE  page'[1] = ram
<1>1. page' = Prefix(at, ram)
  BY ProgramPrefix
<1>2. 1 <= at
  BY StoreAssumption DEF TypeInv, TypeOK, Words, StoreAssumption
<1>3. QED
  BY <1>1, <1>2, Values DEF Prefix

\* Steps that leave the flash, current_bank and the writer alone.
LEMMA BankKept ==
  ASSUME TypeInv, BankInv, UNCHANGED <<page, banks, running>>,
         ram'.bank = ram.bank, Loaded, pc' # "load",
         pinUsed' = pinUsed,
         Agreed' => Agreed
  PROVE  BankInv'
  BY DEF BankInv, Written, Loaded, Whole, Image, Named

LEMMA BlankNotWhole == ~Whole(Blank)
  BY Values DEF Whole, Blank

LEMMA BankInductive == TypeInv /\ PageInv /\ BankInv /\ [Next]_vars => BankInv'
<1> SUFFICES ASSUME TypeInv, PageInv, BankInv, [Next]_vars PROVE BankInv'
  OBVIOUS
<1> USE DEF flash, round, writer, hist
<1>t. TypeInv'
  BY TypeInductive
<1>1. CASE UNCHANGED vars
  BY <1>1 DEF vars, BankInv, Written, Loaded, Agreed, Whole, Image, Named
<1>2. CASE Flash
  <2>1. CASE EraseConfig
    BY <2>1, BlankNotWhole DEF EraseConfig, BankInv, Written, Loaded, Whole, Image
  <2>2. CASE ProgramWord
    <3>1. Whole(page)' => page'[1] = ram
      BY <2>2, ProgramWhole
    <3>2. banks' = banks /\ ram' = ram /\ pinUsed' = pinUsed /\ Loaded /\ pc' # "load"
      BY <2>2 DEF ProgramWord, AfterWrite, Loaded
    <3>3. QED
      BY <3>1, <3>2 DEF BankInv, Written
  <2>3. CASE ProgramRefused \/ Compare \/ EraseCert \/ WriteCert
    <3>1. UNCHANGED <<page, banks, running, ram, pinUsed>> /\ Loaded /\ pc' # "load"
      BY <2>3 DEF ProgramRefused, GiveUpWriting, AfterWrite, Compare, AfterSave,
         EraseCert, WriteCert, Loaded
    <3>2. Agreed' => Agreed
      BY <2>3 DEF ProgramRefused, GiveUpWriting, AfterWrite, Compare, AfterSave,
         EraseCert, WriteCert, Loaded, Agreed, TypeInv, JobInv
    <3>3. QED
      BY <3>1, <3>2, BankKept
  <2>4. QED
    BY <1>2, <2>1, <2>2, <2>3 DEF Flash
<1>3. CASE Start
  <2>1. CASE Reset
    BY <2>1 DEF Reset, ResetTo, BankInv, Written, Loaded, Agreed, Whole, Image
  <2>2. CASE Boot
    <3>1. pinUsed' \in BOOLEAN /\ pinUsed \in BOOLEAN
      BY <1>t DEF TypeInv, TypeOK
    <3>2. ~pinUsed' => ~pinUsed /\ running' = Named
      BY <2>2, <3>1 DEF Boot, Named
    <3>3. UNCHANGED <<page, banks>> /\ pc' \in {"load", "dead"}
          /\ (pc' = "load" => Written(running)')
      BY <2>2 DEF Boot, Written
    <3>4. QED
      BY <3>2, <3>3 DEF BankInv, Written, Loaded, Agreed, Whole, Image, Named
  <2>3. CASE Load
    <3>1. Whole(page) => page[1].bank = Named
      BY PageWhole DEF Named
    <3>2. ram'.bank = running
      BY <2>3 DEF Load, TypeInv, TypeOK, Record
    <3>3. UNCHANGED <<page, banks, running, pinUsed>> /\ pc = "load" /\ pc' = "link"
      BY <2>3 DEF Load
    <3>4. QED
      BY <3>1, <3>2, <3>3 DEF BankInv, Written, Loaded, Agreed, Whole, Image
  <2>4. CASE LoadFactory
    <3>1. ram'.bank = Named
      BY <2>4, Values DEF LoadFactory, Factory, Named, TypeInv, TypeOK, Record
    <3>2. ~Whole(page)
      <4>1. NWords \in Words /\ 1 \in Words
        BY Values
      <4>2. QED
        BY <2>4, <4>1 DEF LoadFactory, Whole, Image, Accepts
    <3>3. UNCHANGED <<page, banks, running, pinUsed>> /\ pc = "load" /\ pc' = "erase"
      BY <2>4 DEF LoadFactory, StartWriter
    <3>4. QED
      BY <3>1, <3>2, <3>3 DEF BankInv, Written, Loaded, Agreed, Whole, Image
  <2>5. QED
    BY <1>3, <2>1, <2>2, <2>3, <2>4 DEF Start
<1>4. CASE Segcp
  <2>1. CASE HandleErase
    <3>1. page' \in {page, Blank} /\ UNCHANGED <<banks, ram, job, pinUsed>>
          /\ pc = "command" /\ pc' = "fwup"
      BY <2>1 DEF HandleErase, Answered, MessagesRead
    <3>2. QED
      BY <3>1, BlankNotWhole DEF BankInv, Written, Loaded, Agreed, Whole, Image
  <2>2. CASE HandleNothing \/ HandleFactory \/ HandleSave \/ HandleOther
    <3>1. UNCHANGED <<page, banks, running, pinUsed>> /\ pc = "command" /\ pc' # "load"
      BY <2>2 DEF HandleNothing, HandleFactory, HandleSave, HandleOther, Answered,
         MessagesRead, StartWriter
    <3>2. ram'.bank = ram.bank
      BY <2>2, Values DEF HandleNothing, HandleFactory, HandleSave, HandleOther,
         TypeInv, TypeOK, RamBank
    <3>3. Agreed
      BY <3>1 DEF Agreed, Loaded, TypeInv, JobInv
    <3>4. QED
      BY <3>1, <3>2, <3>3, BankKept DEF Loaded
  <2>3. CASE Round
    <3>1. UNCHANGED <<page, banks, running, ram, job, pinUsed>> /\ pc # "reset"
          /\ Loaded /\ pc' # "load"
      BY <2>3 DEF Round, Loaded
    <3>2. QED
      BY <3>1, BankKept DEF Agreed
  <2>4. CASE Fwup
    <3>1. ram.bank \in Bank /\ 1 - ram.bank # ram.bank
      BY DEF TypeInv, RamBank, Bank
    <3>2. banks'[ram.bank] = banks[ram.bank]
      BY <2>4, <3>1 DEF Fwup, UpdateBank, TypeInv, TypeOK
    <3>3. UNCHANGED <<page, running, ram, job, pinUsed>> /\ pc = "fwup"
          /\ pc' \in {"download", "top", "reset"}
      BY <2>4 DEF Fwup, EndHandler
    <3>4. Agreed
      BY <3>3 DEF Agreed, Loaded, TypeInv, JobInv
    <3>5. QED
      BY <3>2, <3>3, <3>4 DEF BankInv, Written, Loaded, Agreed, Whole, Image
  <2>5. QED
    BY <1>4, <2>1, <2>2, <2>3, <2>4 DEF Segcp, Handle
<1>5. CASE Commands
  <2>1. CASE Request
    <3>1. PICK bits \in SUBSET Bits : Answer(bits)
      BY <2>1 DEF Request, Bits
    <3>2. QED
      BY <3>1, BankKept DEF Answer, Loaded, Agreed
  <2>2. CASE SetCommand \/ UploadRefused \/ UploadAccepted
    <3>1. ram'.bank = ram.bank
      BY <2>2 DEF SetCommand, UploadRefused, UploadAccepted, TypeInv, TypeOK, Record
    <3>2. UNCHANGED <<page, banks, running, pinUsed>> /\ pc = "command" /\ pc' # "load"
      BY <2>2 DEF SetCommand, UploadRefused, UploadAccepted, StartWriter
    <3>3. Agreed
      BY <3>2 DEF Agreed, Loaded, TypeInv, JobInv
    <3>4. QED
      BY <3>1, <3>2, <3>3, BankKept DEF Loaded
  <2>3. CASE LineFeed
    BY <2>3, BankKept DEF LineFeed, Loaded, Agreed
  <2>4. QED
    BY <1>5, <2>1, <2>2, <2>3 DEF Commands
<1>6. CASE DownloadDone
  <2>1. ram.bank \in Bank /\ 1 - ram.bank \in Bank
    BY DEF TypeInv, RamBank, Bank
  <2>2. ram'.bank = 1 - ram.bank
    BY <1>6 DEF DownloadDone, TypeInv, TypeOK, Record
  <2>3. \A b \in Bank : Written(b)' <=> Written(b) \/ b = 1 - ram.bank
    BY <1>6 DEF DownloadDone, Downloaded, UpdateBank, Written, TypeInv, TypeOK
  <2>4. UNCHANGED <<page, pinUsed>> /\ pc = "download" /\ pc' = "erase"
        /\ job' = "update"
    BY <1>6 DEF DownloadDone, StartWriter
  <2>5. QED
    BY <2>1, <2>2, <2>3, <2>4, PageWhole DEF BankInv, Written, Loaded, Agreed, Whole, Image
<1>7. CASE LinkUp \/ DownloadFails \/ ButtonDown \/ ButtonUp \/ Trigger
  <2>1. UNCHANGED <<page, banks, running, ram, job, pinUsed>> /\ pc # "reset"
        /\ Loaded /\ pc' # "load"
    BY <1>7 DEF LinkUp, DownloadFails, EndHandler, ButtonDown, ButtonUp, Trigger,
       CanInterrupt, Loaded
  <2>2. QED
    BY <2>1, BankKept DEF Agreed
<1>8. CASE FactoryISR
  <2>1. UNCHANGED <<page, banks, running, pinUsed>> /\ Loaded /\ pc' = "erase"
        /\ job' = "isr"
    BY <1>8 DEF FactoryISR, FactoryDue, CanInterrupt, StartWriter, Loaded
  <2>2. ram'.bank = ram.bank
    BY <1>8, Values DEF FactoryISR, TypeInv, TypeOK, RamBank
  <2>3. QED
    BY <2>1, <2>2, BankKept DEF Agreed
<1>9. CASE Fault \/ Watchdog
  <2>1. CASE PowerLoss \/ Watchdog
    BY <2>1 DEF PowerLoss, Watchdog, ResetTo, BankInv, Written, Loaded, Agreed, Whole, Image
  <2>2. CASE EraseConfigFails \/ ProgramFails \/ EraseCertFails
    <3>1. UNCHANGED <<page, banks, running, ram, job, pinUsed>> /\ pc # "reset"
          /\ Loaded /\ pc' # "load"
      BY <2>2 DEF EraseConfigFails, ProgramFails, GiveUpWriting, AfterWrite,
         EraseCertFails, Loaded
    <3>2. QED
      BY <3>1, BankKept DEF Agreed
  <2>3. QED
    BY <1>9, <2>1, <2>2 DEF Fault
<1>10. QED
  BY <1>1, <1>2, <1>3, <1>4, <1>5, <1>6, <1>7, <1>8, <1>9
     DEF Next, Program, Environment

LEMMA BankInitial == Init => BankInv
<1> SUFFICES ASSUME Init PROVE BankInv
  OBVIOUS
<1>1. page[1].bank = 0
  BY Values DEF Init
<1>2. Written(0)
  BY DEF Init, Bank, Written
<1>3. pc = "boot"
  BY DEF Init
<1>4. QED
  BY <1>1, <1>2, <1>3 DEF BankInv, Loaded, Agreed

\* A download or a save cut off at any point leaves the named bank alone: no order
\* of updates, failed updates, factory resets and resets begins to write the bank
\* that the stored configuration names, unless the PREV_BANK pin chose the bank.
\* That the bank holds the image follows for an update over one connection only.
THEOREM BootCorrect == Spec => []BootBankWhole
<1>1. BankInv => BootBankWhole
  BY DEF BankInv, Written, BootBankWhole
<1>2. QED
  BY <1>1, TypeInitial, TypeInductive, PageInitial, PageInductive, BankInitial,
     BankInductive, PTL DEF Spec

-----------------------------------------------------------------------------
(* The certificate                                                         *)

Fitting(r) == r.len \in {cert, 0, AllOnes}

\* What the history variable stands for: outside "apart" no upload is under way and
\* the stored length fits; in "good" the one in RAM does, too.
CertInv ==
  /\ pairing # "apart" => job # "upload" /\ Fitting(page[DataWord])
  /\ pairing = "good" => Fitting(ram)

\* Records without a certificate fit any.
LEMMA NoCert == Fitting(Erased) /\ Fitting(Zero)
  BY DEF Fitting, Erased, Zero

LEMMA BlankFits == Fitting(Blank[DataWord])
  BY NoCert, Values DEF Blank

\* Steps that keep the page, the certificate and the length in RAM, or lose what is
\* in RAM, and begin no upload.
LEMMA CertKept ==
  ASSUME TypeInv, CertInv, UNCHANGED <<page, cert>>,
         job' = "upload" => job = "upload",
         \/ pairing' = pairing /\ (ram'.len = ram.len \/ ram' = Zero)
         \/ pairing # "apart" /\ ram' = Zero
  PROVE  CertInv'
<1>1. CASE pairing' = pairing /\ ram'.len = ram.len
  BY <1>1 DEF CertInv, Fitting
<1>2. CASE ram' = Zero /\ (pairing' = pairing \/ pairing # "apart")
  BY <1>2, NoCert DEF CertInv, Fitting
<1>3. QED
  BY <1>1, <1>2

LEMMA CertInductive == TypeInv /\ PageInv /\ CertInv /\ [Next]_vars => CertInv'
<1> SUFFICES ASSUME TypeInv, PageInv, CertInv, [Next]_vars PROVE CertInv'
  OBVIOUS
<1> USE DEF flash, round, writer, hist
<1>t. TypeInv'
  BY TypeInductive
<1>1. CASE UNCHANGED vars
  BY <1>1 DEF vars, CertInv, Fitting
<1>2. CASE Flash
  <2>1. CASE EraseConfig
    <3>1. page' = Blank /\ UNCHANGED <<cert, ram, job, pairing>>
      BY <2>1 DEF EraseConfig
    <3>2. QED
      BY <3>1, BlankFits DEF CertInv, Fitting
  <2>2. CASE ProgramWord
    <3>1. UNCHANGED <<cert, ram, job>>
      BY <2>2 DEF ProgramWord
    <3>2. page'[DataWord] = IF at = DataWord THEN ram ELSE page[DataWord]
      BY <2>2, Values DEF ProgramWord, Content, TypeInv, TypeOK
    <3>3. pairing' = IF at = DataWord /\ pairing = "refused" THEN "apart" ELSE pairing
      BY <2>2 DEF ProgramWord
    <3>4. pairing \in {"good", "refused", "apart"}
      BY DEF TypeInv, TypeOK
    <3>5. QED
      BY <3>1, <3>2, <3>3, <3>4 DEF CertInv, Fitting
  <2>3. CASE ProgramRefused \/ Compare
    <3>1. UNCHANGED <<page, cert, ram, pairing>> /\ job' \in {job, "none"}
      BY <2>3 DEF ProgramRefused, GiveUpWriting, Compare
    <3>2. QED
      BY <3>1, CertKept
  <2>4. CASE EraseCert
    <3>1. job = "upload" /\ UNCHANGED <<job, pairing>>
      BY <2>4 DEF EraseCert, TypeInv, JobInv
    <3>2. QED
      BY <3>1 DEF CertInv
  <2>5. CASE WriteCert
    <3>1. UNCHANGED <<page, ram>> /\ pairing = "apart" /\ job' = "none"
      BY <2>5 DEF WriteCert, TypeInv, JobInv, CertInv
    <3>2. \/ page = Image(ram) /\ cert' = ram.len
          \/ pairing' = "apart"
      BY <2>5, <3>1 DEF WriteCert, CertText
    <3>3. page = Image(ram) => page[DataWord] = ram
      BY Values DEF Image
    <3>4. CASE page = Image(ram) /\ cert' = ram.len
      BY <3>1, <3>3, <3>4 DEF CertInv, Fitting
    <3>5. CASE pairing' = "apart"
      BY <3>5 DEF CertInv
    <3>6. QED
      BY <3>2, <3>4, <3>5
  <2>6. QED
    BY <1>2, <2>1, <2>2, <2>3, <2>4, <2>5 DEF Flash
<1>3. CASE Start \/ LinkUp
  <2>1. CASE Reset \/ Boot
    <3>1. UNCHANGED <<page, cert>> /\ (job' = job \/ job' = "none")
          /\ (\/ pairing' = pairing /\ (ram' = ram \/ ram' = Zero)
              \/ pairing # "apart" /\ ram' = Zero)
      BY <2>1 DEF Reset, ResetTo, Boot
    <3>2. QED
      BY <3>1, CertKept
  <2>2. CASE Load \/ LoadFactory
    <3>1. UNCHANGED <<page, cert, pairing>> /\ job' \in {job, "load"}
      BY <2>2 DEF Load, LoadFactory, StartWriter
    <3>2. ram'.len = page[DataWord].len
      BY <2>2, Values DEF Load, LoadFactory, TypeInv, TypeOK, Record
    <3>3. QED
      BY <3>1, <3>2 DEF CertInv, Fitting
  <2>3. CASE LinkUp
    BY <2>3, CertKept DEF LinkUp
  <2>4. QED
    BY <1>3, <2>1, <2>2, <2>3 DEF Start
<1>4. CASE Segcp
  <2>1. CASE HandleErase
    <3>1. page' \in {page, Blank} /\ UNCHANGED <<cert, ram, job, pairing>>
      BY <2>1 DEF HandleErase, Answered
    <3>2. QED
      BY <3>1, BlankFits DEF CertInv, Fitting
  <2>2. CASE HandleNothing \/ HandleFactory \/ HandleSave \/ HandleOther
    <3>1. UNCHANGED <<page, cert, pairing>> /\ job' \in {job, "command"}
      BY <2>2 DEF HandleNothing, HandleFactory, HandleSave, HandleOther, Answered,
         StartWriter
    <3>2. ram'.len = ram.len
      BY <2>2, Values DEF HandleNothing, HandleFactory, HandleSave, HandleOther,
         TypeInv, TypeOK
    <3>3. QED
      BY <3>1, <3>2, CertKept
  <2>3. CASE Round \/ Fwup
    <3>1. UNCHANGED <<page, cert, ram, job, pairing>>
      BY <2>3 DEF Round, Fwup
    <3>2. QED
      BY <3>1, CertKept
  <2>4. QED
    BY <1>4, <2>1, <2>2, <2>3 DEF Segcp, Handle
<1>5. CASE Commands
  <2>1. CASE Request
    <3>1. PICK bits \in SUBSET Bits : Answer(bits)
      BY <2>1 DEF Request, Bits
    <3>2. UNCHANGED <<page, cert, ram, job, pairing>>
      BY <3>1 DEF Answer
    <3>3. QED
      BY <3>2, CertKept
  <2>2. CASE SetCommand \/ LineFeed
    <3>1. UNCHANGED <<page, cert, job, pairing>>
      BY <2>2 DEF SetCommand, LineFeed
    <3>2. ram'.len = ram.len
      BY <2>2 DEF SetCommand, LineFeed, TypeInv, TypeOK, Record
    <3>3. QED
      BY <3>1, <3>2, CertKept
  <2>3. CASE UploadRefused
    <3>1. UNCHANGED <<page, cert, job>>
      BY <2>3 DEF UploadRefused
    <3>2. pairing' = IF pairing = "good" THEN "refused" ELSE pairing
      BY <2>3 DEF UploadRefused
    <3>3. QED
      BY <3>1, <3>2 DEF CertInv, Fitting
  <2>4. CASE UploadAccepted
    BY <2>4 DEF UploadAccepted, CertInv
  <2>5. QED
    BY <1>5, <2>1, <2>2, <2>3, <2>4 DEF Commands
<1>6. CASE DownloadDone \/ DownloadFails \/ ButtonDown \/ ButtonUp \/ Trigger
           \/ FactoryISR
  <2>1. UNCHANGED <<page, cert, pairing>> /\ job' \in {job, "update", "isr"}
    BY <1>6 DEF DownloadDone, DownloadFails, ButtonDown, ButtonUp, Trigger,
       FactoryISR, StartWriter
  <2>2. ram'.len = ram.len
    BY <1>6, Values DEF DownloadDone, DownloadFails, ButtonDown, ButtonUp, Trigger,
       FactoryISR, TypeInv, TypeOK, Record
  <2>3. QED
    BY <2>1, <2>2, CertKept
<1>7. CASE Fault \/ Watchdog
  <2>1. CASE PowerLoss \/ Watchdog
    <3>1. page' = page /\ ram' = Zero /\ job' = "none"
          /\ (pairing # "apart" \/ pairing' = pairing)
      BY <2>1 DEF PowerLoss, Watchdog, ResetTo
    <3>2. CASE cert' = cert
      BY <3>1, <3>2, CertKept
    <3>3. CASE cert' # cert
      <4>1. job = "upload"
        BY <2>1, <3>3 DEF PowerLoss, Watchdog, CertCutOff, TypeInv, JobInv
      <4>2. QED
        BY <3>1, <4>1, NoCert DEF CertInv, Fitting
    <3>4. QED
      BY <3>2, <3>3
  <2>2. CASE EraseConfigFails \/ ProgramFails \/ EraseCertFails
    <3>1. UNCHANGED <<page, cert, ram, job, pairing>>
      BY <2>2 DEF EraseConfigFails, ProgramFails, GiveUpWriting, EraseCertFails
    <3>2. QED
      BY <3>1, CertKept
  <2>3. QED
    BY <1>7, <2>1, <2>2 DEF Fault
<1>8. QED
  BY <1>1, <1>2, <1>3, <1>4, <1>5, <1>6, <1>7 DEF Next, Program, Environment

LEMMA CertInitial == Init => CertInv
<1> SUFFICES ASSUME Init PROVE CertInv
  OBVIOUS
<1>1. page[DataWord].len = AllOnes
  BY Values DEF Init
<1>2. QED
  BY <1>1, NoCert DEF Init, CertInv, Fitting

\* rootca_len in the stored configuration is the length of the stored certificate,
\* or that of none, after any order of uploads, saves, factory resets, restarts and
\* updates, but for a saved length of a refused text and for an upload that has not
\* got through; one that gets through makes up for both.
THEOREM CertCorrect == Spec => []LenMatchesCert
<1>1. TypeInv /\ PageInv /\ CertInv => LenMatchesCert
  BY PageWhole DEF CertInv, LenMatchesCert, Fitting
<1>2. QED
  BY <1>1, TypeInitial, TypeInductive, PageInitial, PageInductive, CertInitial,
     CertInductive, PTL DEF Spec

-----------------------------------------------------------------------------
(* The store implements the cell                                           *)

\* What the cell and its pending record stand for here.
CellNow == IF Whole(page) THEN page[1] ELSE Erased
PendingNow == IF job # "none" THEN ram ELSE Erased

\* The steps of the cell, in these terms.
CellStep ==
  \/ UNCHANGED <<CellNow, PendingNow>>
  \/ PendingNow' \in Record \ {Erased} /\ CellNow' = CellNow
  \/ PendingNow' = Erased /\ CellNow' = CellNow
  \/ PendingNow # Erased /\ CellNow' = Erased /\ PendingNow' = PendingNow
  \/ PendingNow # Erased /\ CellNow = Erased /\ CellNow' = PendingNow
     /\ PendingNow' = PendingNow
  \/ PendingNow = Erased /\ CellNow' = Erased /\ PendingNow' = PendingNow

LEMMA CellStepIsOne == CellStep => [StoredCell!CNext]_<<CellNow, PendingNow>>
  BY DEF CellStep, CellNow, PendingNow, StoredCell!CNext, StoredCell!Begin,
     StoredCell!Drop, StoredCell!Commit, StoredCell!End, StoredCell!Clear

LEMMA StoreStep == TypeInv /\ PageInv /\ [Next]_vars => CellStep
<1> SUFFICES ASSUME TypeInv, PageInv, [Next]_vars PROVE CellStep
  OBVIOUS
<1>t. TypeInv'
  BY TypeInductive
<1>r. ram \in Record \ {Erased} /\ ram' \in Record \ {Erased}
  BY <1>t, Values DEF TypeInv, TypeOK, RamBank
<1>1. CASE EraseConfig
  <2>1. PendingNow # Erased /\ PendingNow' = PendingNow
    BY <1>1, <1>r DEF EraseConfig, writer, PendingNow, TypeInv, JobInv
  <2>2. CellNow' = Erased
    BY <1>1, BlankNotWhole DEF EraseConfig, CellNow
  <2>3. QED
    BY <2>1, <2>2 DEF CellStep
<1>2. CASE ProgramWord
  <2>1. page = Prefix(at - 1, ram) /\ page' = Prefix(at, ram)
    BY <1>2, ProgramPrefix
  <2>2. at \in Words /\ at \in Nat /\ 1 <= at /\ at <= NWords /\ NWords \in Words
    BY StoreAssumption, Values DEF TypeInv, TypeOK, Words, StoreAssumption
  <2>3. CellNow = Erased
    <3>1. page[NWords] = Erased
      BY <2>1, <2>2 DEF Prefix, Words
    <3>2. QED
      BY <2>2, <3>1, Values DEF CellNow, Whole, Image
  <2>4. CellNow' \in {Erased, ram}
    BY <1>2, ProgramWhole DEF CellNow
  <2>5. PendingNow = ram /\ PendingNow' = ram /\ ram # Erased
    BY <1>2, <1>r DEF ProgramWord, PendingNow, TypeInv, JobInv
  <2>6. QED
    BY <2>3, <2>4, <2>5 DEF CellStep
<1>3. CASE HandleErase
  <2>1. job = "none" /\ job' = "none"
    BY <1>3 DEF HandleErase, Answered, MessagesRead, writer, TypeInv, JobInv
  <2>2. CellNow' \in {CellNow, Erased}
    BY <1>3, BlankNotWhole DEF HandleErase, CellNow, Whole, Image
  <2>3. QED
    BY <2>1, <2>2 DEF CellStep, PendingNow
<1>4. CASE page' = page
  <2>1. CellNow' = CellNow
    BY <1>4 DEF CellNow, Whole, Image
  <2>2. PendingNow' = Erased \/ PendingNow' \in Record \ {Erased}
    BY <1>r DEF PendingNow
  <2>3. QED
    BY <2>1, <2>2 DEF CellStep
<1>5. QED
  BY <1>1, <1>2, <1>3, <1>4, PageKept

LEMMA StoreStart == Init => StoredCell!CInit
<1> SUFFICES ASSUME Init PROVE StoredCell!CInit
  OBVIOUS
<1> DEFINE r == [set |-> FactorySetting, bank |-> 0, len |-> AllOnes]
<1>1. r \in Record /\ r # Erased
  BY StoreAssumption DEF StoreAssumption, Record, Bank, Erased, AllOnes
<1>2. page = Image(r) /\ page[1] = r
  BY Values DEF Init, Image
<1>3. Whole(page)
  BY <1>1, <1>2 DEF Whole
<1>4. job = "none"
  BY DEF Init
<1>5. QED
  BY <1>1, <1>2, <1>3, <1>4 DEF StoredCell!CInit

\* The stored configuration behaves as the cell for any number of double words
\* and retries: a reset finds the old record, the new one or none at all.
THEOREM CellCorrect == Spec => SavesAreAtomic
<1>1. TypeInv /\ PageInv /\ [Next]_vars => [StoredCell!CNext]_<<CellNow, PendingNow>>
  BY StoreStep, CellStepIsOne
<1>2. Spec => StoredCell!CInit /\ [][StoredCell!CNext]_<<CellNow, PendingNow>>
  BY <1>1, TypeInitial, TypeInductive, PageInitial, PageInductive, StoreStart,
     PTL DEF Spec
<1>3. QED
  BY <1>2 DEF SavesAreAtomic, StoredCell!CSpec, CellNow, PendingNow
=============================================================================
