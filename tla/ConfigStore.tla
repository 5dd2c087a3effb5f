---------------------------- MODULE ConfigStore ----------------------------
(***************************************************************************)
(* The configuration of the device and what depends on it: the flash page  *)
(* it is stored in, the commands that change and save it, the factory      *)
(* reset in the timer interrupt, the certificate stored beside it, the     *)
(* firmware bank it selects, and the way from a reset to the main loop.    *)
(* A reset (power loss, watchdog, reset instruction) can come between any  *)
(* two steps, a flash operation can fail, the interrupt can come wherever  *)
(* interrupts are enabled.                                                 *)
(*                                                                         *)
(* A record stands for a DevConfig.  Its double words are programmed one   *)
(* after the other: the first modelled word holds packet_size, word        *)
(* DataWord the settings, current_bank and rootca_len, the last one        *)
(* devConfigVer.  A double word is tagged with the whole record.           *)
(***************************************************************************)
EXTENDS Integers, FiniteSets

CONSTANTS
  Setting,        \* values of what the commands set
  FactorySetting, \* the one set_DevConfig_to_factory_value leaves
  HiddenSetting,  \* the settings whose local_port is 1
  Cert,           \* certificates, told apart by their length
  Refused,        \* the lengths of texts that check_ca refuses
  NWords,         \* modelled double words of a record
  MaxRetry,       \* MAX_SAVE_RETRY
  MaxCmd,         \* bound: commands handled in one round of do_segcp
  PinUse          \* what the PREV_BANK pin may read at a reset: TRUE is pressed

AllOnes == 255    \* what an erased field reads
DataWord == 2

ASSUME StoreAssumption ==
  /\ Setting \subseteq 0 .. 254 /\ FactorySetting \in Setting
  /\ HiddenSetting \subseteq Setting
  /\ Cert \subseteq 1 .. 254 /\ Refused \subseteq 1 .. 254
  /\ NWords \in Nat /\ NWords > DataWord
  /\ MaxRetry \in Nat \ {0} /\ MaxCmd \in Nat
  /\ PinUse \subseteq BOOLEAN /\ FALSE \in PinUse

Bank == {0, 1}
Words == 1 .. NWords
Record == [set : Setting \cup {0, AllOnes}, bank : Bank \cup {AllOnes},
           len : Cert \cup Refused \cup {0, AllOnes}]
Erased == [set |-> AllOnes, bank |-> AllOnes, len |-> AllOnes]
Zero == [set |-> 0, bank |-> 0, len |-> 0]   \* dev_config before it is loaded
Blank == [w \in Words |-> Erased]

VARIABLES
  (* what survives a reset *)
  page,        \* the flash page of the configuration
  cert,        \* the length of the root certificate that its page holds, or
               \* holds the beginning of; AllOnes if the page is erased
  banks,       \* what a bank holds: an image; part of one; or "joined", what
               \* an update over several connections reported as success
               \* without the image being there
  (* what does not *)
  ram,         \* dev_config
  running,     \* SECURE_Get_Running_Bank()
  pc, job,     \* where the program stands, for whom it writes the configuration
  at, retry,   \* i in write_flash, retry_cnt
  word, left,  \* segcp_ret; commands still to come in this round
  opmode,      \* "gw" or "at"
  irqOff,      \* interrupts left disabled by a failed write_flash
  wdt,         \* the watchdog has been started
  factoryFlag, \* factory_flag
  (* history *)
  pinUsed,     \* a reset has found the PREV_BANK pin pressed
  pairing      \* "good"; "refused": rootca_len in dev_config is that of a text
               \* check_ca refused; "apart": such a length was saved, or an
               \* upload has begun to write, and none has got through since

flash == <<page, cert, banks>>
round == <<word, left>>
writer == <<job, at, retry>>
hist == <<pinUsed, pairing>>
vars == <<page, cert, banks, ram, running, pc, job, at, retry, word, left,
          opmode, irqOff, wdt, factoryFlag, pinUsed, pairing>>

Bits == {"ERR", "REBOOT", "FWUP", "SWITCH", "SAVE", "FACTORY", "ERASE"}

TypeOK ==
  /\ page \in [Words -> Record] /\ cert \in Cert \cup {AllOnes}
  /\ banks \in [Bank -> {"image", "partial", "joined"}]
  /\ ram \in Record /\ running \in Bank
  /\ pc \in {"boot", "dead", "load", "link", "top", "command", "wait",
             "fwup", "download", "reset", "erase", "write", "compare",
             "eraseCert", "writeCert"}
  /\ job \in {"none", "load", "command", "update", "upload", "isr"}
  /\ at \in Words /\ retry \in 0 .. MaxRetry
  /\ word \subseteq Bits /\ left \in 0 .. MaxCmd
  /\ opmode \in {"gw", "at"}
  /\ irqOff \in BOOLEAN /\ wdt \in BOOLEAN /\ factoryFlag \in BOOLEAN
  /\ pinUsed \in BOOLEAN /\ pairing \in {"good", "refused", "apart"}

\* as delivered: factory settings, an image in bank 0, nothing in bank 1
Init ==
  /\ page = [w \in Words |->
               [set |-> FactorySetting, bank |-> 0, len |-> AllOnes]]
  /\ cert = AllOnes /\ banks = [b \in Bank |-> IF b = 0 THEN "image" ELSE "partial"]
  /\ ram = Zero /\ running = 0
  /\ pc = "boot" /\ job = "none" /\ at = 1 /\ retry = 0
  /\ word = {} /\ left = 0 /\ opmode = "gw"
  /\ irqOff = FALSE /\ wdt = FALSE /\ factoryFlag = FALSE
  /\ pinUsed = FALSE /\ pairing = "good"

-----------------------------------------------------------------------------
(* The flash page                                                          *)

Image(r) == [w \in Words |-> r]
Whole(p) == p = Image(p[1]) /\ p[1] # Erased

\* what load_DevConfig_from_storage takes for a configuration: packet_size is
\* sizeof(DevConfig) and devConfigVer is DEV_CONFIG_VER
AcceptsBySize(p) == p[1] # Erased
Accepts(p) == p[1] # Erased /\ p[NWords] # Erased

\* current_bank and rootca_len survive a factory reset
Factory(r) == [r EXCEPT !.set = FactorySetting,
                        !.bank = IF r.bank \in Bank THEN r.bank ELSE 0]

IsSave == job \in {"command", "update", "isr"}

\* where the writer goes when the record has been written, or given up
AfterWrite == CASE IsSave -> "compare"
                [] job = "load" -> "reset"
                [] OTHER -> "eraseCert"

\* where save_DevConfig_to_storage returns to
AfterSave == IF job = "command" THEN "fwup" ELSE "reset"

StartWriter(j) == job' = j /\ pc' = "erase" /\ at' = 1 /\ retry' = 0

\* erase_flash_page: interrupts are enabled again whatever happens
EraseConfig ==
  /\ pc = "erase"
  /\ page' = Blank /\ irqOff' = FALSE /\ pc' = "write"
  /\ UNCHANGED <<cert, banks, ram, running, opmode, wdt, factoryFlag>>
  /\ UNCHANGED writer /\ UNCHANGED round /\ UNCHANGED hist

\* its result is not looked at
EraseConfigFails ==
  /\ pc = "erase" /\ page # Blank
  /\ irqOff' = FALSE /\ pc' = "write"
  /\ UNCHANGED <<ram, running, opmode, wdt, factoryFlag>>
  /\ UNCHANGED flash /\ UNCHANGED writer /\ UNCHANGED round /\ UNCHANGED hist

\* the loop over the double words of dev_config goes on
MoreWordsPast == at <= NWords
MoreWordsLess == at < NWords - 1
MoreWords == at < NWords

ContentRunning == [ram EXCEPT !.bank = running]
Content == ram

\* one round of the loop in write_flash, interrupts disabled
ProgramWord ==
  /\ pc = "write" /\ page[at] = Erased
  /\ page' = [page EXCEPT ![at] = Content]
  /\ pairing' = IF at = DataWord /\ pairing = "refused" THEN "apart" ELSE pairing
  /\ IF MoreWords
       THEN at' = at + 1 /\ UNCHANGED <<pc, irqOff>>
       ELSE at' = 1 /\ irqOff' = FALSE /\ pc' = AfterWrite
  /\ UNCHANGED <<cert, banks, ram, running, job, retry, opmode, wdt, factoryFlag,
                 pinUsed>>
  /\ UNCHANGED round

\* write_flash returns -1 past HAL_FLASH_Lock and __enable_irq, and write_storage
\* drops the result
GiveUpWriting ==
  /\ irqOff' = TRUE /\ at' = 1 /\ pc' = AfterWrite
  /\ UNCHANGED <<ram, running, job, retry, opmode, wdt, factoryFlag>>
  /\ UNCHANGED flash /\ UNCHANGED round /\ UNCHANGED hist

\* a double word that is not erased cannot be programmed
ProgramRefused == pc = "write" /\ page[at] # Erased /\ GiveUpWriting

\* the flash fails
ProgramFails == pc = "write" /\ page[at] = Erased /\ GiveUpWriting

\* the comparison in save_DevConfig_to_storage: another write, but no erase
Compare ==
  /\ pc = "compare"
  /\ IF page = Image(ram) \/ retry + 1 >= MaxRetry
       THEN pc' = AfterSave /\ retry' = 0 /\ job' = "none"
       ELSE pc' = "write" /\ retry' = retry + 1 /\ UNCHANGED job
  /\ UNCHANGED <<ram, running, at, opmode, irqOff, wdt, factoryFlag>>
  /\ UNCHANGED flash /\ UNCHANGED round /\ UNCHANGED hist

-----------------------------------------------------------------------------
(* From a reset to the main loop                                           *)

\* everything in RAM is gone
ResetTo ==
  /\ pc' = "boot" /\ ram' = Zero /\ job' = "none"
  /\ at' = 1 /\ retry' = 0 /\ word' = {} /\ left' = 0 /\ opmode' = "gw"
  /\ irqOff' = FALSE /\ wdt' = FALSE /\ factoryFlag' = FALSE
  /\ pairing' = IF pairing = "refused" THEN "good" ELSE pairing
  /\ UNCHANGED <<page, banks, running, pinUsed>>

\* device_reboot, NVIC_SystemReset
Reset == pc = "reset" /\ ResetTo /\ UNCHANGED cert

\* no step of the main loop feeds the watchdog while one of these waits
UnfedDownload == pc = "download"
Unfed == pc \in {"wait", "download"}

CertTextLost == AllOnes
CertText == ram.len

\* the writing of the certificate page, when it does not come to the end: what is
\* not erased cannot be programmed
CertCutOff == \/ UNCHANGED cert
              \/ pc = "writeCert" /\ cert = AllOnes /\ cert' = CertText

\* the power fails, or comes back to a device that does not start; where a reset
\* is due anyway it makes no difference
PowerLoss ==
  /\ pc \notin {"boot", "reset"} /\ ~(wdt /\ Unfed)
  /\ ResetTo /\ CertCutOff

Watchdog == wdt /\ Unfed /\ ResetTo /\ UNCHANGED cert

\* main() of the secure side reads current_bank without looking whether the
\* record is one, and jumps into the bank; one that does not hold the whole image
\* is taken not to start
Boot ==
  /\ pc = "boot"
  /\ \E pin \in PinUse :
       LET named == IF page[DataWord].bank \in Bank THEN page[DataWord].bank ELSE 0
       IN /\ running' = IF pin THEN 1 - named ELSE named
          /\ pinUsed' = (pinUsed \/ pin)
  /\ pc' = IF banks[running'] = "image" THEN "load" ELSE "dead"
  /\ UNCHANGED <<ram, opmode, irqOff, wdt, factoryFlag, pairing>>
  /\ UNCHANGED flash /\ UNCHANGED writer /\ UNCHANGED round

\* load_DevConfig_from_storage, a configuration is there.  (The MAC address is one
\* of WIZnet's, so check_mac_address does not ask for it.)
Load ==
  /\ pc = "load" /\ Accepts(page)
  /\ ram' = [page[DataWord] EXCEPT !.bank = running]
  /\ pc' = "link"
  /\ UNCHANGED <<running, opmode, irqOff, wdt, factoryFlag>>
  /\ UNCHANGED flash /\ UNCHANGED writer /\ UNCHANGED round /\ UNCHANGED hist

\* main() waits for the PHY link, before the watchdog is started and without
\* reading a command, as long as no cable is in
LinkUp ==
  /\ pc = "link"
  /\ pc' = "top"
  /\ UNCHANGED <<ram, running, opmode, irqOff, wdt, factoryFlag>>
  /\ UNCHANGED flash /\ UNCHANGED writer /\ UNCHANGED round /\ UNCHANGED hist

\* there is none: factory values are written, then the device starts again
LoadFactory ==
  /\ pc = "load" /\ ~Accepts(page)
  /\ ram' = Factory(page[DataWord])
  /\ StartWriter("load")
  /\ UNCHANGED <<running, opmode, irqOff, wdt, factoryFlag>>
  /\ UNCHANGED flash /\ UNCHANGED round /\ UNCHANGED hist

-----------------------------------------------------------------------------
(* do_segcp: the messages of the three sources (UART, UDP, TCP), one result *)
(* word.  The sources are not told apart: where an upload, or in AT mode an  *)
(* error, ends its message, what follows here comes from the next source.    *)

\* the start of a round, in the main loop or before it, where process_dhcp and
\* process_dns may repeat for ever without a server and the watchdog does not run
\* yet; the main loop restarts the device when the cable is out.
\* uart_get_commandline waits in uart_getc for the line feed when half a line has
\* come in
Round ==
  /\ pc = "top"
  /\ \/ /\ wdt' \in {wdt, TRUE}
        /\ pc' \in IF opmode = "at" THEN {"command", "wait"} ELSE {"command"}
        /\ left' = MaxCmd
     \/ wdt /\ pc' = "reset" /\ UNCHANGED <<wdt, left>>
  /\ UNCHANGED <<ram, running, word, opmode, irqOff, factoryFlag>>
  /\ UNCHANGED flash /\ UNCHANGED writer /\ UNCHANGED hist

\* the rest of the line arrives, through the receive interrupt
LineFeed ==
  /\ pc = "wait" /\ ~irqOff
  /\ pc' = "command"
  /\ UNCHANGED <<ram, running, opmode, irqOff, wdt, factoryFlag>>
  /\ UNCHANGED flash /\ UNCHANGED writer /\ UNCHANGED round /\ UNCHANGED hist

\* a command that only adds to the result word
Answer(bits) ==
  /\ pc = "command" /\ left > 0 /\ left' = left - 1
  /\ word' = word \cup bits
  /\ UNCHANGED <<ram, running, pc, opmode, irqOff, wdt, factoryFlag>>
  /\ UNCHANGED flash /\ UNCHANGED writer /\ UNCHANGED hist

\* a wrong command, SV, RT, EX, FR, FW
Request ==
  \/ \E b \in {"ERR", "SAVE", "REBOOT", "SWITCH", "FWUP"} : Answer({b})
  \/ Answer({"REBOOT", IF ram.set \in HiddenSetting THEN "ERASE" ELSE "FACTORY"})

SetCommand ==
  /\ pc = "command" /\ left > 0 /\ left' = left - 1
  /\ \E v \in Setting : ram' = [ram EXCEPT !.set = v]
  /\ UNCHANGED <<running, pc, word, opmode, irqOff, wdt, factoryFlag>>
  /\ UNCHANGED flash /\ UNCHANGED writer /\ UNCHANGED hist

\* OC: the length is in dev_config before the text has been checked
UploadRefused ==
  /\ pc = "command" /\ left > 0 /\ left' = left - 1
  /\ \E n \in Refused : ram' = [ram EXCEPT !.len = n]
  /\ word' = word \cup {"ERR"}
  /\ pairing' = IF pairing = "good" THEN "refused" ELSE pairing
  /\ UNCHANGED <<running, pc, opmode, irqOff, wdt, factoryFlag, pinUsed>>
  /\ UNCHANGED flash /\ UNCHANGED writer

UploadAccepted ==
  /\ pc = "command" /\ left > 0 /\ left' = left - 1
  /\ \E c \in Cert : ram' = [ram EXCEPT !.len = c]
  /\ pairing' = "apart"
  /\ StartWriter("upload")
  /\ UNCHANGED <<running, word, opmode, irqOff, wdt, factoryFlag, pinUsed>>
  /\ UNCHANGED flash


EraseCert ==
  /\ pc = "eraseCert"
  /\ cert' = AllOnes /\ irqOff' = FALSE /\ pc' = "writeCert"
  /\ UNCHANGED <<page, banks, ram, running, opmode, wdt, factoryFlag>>
  /\ UNCHANGED writer /\ UNCHANGED round /\ UNCHANGED hist

\* its result is not looked at
EraseCertFails ==
  /\ pc = "eraseCert" /\ cert # AllOnes
  /\ irqOff' = FALSE /\ pc' = "writeCert"
  /\ UNCHANGED <<ram, running, opmode, wdt, factoryFlag>>
  /\ UNCHANGED flash /\ UNCHANGED writer /\ UNCHANGED round /\ UNCHANGED hist

\* the certificate page is not compared afterwards
WriteCert ==
  /\ pc = "writeCert"
  /\ \/ /\ cert = AllOnes /\ cert' = CertText
        /\ irqOff' = FALSE
        /\ pairing' = IF page = Image(ram) THEN "good" ELSE pairing
     \/ CertCutOff /\ irqOff' = TRUE /\ UNCHANGED pairing
  /\ job' = "none" /\ pc' = "command"
  /\ UNCHANGED <<page, banks, ram, running, at, retry, word, left, opmode, wdt,
                 factoryFlag, pinUsed>>

-----------------------------------------------------------------------------
(* segcp_ret_handler                                                       *)

\* the messages have been read
MessagesRead == pc = "command" /\ left' = 0

\* nothing to do, or an error anywhere in the round
HandleNothing ==
  /\ MessagesRead /\ (word = {} \/ "ERR" \in word)
  /\ pc' = "top" /\ word' = {}
  /\ UNCHANGED <<ram, running, opmode, irqOff, wdt, factoryFlag>>
  /\ UNCHANGED flash /\ UNCHANGED writer /\ UNCHANGED hist

\* SEGCP_RET_SWITCH, then at most one of the three that write the configuration
Answered ==
  /\ MessagesRead /\ word # {} /\ "ERR" \notin word
  /\ opmode' = IF "SWITCH" \notin word THEN opmode
               ELSE IF opmode = "gw" THEN "at" ELSE "gw"
  /\ UNCHANGED <<cert, banks, running, word, wdt, factoryFlag>>
  /\ UNCHANGED hist

\* device_set_factory_default
HandleFactory ==
  /\ Answered /\ "FACTORY" \in word
  /\ ram' = Factory(ram) /\ StartWriter("command")
  /\ UNCHANGED <<page, irqOff>>

HandleSave ==
  /\ Answered /\ "FACTORY" \notin word /\ "SAVE" \in word
  /\ StartWriter("command")
  /\ UNCHANGED <<page, ram, irqOff>>

HandleErase ==
  /\ Answered /\ word \cap {"FACTORY", "SAVE"} = {} /\ "ERASE" \in word
  /\ page' \in {page, Blank} /\ irqOff' = FALSE /\ pc' = "fwup"
  /\ UNCHANGED ram /\ UNCHANGED writer

HandleOther ==
  /\ Answered /\ word \cap {"FACTORY", "SAVE", "ERASE"} = {}
  /\ pc' = "fwup"
  /\ UNCHANGED <<page, ram, irqOff>> /\ UNCHANGED writer

Handle == HandleNothing \/ HandleFactory \/ HandleSave \/ HandleErase \/ HandleOther

\* SEGCP_RET_REBOOT comes last
EndHandler ==
  /\ pc' = IF "REBOOT" \in word THEN "reset" ELSE "top"
  /\ word' = {} /\ UNCHANGED left

UpdateBankRunning == ram.bank
UpdateBank == 1 - ram.bank

\* device_bank_update runs only when the word holds nothing else; it begins by
\* erasing the bank that current_bank does not name
Fwup ==
  /\ pc = "fwup"
  /\ \/ /\ word = {"FWUP"} /\ pc' = "download" /\ UNCHANGED round
        /\ banks' = [banks EXCEPT ![UpdateBank] = "partial"]
     \/ EndHandler /\ UNCHANGED banks    \* not asked for, refused, size 0
  /\ UNCHANGED <<page, cert, ram, running, opmode, irqOff, wdt, factoryFlag>>
  /\ UNCHANGED writer /\ UNCHANGED hist

\* device_bank_update reports success when as many bytes as the image has were
\* written; that they are the image is sure only when the tool sent them over one
\* connection (module FirmwareUpdate has the steps)
Downloaded == {"image", "joined"}

DownloadDone ==
  /\ pc = "download"
  /\ \E b \in Downloaded : banks' = [banks EXCEPT ![UpdateBank] = b]
  /\ ram' = [ram EXCEPT !.bank = 1 - ram.bank]
  /\ StartWriter("update")
  /\ UNCHANGED <<page, cert, running, opmode, irqOff, wdt, factoryFlag>>
  /\ UNCHANGED round /\ UNCHANGED hist

DownloadFails ==
  /\ pc = "download"
  /\ EndHandler /\ irqOff' \in {irqOff, TRUE}
  /\ UNCHANGED <<ram, running, opmode, wdt, factoryFlag>>
  /\ UNCHANGED flash /\ UNCHANGED writer /\ UNCHANGED hist

-----------------------------------------------------------------------------
(* The factory button, the timer interrupt and the trigger code            *)

\* counting FACTORY_RESET_TIME_MS takes longer than the way to the end of load
CanInterrupt == ~irqOff /\ job # "isr"
                /\ pc \notin {"boot", "dead", "load", "write", "reset"}
                /\ job # "load"

ButtonDown ==
  /\ CanInterrupt /\ ~factoryFlag /\ factoryFlag' = TRUE
  /\ UNCHANGED <<ram, running, pc, opmode, irqOff, wdt>>
  /\ UNCHANGED flash /\ UNCHANGED writer /\ UNCHANGED round /\ UNCHANGED hist

ButtonUp ==
  /\ CanInterrupt /\ factoryFlag /\ factoryFlag' = FALSE
  /\ UNCHANGED <<ram, running, pc, opmode, irqOff, wdt>>
  /\ UNCHANGED flash /\ UNCHANGED writer /\ UNCHANGED round /\ UNCHANGED hist

FactoryDueInGw == CanInterrupt /\ factoryFlag /\ opmode = "gw"
FactoryDue == CanInterrupt /\ factoryFlag

\* the interrupt never returns to what it interrupted: it ends in NVIC_SystemReset
FactoryISR ==
  /\ FactoryDue
  /\ ram' = Factory(ram) /\ StartWriter("isr")
  /\ word' = {} /\ left' = 0
  /\ UNCHANGED <<running, opmode, irqOff, wdt, factoryFlag>>
  /\ UNCHANGED flash /\ UNCHANGED hist

\* the serial side enters command mode by its trigger code (module SerialRx)
Trigger ==
  /\ pc = "top" /\ ~irqOff /\ opmode = "gw" /\ opmode' = "at"
  /\ UNCHANGED <<ram, running, pc, irqOff, wdt, factoryFlag>>
  /\ UNCHANGED flash /\ UNCHANGED writer /\ UNCHANGED round /\ UNCHANGED hist

-----------------------------------------------------------------------------
Flash == EraseConfig \/ ProgramWord \/ ProgramRefused \/ Compare \/ EraseCert
         \/ WriteCert
Start == Reset \/ Boot \/ Load \/ LoadFactory
Segcp == Round \/ Handle \/ Fwup
Commands == Request \/ SetCommand \/ UploadRefused \/ UploadAccepted \/ LineFeed
Program == Flash \/ Start \/ Segcp

Fault == PowerLoss \/ EraseConfigFails \/ ProgramFails \/ EraseCertFails
Environment == LinkUp \/ Commands \/ DownloadDone \/ DownloadFails \/ ButtonDown
               \/ ButtonUp \/ Trigger

Next == Program \/ Environment \/ Fault \/ Watchdog \/ FactoryISR

\* The program does not stop between two steps; the watchdog is hardware; a
\* timer interrupt that is held off stays pending and is taken as soon as
\* interrupts are enabled again.  Nobody has to send anything or put a cable in.
Spec == Init /\ [][Next]_vars
        /\ WF_vars(Program) /\ WF_vars(Watchdog) /\ SF_vars(FactoryISR)

-----------------------------------------------------------------------------
(* Properties                                                              *)

\* A reset in the middle of a save, a failed erase and a retry that cannot
\* program over what is there leave torn pages, but never one that
\* load_DevConfig_from_storage takes for a configuration.
AcceptedIsWhole == Accepts(page) => Whole(page)

\* The bank the stored configuration names is never one whose writing has begun
\* and was not reported as done, so a download or the save after it can be cut off
\* anywhere.  Two exceptions: the device was started by the PREV_BANK pin; and a
\* tool that came back over another connection during the update can get success
\* reported, and the bank switched, without the whole image ("joined").
BootBankWhole ==
  Whole(page) /\ ~pinUsed => banks[page[1].bank] \in {"image", "joined"}

\* The stored rootca_len is the length of the stored certificate, or that of none.
\* Two things part them, until the next upload that gets through: a save after an
\* upload that was refused (its length stays in dev_config, and no text of this
\* length is stored), and an upload cut off or hit by a flash failure.
LenMatchesCert ==
  pairing # "apart" /\ Whole(page) => page[1].len \in {cert, 0, AllOnes}

\* When save_DevConfig_to_storage compares, either the page holds dev_config or
\* the write has failed, and then it has left interrupts disabled: nothing but
\* a reset or a later erase enables them again.
FailedSaveIsDeaf == pc = "compare" => page = Image(ram) \/ irqOff

\* While every flash operation works and the power stays, each start loads a
\* configuration and gets to the wait for the cable (where it stays without one):
\* writing factory values and starting again does not repeat for ever.  It ends in
\* a bank that does not start only if no whole record names the bank, the
\* PREV_BANK pin has chosen it, or an update over several connections left it.
StartsUp ==
  <>[][~Fault]_vars =>
    (pc = "boot" ~> \/ pc = "link"
                    \/ pc = "dead" /\ (\/ ~Whole(page) \/ pinUsed
                                        \/ banks[page[1].bank] = "joined"))

\* With the watchdog running, a round of do_segcp ends or the device restarts:
\* half a command line or a silent update server does not stop it for good.
RoundEnds == wdt ~> pc \in {"top", "boot"}

\* The factory button is heard, unless a failed write_flash has left interrupts
\* disabled: the flag does not stay up.
ButtonIsHeard == factoryFlag ~> ~factoryFlag \/ irqOff

\* The stored configuration is the cell of module ConfigCell: only a save, in
\* the main loop or in the timer interrupt, replaces it, and it holds the old
\* record, nothing or the new one until the save is over.
StoredCell == INSTANCE ConfigCell WITH
  Rec <- Record \ {Erased}, None <- Erased,
  cell <- IF Whole(page) THEN page[1] ELSE Erased,
  pending <- IF job # "none" THEN ram ELSE Erased
SavesAreAtomic == StoredCell!CSpec
=============================================================================
