----------------------------- MODULE IniStore -----------------------------
(***************************************************************************)
(* STM32F103/Main/rw_ini.c: the settings of the STM32F103 firmware, kept   *)
(* as records one behind the other in a page of flash, with their use in   *)
(* main.c.  A record is a start marker, the configuration in half-words    *)
(* and an end marker.  Flash is programmed half-word by half-word, and the *)
(* power may go between any two of them, or in the middle of one.          *)
(***************************************************************************)
EXTENDS Integers

CONSTANTS
    Slots,      \* records that a page holds: FLASH_PAGE_SIZE over len, 24
    WordCnt,    \* half-words of a configuration: 19
    Config,     \* the configurations, as far as they differ
    Default,    \* the one main sets up when it finds none
    None        \* no configuration

ASSUME SlotsAssumption == Slots \in Nat \ {0}
ASSUME WordAssumption == WordCnt \in Nat \ {0}
ASSUME ConfigAssumption == None \notin Config /\ Default \in Config

\* The addresses of records are numbers from 1; 0 is none, as in the code.
Slot == 1 .. Slots

\* The half-words of a record: start marker, configuration, end marker.
Last == WordCnt + 1
Place == 0 .. Last

\* A half-word is erased (0xFFFF), a marker, a part of a configuration, or
\* spoiled: none of the values that the code looks for.
Half == [kind : {"erased", "start", "end", "spoiled"}, of : {None}]
            \cup [kind : {"data"}, of : Config]
Erased == [kind |-> "erased", of |-> None]
Spoiled == [kind |-> "spoiled", of |-> None]

VARIABLES
    page,       \* the page, by record and half-word
    cfg,        \* cfg_i2c
    pc,         \* "idle", "erase", "program", "answer", "off"
    adr,        \* WriteIniBlk's adr: the record it writes to
    at          \* and the half-word of it that comes next

vars == <<page, cfg, pc, adr, at>>

TypeOK ==
    /\ page \in [Slot -> [Place -> Half]]
    /\ cfg \in Config
    /\ pc \in {"idle", "erase", "program", "answer", "off"}
    /\ adr \in 0 .. Slots
    /\ at \in Place

-----------------------------------------------------------------------------
\* Searching.

Started(s) == page[s][0].kind = "start"
Ended(s) == page[s][Last].kind = "end"

\* Mutant of Records: a record that was begun is taken for one that was finished
RecordsUnended == {s \in Slot : \A t \in 1 .. s : Started(t)}

\* The complete records that a search from the first one on comes to: it ends
\* at the first that has no start marker.
Records == {s \in Slot : Ended(s) /\ \A t \in 1 .. s : Started(t)}

\* Mutant of LastAdrIni: the search ends at the first record
FirstAdrIni ==
    IF Records = {} THEN 0 ELSE CHOOSE s \in Records : \A t \in Records : s <= t

\* GetLastAdrIniBlk
LastAdrIni ==
    IF Records = {} THEN 0 ELSE CHOOSE s \in Records : \A t \in Records : t <= s

\* Mutant of Clear: the record is clear whose end marker is missing
ClearUnended == {s \in Slot : page[s][Last] = Erased}

Clear == {s \in Slot : page[s][0] = Erased}

\* Mutant of LastAdrClr: the last clear record, as its comment says
LastOfClear ==
    IF Clear = {} THEN 0 ELSE CHOOSE s \in Clear : \A t \in Clear : t <= s

\* GetLastAdrClrBlk, which returns the first
LastAdrClr ==
    IF Clear = {} THEN 0 ELSE CHOOSE s \in Clear : \A t \in Clear : s <= t

\* What the record holds, if that is one configuration.
Whole(s, c) == \A k \in 1 .. WordCnt : page[s][k] = [kind |-> "data", of |-> c]

\* ReadIniBlk: the configuration a restart finds.  There is no check of what is
\* between the markers; WholeRecord says that there is one configuration.
Found ==
    IF LastAdrIni = 0 THEN None ELSE CHOOSE c \in Config : Whole(LastAdrIni, c)

-----------------------------------------------------------------------------
Init ==
    /\ page = [s \in Slot |-> [k \in Place |-> Erased]]
    /\ cfg = Default
    /\ pc = "off"
    /\ adr = 0
    /\ at = 0

\* main, before its loop.  Clearing pktcnt is a CmdCfg.
Boot ==
    /\ pc = "off"
    /\ cfg' = IF Found = None THEN Default ELSE Found
    /\ pc' = "idle"
    /\ UNCHANGED <<page, adr, at>>

\* CMD_DEV_CFG
CmdCfg ==
    /\ pc = "idle"
    /\ cfg' \in Config
    /\ UNCHANGED <<page, pc, adr, at>>

\* CMD_DEV_SCF: WriteIniBlk begins, and looks for a record that is clear.
CmdScf ==
    /\ pc = "idle"
    /\ pc' = IF LastAdrClr = 0 THEN "erase" ELSE "program"
    /\ adr' = LastAdrClr
    /\ at' = 0
    /\ UNCHANGED <<page, cfg>>

\* There was none: the page is erased and its first record is taken.
ErasePage ==
    /\ pc = "erase"
    /\ page' = [s \in Slot |-> [k \in Place |-> Erased]]
    /\ adr' = 1
    /\ pc' = "program"
    /\ UNCHANGED <<cfg, at>>

\* What WriteIniBlk programs at a place of the record.
Word(k) ==
    IF k = 0 THEN [kind |-> "start", of |-> None]
    ELSE IF k = Last THEN [kind |-> "end", of |-> None]
    ELSE [kind |-> "data", of |-> cfg]

Put(h) == page' = [page EXCEPT ![adr][at] = h]

\* FLASH_ProgramHalfWord
ProgramHalfWord ==
    /\ pc = "program"
    /\ Put(Word(at))
    /\ IF at = Last
       THEN pc' = "answer" /\ UNCHANGED at
       ELSE at' = at + 1 /\ UNCHANGED pc
    /\ UNCHANGED <<cfg, adr>>

\* The reply to CMD_DEV_SCF, which is never an error.
Answer ==
    /\ pc = "answer"
    /\ pc' = "idle"
    /\ UNCHANGED <<page, cfg, adr, at>>

\* The power goes: between two half-words, or in the middle of one, which is then
\* programmed, or not, or spoiled.
PowerCut ==
    /\ pc # "off"
    /\ pc' = "off"
    /\ \/ UNCHANGED page
       \/ pc = "program" /\ Put(Word(at))
       \/ pc = "program" /\ Put(Spoiled)
    /\ UNCHANGED <<cfg, adr, at>>

Next ==
    \/ Boot
    \/ CmdCfg
    \/ CmdScf
    \/ ErasePage
    \/ ProgramHalfWord
    \/ Answer
    \/ PowerCut

Spec == Init /\ [][Next]_vars

\* The program runs on as long as there is power.
FairSpec == Spec /\ WF_vars(ErasePage \/ ProgramHalfWord \/ Answer)

-----------------------------------------------------------------------------
\* Properties.

\* However often the power goes, what ReadIniBlk takes from between two markers is
\* one configuration as WriteIniBlk was given it: never the remains of two, nor of
\* a record that was not finished.
WholeRecord == LastAdrIni = 0 \/ \E c \in Config : Whole(LastAdrIni, c)

\* WriteIniBlk programs a half-word only where flash is erased, whatever broken-off
\* records it finds in the page: flash would refuse, or spoil, the others.
OnlyErased == [][pc = "program" /\ page' # page => page[adr][at] = Erased]_vars

\* A broken-off record stands in the way of later ones for one round of the page at
\* most: a host that goes on saving, with the power on, in the end saves.
Heals ==
    <>[](pc # "off") /\ []<>(pc = "answer") => <>[](pc = "answer" => Found = cfg)

-----------------------------------------------------------------------------
\* The page as a SettingsStore.

Phase ==
    CASE pc \in {"idle", "off"} -> pc
      [] pc \in {"erase", "program"} -> "saving"
      [] pc = "answer" -> "stored"

Store == INSTANCE SettingsStore WITH saved <- Found, phase <- Phase, ReadFails <- FALSE

\* No record in use lacks its start marker.
MarkersWhole == \A s \in Slot : page[s][0] = Erased \/ Started(s)

\* The page is a SettingsStore: wherever the power goes, a restart finds the last
\* settings saved or, once a full page was erased for them, none, and no older ones
\* come up again; those whose saving is answered are there.  The one step that is
\* not claimed is that to the answer with a spoiled start marker in the page:
\* the search of GetLastAdrIniBlk ends at it, that of GetLastAdrClrBlk does not.
StoreSpec ==
    Store!Init /\ [][(pc' = "answer" => MarkersWhole) => [Store!Next]_(Store!vars)]_vars
=============================================================================
