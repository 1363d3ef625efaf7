---------------------------- MODULE EepromStore ----------------------------
(***************************************************************************)
(* The settings of the CH583 firmware, in a page of its data flash:        *)
(* I2CDevReadSetings and I2CDevWriteSetings of i2c_dev.c and CMD_DEV_SCF   *)
(* of cmd_decode.c.  The page holds one configuration with a checksum; it  *)
(* is erased before it is written, and every call of FLASH_EEPROM_CMD may  *)
(* fail, and the power may go in any of them.                              *)
(***************************************************************************)
EXTENDS Integers

CONSTANTS
    WordCnt,    \* words of a configuration with its checksum
    Config,     \* the configurations, as far as they differ
    Default,    \* def_cfg_i2c
    None        \* a word that is of no configuration, and no configuration

ASSUME WordAssumption == WordCnt \in Nat \ {0}
ASSUME ConfigAssumption == None \notin Config /\ Default \in Config

Word == 1 .. WordCnt

VARIABLES
    page,       \* whose the words of the page are: None if erased or spoiled
    cfg,        \* cfg_i2c
    pc,         \* "idle", "read", "erase", "write", "answer", "off"
    at,         \* the word that is written next
    scf         \* I2CDevWriteSetings succeeded: the reply's scf.i2c

vars == <<page, cfg, pc, at, scf>>

TypeOK ==
    /\ page \in [Word -> Config \cup {None}]
    /\ cfg \in Config
    /\ pc \in {"idle", "read", "erase", "write", "answer", "off"}
    /\ at \in Word
    /\ scf \in BOOLEAN

Blank == [k \in Word |-> None]

\* memcmp
Holds(c) == \A k \in Word : page[k] = c

\* What crc16 lets pass: the checksum of a page that is erased, half written or of
\* two configurations is not 0.
Found == IF \E c \in Config : Holds(c) THEN CHOOSE c \in Config : Holds(c) ELSE None

-----------------------------------------------------------------------------
Init ==
    /\ page = Blank
    /\ cfg = Default
    /\ pc = "off"
    /\ at = 1
    /\ scf = FALSE

\* I2CDevInit: I2CDevReadSetings, from a flash that may refuse to be read.  That
\* pktcnt is cleared as the device wakes up or sleeps is a CmdCfg.
I2CDevReadSetings ==
    /\ pc = "off"
    /\ \/ cfg' = IF Found = None THEN Default ELSE Found
       \/ cfg' = Default
    /\ pc' = "idle"
    /\ UNCHANGED <<page, at, scf>>

\* CMD_DEV_CFG
CmdCfg ==
    /\ pc = "idle"
    /\ cfg' \in Config
    /\ UNCHANGED <<page, pc, at, scf>>

\* CMD_DEV_SCF, with scf.i2c set.  One that is too short, or asks for nothing, is
\* only answered.
CmdScf ==
    /\ pc = "idle"
    /\ pc' = "read"
    /\ scf' = FALSE
    /\ UNCHANGED <<page, cfg, at>>

\* I2CDevWriteSetings: what is there already is not written again.
Compare ==
    /\ pc = "read"
    /\ \/ Holds(cfg) /\ scf' = TRUE /\ pc' = "answer"
       \/ ~Holds(cfg) /\ pc' = "erase" /\ UNCHANGED scf
    /\ UNCHANGED <<page, cfg, at>>

\* The page could not be read: it is written.
ReadError ==
    /\ pc = "read"
    /\ pc' = "erase"
    /\ UNCHANGED <<page, cfg, at, scf>>

Erase ==
    /\ pc = "erase"
    /\ page' = Blank
    /\ at' = 1
    /\ pc' = "write"
    /\ UNCHANGED <<cfg, scf>>

EraseError ==
    /\ pc = "erase"
    /\ page' \in {page, Blank}
    /\ pc' = "answer"
    /\ UNCHANGED <<cfg, at, scf>>

\* Mutant of Write: an error of the flash is not looked at.
WriteUnchecked ==
    /\ pc = "write"
    /\ page' \in {[page EXCEPT ![at] = cfg], page}
    /\ IF at = WordCnt
       THEN pc' = "answer" /\ scf' = TRUE /\ UNCHANGED at
       ELSE at' = at + 1 /\ UNCHANGED <<pc, scf>>
    /\ UNCHANGED cfg

\* The words go into the page one by one.
Write ==
    /\ pc = "write"
    /\ page' = [page EXCEPT ![at] = cfg]
    /\ IF at = WordCnt
       THEN pc' = "answer" /\ scf' = TRUE /\ UNCHANGED at
       ELSE at' = at + 1 /\ UNCHANGED <<pc, scf>>
    /\ UNCHANGED cfg

WriteError ==
    /\ pc = "write"
    /\ pc' = "answer"
    /\ UNCHANGED <<page, cfg, at, scf>>

\* The reply, with scf.i2c.
Answer ==
    /\ pc = "answer"
    /\ pc' = "idle"
    /\ UNCHANGED <<page, cfg, at, scf>>

\* The power goes.  What was being erased is erased, or not, or spoiled; so is the
\* word that was being written.
PowerCut ==
    /\ pc # "off"
    /\ pc' = "off"
    /\ \/ UNCHANGED page
       \/ pc = "erase" /\ page' \in [Word -> Config \cup {None}]
            /\ \A k \in Word : page'[k] \in {page[k], None}
       \/ pc = "write" /\ page' = [page EXCEPT ![at] = cfg]
    /\ UNCHANGED <<cfg, at, scf>>

Next ==
    \/ I2CDevReadSetings
    \/ CmdCfg
    \/ CmdScf
    \/ Compare
    \/ ReadError
    \/ Erase
    \/ EraseError
    \/ Write
    \/ WriteError
    \/ Answer
    \/ PowerCut

Spec == Init /\ [][Next]_vars

-----------------------------------------------------------------------------
\* The page is a SettingsStore whose reading may fail: whatever call fails and
\* whenever the power goes, a restart finds the last settings saved, or none, and a
\* reply that says they were saved is true.

Phase ==
    CASE pc \in {"idle", "off"} -> pc
      [] pc \in {"read", "erase", "write"} -> "saving"
      [] pc = "answer" -> IF scf THEN "stored" ELSE "failed"

Store == INSTANCE SettingsStore WITH saved <- Found, phase <- Phase, ReadFails <- TRUE

StoreSpec == Store!Spec
=============================================================================
