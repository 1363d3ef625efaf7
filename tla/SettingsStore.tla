--------------------------- MODULE SettingsStore ---------------------------
(***************************************************************************)
(* What the firmware promises of the settings it keeps in flash: a restart *)
(* finds the last settings saved, or none, and never anything else; those  *)
(* whose saving was answered well are there.  A power cut while they are   *)
(* being saved may cost the old ones, not more.                            *)
(***************************************************************************)
CONSTANTS
    Config,     \* the configurations, as far as they differ
    Default,    \* the one the program sets up when it finds none
    None,       \* no settings
    ReadFails   \* whether the flash may refuse to be read at a restart

VARIABLES
    cfg,        \* the configuration the program works with
    saved,      \* the settings a restart would find, or None
    phase       \* "idle", "saving", "stored", "failed", "off"

vars == <<cfg, saved, phase>>

Init == cfg = Default /\ saved = None /\ phase = "off"

\* A restart takes what is saved.
Restart ==
    /\ phase = "off"
    /\ phase' = "idle"
    /\ \/ cfg' = IF saved = None THEN Default ELSE saved
       \/ ReadFails /\ cfg' = Default
    /\ UNCHANGED saved

\* The host configures the device.
Configure ==
    /\ phase = "idle"
    /\ cfg' \in Config
    /\ UNCHANGED <<saved, phase>>

\* The host asks for the configuration to be saved.
Begin ==
    /\ phase = "idle"
    /\ phase' = "saving"
    /\ UNCHANGED <<cfg, saved>>

\* The old settings make room, and it may end there.
Lose ==
    /\ phase = "saving"
    /\ saved' = None
    /\ phase' \in {"saving", "failed"}
    /\ UNCHANGED cfg

\* The new settings are found from here on.
Commit ==
    /\ phase = "saving"
    /\ saved' = cfg
    /\ phase' \in {"saving", "stored"}
    /\ UNCHANGED cfg

\* The program has made sure that they are saved, or has failed to.
Done ==
    /\ phase = "saving"
    /\ phase' \in {"stored", "failed"}
    /\ phase' = "stored" => saved = cfg
    /\ UNCHANGED <<cfg, saved>>

\* The host is told.
Answer ==
    /\ phase \in {"stored", "failed"}
    /\ phase' = "idle"
    /\ UNCHANGED <<cfg, saved>>

\* The power goes, at any moment.
Cut ==
    /\ phase # "off"
    /\ phase' = "off"
    /\ saved' = saved \/ (phase = "saving" /\ saved' \in {None, cfg})
    /\ UNCHANGED cfg

Next ==
    \/ Restart
    \/ Configure
    \/ Begin
    \/ Lose
    \/ Commit
    \/ Done
    \/ Answer
    \/ Cut

Spec == Init /\ [][Next]_vars
=============================================================================
