--------------------------- MODULE PersistentConfig ---------------------------
(***************************************************************************)
(* What the profile store promises its callers: one saved value that a     *)
(* boot restores, replaced in a single step.  The store keeps the value it *)
(* replaced as a fallback until the next write starts.  Erasing removes    *)
(* the saved value first or the fallback first, so that an erase that does *)
(* not finish may leave the fallback as the saved value.                   *)
(***************************************************************************)
CONSTANTS
  Configs,
  Catalogs

VARIABLES
  firmware,  (* the catalog of the running firmware                        *)
  stored,    (* {} or {the value a boot restores}                          *)
  fallback   (* {} or {the value found were the stored one unreadable}     *)

avars == <<firmware, stored, fallback>>

Values == [config : Configs, autostart : BOOLEAN]

Maybe == {{}} \cup {{v} : v \in Values}

Init == firmware \in Catalogs /\ stored = {} /\ fallback = {}

(* A write completes: a save keeps the autostart flag, SET_AUTOSTART keeps *)
(* the configuration.                                                      *)
Replace(v) ==
  /\ fallback = {}
  /\ \/ \A w \in stored : v.autostart = w.autostart
     \/ stored # {} /\ \A w \in stored : v.config = w.config
  /\ stored = {} => ~v.autostart
  /\ stored' = {v}
  /\ fallback' = stored
  /\ UNCHANGED firmware

(* The slot of the fallback is erased, for a write or by an erase.         *)
DropFallback ==
  /\ fallback' = {}
  /\ UNCHANGED <<firmware, stored>>

(* An erase removes the stored value while the fallback is still there.    *)
DropStored ==
  /\ stored' = fallback
  /\ fallback' = {}
  /\ UNCHANGED firmware

(* Another firmware sees what was written under its own catalog.           *)
ChangeFirmware ==
  /\ firmware' \in Catalogs \ {firmware}
  /\ stored' \in Maybe
  /\ fallback' \in Maybe

Next ==
  \/ \E v \in Values : Replace(v)
  \/ DropFallback
  \/ DropStored
  \/ ChangeFirmware

Spec == Init /\ [][Next]_avars

=============================================================================
