----------------------- MODULE ProfileStorageRefinement -----------------------
(***************************************************************************)
(* The A/B store implements the one-value store of PersistentConfig.       *)
(***************************************************************************)
EXTENDS ProfileStorage

SavedValue(i) == [config |-> i.config, autostart |-> i.autostart]

Stored == {SavedValue(Header(s)) : s \in {t \in Slots : Loadable(t) /\ t = Selected}}
Fallback == {SavedValue(Header(s)) : s \in {t \in Slots : Loadable(t) /\ t # Selected}}

Promise == INSTANCE PersistentConfig
             WITH firmware <- catalog, stored <- Stored, fallback <- Fallback

(* Every behaviour of the store, cuts and errors included, is a behaviour  *)
(* of the one-value store: the saved value changes in one step, from the   *)
(* whole old value to the whole new one, a save keeps the autostart flag   *)
(* and SET_AUTOSTART keeps the configuration.                              *)
ImplementsPromise == Promise!Spec

=============================================================================
