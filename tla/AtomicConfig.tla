----------------------------- MODULE AtomicConfig -----------------------------
(***************************************************************************)
(* What configuring the generator promises the host: one configuration,    *)
(* named after a profile or custom, that is replaced in a single step.  A  *)
(* draft is collected next to it and either becomes the configuration as a *)
(* whole, once it is what its opening declared, or is dropped without a    *)
(* trace.                                                                  *)
(***************************************************************************)
EXTENDS Integers, FiniteSets

CONSTANTS
  Scalars, Blobs,  (* the keys of the catalog                              *)
  Global,          (* the scalars the global slider moves                  *)
  Defaults,        (* the demo configuration                               *)
  Profiles,        (* customer profiles: [profile id -> set of keys]       *)
  CUSTOM           (* the name of a configuration of no profile            *)

VARIABLES
  conf,    (* the configuration: a function from the configured keys       *)
  name,    (* its profile, or CUSTOM                                       *)
  draft    (* {} or {[values, whole, scalars, blobs, profile]}             *)

avars == <<conf, name, draft>>

Names(p, c) == p = CUSTOM \/ (p \in DOMAIN Profiles /\ DOMAIN c = Profiles[p])

Init == conf = << >> /\ name = CUSTOM /\ draft = {}

Open ==
  /\ draft = {}
  /\ \E d \in draft' : d.values = << >> /\ draft' = {d}
  /\ UNCHANGED <<conf, name>>

(* One record is added or written again, what was declared stays.          *)
Stage ==
  /\ \E d \in draft, e \in draft' :
       /\ <<e.scalars, e.blobs, e.profile>> = <<d.scalars, d.blobs, d.profile>>
       /\ \E k \in Scalars \cup Blobs :
            /\ DOMAIN e.values = DOMAIN d.values \cup {k}
            /\ \A j \in DOMAIN d.values \ {k} : e.values[j] = d.values[j]
  /\ UNCHANGED <<conf, name>>

Drop == draft' = {} /\ UNCHANGED <<conf, name>>

Complete(d) ==
  /\ d.whole
  /\ Cardinality(DOMAIN d.values \cap Scalars) = d.scalars
  /\ Cardinality(DOMAIN d.values \cap Blobs) = d.blobs
  /\ Names(d.profile, d.values)

Commit ==
  /\ \E d \in draft : Complete(d) /\ conf' = d.values /\ name' = d.profile
  /\ draft' = {}

(* One constant set directly makes the configuration custom.               *)
SetOne ==
  /\ draft = {}
  /\ \E k \in Scalars :
       /\ DOMAIN conf' = DOMAIN conf \cup {k}
       /\ \A j \in DOMAIN conf \ {k} : conf'[j] = conf[j]
  /\ name' = CUSTOM
  /\ UNCHANGED draft

(* The global slider moves values, never the set of keys.                  *)
SetGlobal ==
  /\ draft = {}
  /\ DOMAIN conf' = DOMAIN conf
  /\ \A k \in DOMAIN conf \ Global : conf'[k] = conf[k]
  /\ UNCHANGED <<name, draft>>

(* A saved image: not while there is a draft.                              *)
Restore == draft = {} /\ Names(name', conf') /\ UNCHANGED draft

(* Clearing, a reset, the defaults.                                        *)
Preset == conf' \in {<< >>, Defaults} /\ name' = CUSTOM /\ draft' = {}

Next ==
  \/ Open \/ Stage \/ Drop \/ Commit
  \/ SetOne \/ SetGlobal \/ Restore \/ Preset

Spec == Init /\ [][Next]_avars

=============================================================================
