--------------------------- MODULE MCStorageSignals ---------------------------
(* The profile store and the signals side by side for TLC: they share no   *)
(* variable and every property is about one of them.  A behaviour is of    *)
(* one side; the other stays as it began.                                  *)
(*                                                                         *)
(* Five signals of four PGNs: one PGN is sent on request only, one is long *)
(* and holds a text; an SPN occurs in two PGNs; bytes of two bits.  Fields *)
(* at every place of three bytes and some beyond, every identifier, a few  *)
(* CRCs with every byte.                                                   *)
EXTENDS MCProfileStorage, CodecProbes, TLC

VARIABLE side

SideInit ==
  \/ side = "store" /\ StorageInit /\ Init /\ sources = Empty /\ probe = Machine
  \/ side = "signals" /\ StorageInit /\ catalog = (CHOOSE c \in Catalogs : TRUE) /\ ProbeInit
SideNext ==
  /\ UNCHANGED side
  /\ \/ side = "store" /\ StorageNext /\ UNCHANGED <<vars, probe>>
     \/ side = "signals" /\ ProbeNext /\ UNCHANGED storageVars
SideSpec == SideInit /\ [][SideNext]_<<storageVars, vars, probe, side>>

Signal(pgn, spn, start, bits, min, max, res, off) ==
  [pgn |-> pgn, spn |-> spn, start |-> start, bits |-> bits, min |-> min,
   max |-> max, res |-> res, off |-> off, blob |-> FALSE]
MCCatalog ==
  << Signal(1, 10, 0, 2, 0, 2, 1, 0), Signal(1, 11, 2, 3, 1, 6, 2, -4),
     Signal(2, 12, 1, 2, 0, 3, 1, 0), Signal(3, 10, 1, 4, 0, 12, 1, 0),
     [Signal(4, 20, 2, 10, 0, 3, 1, 0) EXCEPT !.blob = TRUE] >>
MCPgn ==
  [p \in 1..4 |-> [period |-> IF p = 2 THEN 0 ELSE 1,
                   length |-> IF p = 4 THEN 6 ELSE 3, variable |-> p = 4]]
MCDefaults ==
  << [signal |-> 1, shape |-> "SINE", min |-> 1, max |-> 2, period |-> 2, constant |-> 1] >>

Ask(pgn, spn, shape, min, max, param) ==
  [pgn |-> pgn, spn |-> spn, shape |-> shape, min |-> min, max |-> max, param |-> param]
MCRequests ==
  { Ask(0, 11, "RAMP", -4, 8, 2), Ask(1, 11, "TRIANGLE", 4, -2, 2),
    Ask(0, 11, "CONSTANT", 0, 4, 9), Ask(0, 10, "SQUARE", 0, 2, 0),
    Ask(1, 10, "SQUARE", 0, 9, 0), Ask(3, 10, "STEP", 0, 12, 0),
    Ask(3, 10, "CONSTANT", 0, 12, 5), Ask(0, 12, "RANDOM_WALK", 1, 2, 2),
    Ask(4, 20, "SINE", 0, 3, 2) }
MCConfigurations ==
  { 5 :> <<{0}, {1}>>, 5 :> <<{0}, {1}, {}, {0, 1}>>, (1 :> 2) @@ (2 :> 5),
    << >> }

MCScalings ==
  { [res |-> 2, off |-> -3, min |-> -3, max |-> 26],
    [res |-> 3, off |-> 1, min |-> -6, max |-> 40] }
MCPhysicals == {-6, -3, 0, 1, 6, 11, 12, 30}
MCNumerators == -30..60

(* The bits of a number from its digits of four bits.                      *)
Hex(digits) ==
  UNION {{i + 4 * (Len(digits) - k) : i \in {b \in 0..3 : (digits[k] \div 2^b) % 2 = 1}}
           : k \in DOMAIN digits}
MCPolynomial == Hex(<<14, 13, 11, 8, 8, 3, 2, 0>>)
MCCrcs == {Initial, Hex(<<13, 14, 10, 13, 11, 14, 14, 15>>)}
MCCheckMessage == [k \in 1..9 |-> Hex(<<3, k>>)]
MCCheckSum == Hex(<<12, 11, 15, 4, 3, 9, 2, 6>>)

=============================================================================
