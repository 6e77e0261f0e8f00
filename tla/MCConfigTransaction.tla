-------------------------- MODULE MCConfigTransaction --------------------------
(* An instance of the configuration transaction for TLC: two short         *)
(* scalars of one PGN, a long one, two blobs of which one is text and      *)
(* never sent; a capacity of three signals and two PGNs.                   *)
EXTENDS ConfigRefinement, TLC

CONSTANTS e, s, x, v, w, pe, px, pw, pv, P1

MCPgnOf == (e :> pe) @@ (s :> pe) @@ (x :> px) @@ (v :> pv) @@ (w :> pw)
MCRawMin == [k \in {e, s, x, v, w} |-> IF k = w THEN 0 ELSE 1]
MCRawMax == [k \in {e, s, x, v, w} |-> CASE k = e -> 2 [] k = w -> 0 [] OTHER -> 1]
MCProfiles == (P1 :> {e, v})
MCDefaults == (e :> 1)
MCChunks ==
  [length : {2}, offset : {0, 1}, padded : {TRUE}] \cup
  {[length |-> 1, offset |-> 0, padded |-> TRUE],    (* shorter             *)
   [length |-> 0, offset |-> 0, padded |-> TRUE],    (* and the bad ones    *)
   [length |-> 3, offset |-> 0, padded |-> TRUE],
   [length |-> 1, offset |-> 1, padded |-> TRUE],
   [length |-> 2, offset |-> 0, padded |-> FALSE]}
MCImages ==
  [profile : {P1, CUSTOM},
   values : {(e :> 2), (e :> 1) @@ (v :> <<1, 1>>), (x :> 1) @@ (v :> <<1>>),
             (e :> 1) @@ (w :> <<0, 0>>) @@ (x :> 1), (s :> 0)}]

=============================================================================
