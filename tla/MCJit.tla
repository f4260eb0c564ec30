-------------------------------- MODULE MCJit --------------------------------
(* Small instances of MoonJit.  f and g call g, and f needs a runtime        *)
(* helper; gRaw optimises to g; x is rejected; u calls a symbol that does    *)
(* not exist, and the helper as if it were another function; d calls itself; *)
(* g2 is another function named g.                                           *)
EXTENDS MoonJit

CONSTANTS f, g, gRaw, g2, x, u, d, none

MCName == (f :> "f") @@ (g :> "g") @@ (gRaw :> "g") @@ (g2 :> "g") @@ (x :> "x") @@ (u :> "u") @@ (d :> "d")
All == DOMAIN MCName
MCSpec == All \ {g2, d}
SameNames == {f, g, g2}
MCCallsAs ==
  [s \in All |-> CASE s \in {f, g} -> {<<"g", "i32">>} [] s = d -> {<<"d", "i32">>} [] s = u -> {<<"zz", "i32">>, <<"memcpy", "f64">>}
                   [] OTHER -> {}]
MCCalls == [s \in All |-> {c[1] : c \in MCCallsAs[s]}]
MCHelpers == [s \in All |-> IF s = f THEN {<<"memcpy", "ptr">>} ELSE {}]
MCSignature == [s \in All |-> "i32"]
MCArity == [s \in All |-> IF s = f THEN 1 ELSE 0]
MCOptimized == [s \in All |-> IF s = gRaw THEN g ELSE s]
MCUnit == {<<>>, <<f, gRaw>>, <<x, f>>, <<u, x>>, <<g, gRaw>>}
SameUnits == {<<f, g>>, <<f, g2>>}
FewSpecs == {g, x, u, d}
FewUnits == {<<u, x>>, <<x, d>>}
MCStartup == {<<"add", "i32">>}
MCLinker == {"add", "memcpy"}
=============================================================================
