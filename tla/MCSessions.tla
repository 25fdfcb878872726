----------------------------- MODULE MCSessions -----------------------------
(* Two sessions, two names, and the program lists an application may come back
   with: the same program, one with new schemas, one with new wasm, another
   program instead, one listed twice, one that does not compile. *)
EXTENDS Sessions

CONSTANTS s1, s2, none

V(w, c) == [wasm |-> w, schemas |-> c]
P(id, version) == [id |-> id, version |-> version, compiles |-> TRUE]

MCConfigs == {<<P("g", V(1, 1))>>,
              <<P("g", V(1, 2)), P("h", V(1, 1))>>,
              <<P("g", V(2, 1))>>,
              <<P("h", V(1, 1))>>,
              <<P("g", V(1, 1)), P("g", V(2, 1))>>,
              <<[P("g", V(1, 1)) EXCEPT !.compiles = FALSE]>>}
MCTexts == {"", "a", "b"}
=============================================================================
