-------------------------------- MODULE Json --------------------------------
(***************************************************************************)
(* The JSON values that serde reads (serde_json::Value): payloads of       *)
(* events and of opening nodes.  A value has a type, what matters of its   *)
(* text, and its parts, those of an object under their keys.  The readers  *)
(* refuse what is nested deeper than a bound.                              *)
(***************************************************************************)
EXTENDS Integers, Sequences

Types == {"text", "array", "object", "false", "other"}

\* All values nested to a depth, with the given contents of texts.
JsonValues(contents, depth) ==
    LET level[n \in Nat] ==
          IF n = 0 THEN {}
          ELSE [t : Types, text : contents, keys : Seq(STRING), parts : Seq(level[n - 1])]
    IN level[depth]

Value(t, text, keys, parts) == [t |-> t, text |-> text, keys |-> keys, parts |-> parts]
=============================================================================
