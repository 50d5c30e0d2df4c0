----------------------------- MODULE MC_Config -----------------------------
(***************************************************************************)
(* Config for every text of up to MaxPieces pieces: entries of both types, *)
(* in upper case, unknown, of the wrong type, and broken ones.             *)
(***************************************************************************)
EXTENDS Config, SequencesExt

CONSTANT MaxPieces

MCLower == [t \in {"image", "IMAGE", "label", "root", "ro", "default", "what", "v", "w"} |->
                IF t = "IMAGE" THEN "image" ELSE t]

MCOptions == [default |-> "strg", root |-> "strg", ro |-> "flag"]
MCImage == [image |-> "strg", label |-> "strg", root |-> "strg", ro |-> "flag"]

Pieces == {
    <<"image", "=", "v">>, <<"IMAGE", "=", "w">>, <<"image">>, <<"label", "=", "v">>,
    <<"root", "=", "v">>, <<"root", "=", "w">>, <<"root">>, <<"ro">>, <<"ro", "=", "v">>,
    <<"default", "=", "v">>, <<"what">>, <<"=">>, <<Bad>> }

MCTexts == UNION { { FlattenSeq(s) : s \in [1 .. n -> Pieces] } : n \in 0 .. MaxPieces }
=============================================================================
