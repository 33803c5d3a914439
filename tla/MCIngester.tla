------------------------------- MODULE MCIngester ------------------------------
(*****************************************************************************)
(* Two files of two versions, searched by words or by a model.               *)
(*****************************************************************************)
EXTENDS Ingester

CONSTANTS a, b, m

MCPaths == 1 .. 2
MCTexts == {a, b}
MCModels == {m}
=============================================================================
