-------------------------- MODULE MCContextSlices --------------------------
(***************************************************************************)
(* Texts of up to three paragraphs of 0 to 4 tokens, against contexts with *)
(* room for 0, 2 or 3 tokens: paragraphs that fit, that must be cut, that  *)
(* are skipped over and that hold no token at all.                         *)
(***************************************************************************)
EXTENDS ContextSlices

MCParagraphs == UNION {[1..n -> 0..4] : n \in 0..3}

=============================================================================
