-------------------------- MODULE MCDocumentRender --------------------------
(* TLC instances of DocumentRender: one slip rendered again and again under *)
(* edits and faults, or two slips and a channel with room for one.          *)
EXTENDS DocumentRender

CONSTANTS d1, d2

OneSlip  == {d1}
TwoSlips == {d1, d2}
=============================================================================
