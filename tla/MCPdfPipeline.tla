---------------------------- MODULE MCPdfPipeline ----------------------------
(* PdfPipeline for TLC: a text of two chunks, so that a prefix of it exists; *)
(* two slots, as many handlers as one job can have at once under            *)
(* MaxStalled = 1.                                                          *)
EXTENDS PdfPipeline

CONSTANTS text, s1, s2

TwoChunks == [p \in Jobs |-> 2]
=============================================================================
