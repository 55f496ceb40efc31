----------------------------- MODULE MCPatchLines -----------------------------
(* PatchLines over the diffs of Diffs *)
EXTENDS PatchLines, Diffs
=============================================================================
