---------------------------- MODULE MCFileTable ------------------------------
(* The file table for TLC: two descriptors, two files, one buffer of two bytes;
   the shell stores a file longer than a descriptor holds. *)
EXTENDS FileTable

MCBuffers    == {<<0, 0>>}
MCShellFiles == {<<1, 1, 1>>}
MCJunk       == MCShellFiles

\* States that differ in the last reply only: no action reads it.
MCView == <<table, disk, wild>>
==============================================================================
