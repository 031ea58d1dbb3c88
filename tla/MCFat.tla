-------------------------------- MODULE MCFat --------------------------------
(* Fat12 with interchangeable names.  Once an operation broke off, nothing but
   WritesLast looks at the contents and at what was written, and it no longer asks. *)
EXTENDS Fat12, TLC

Renamings == Permutations(Name)
Unbroken == <<fat, dir, op, faults, crashes, torn, astray, clean,
              IF clean THEN <<data, written>> ELSE <<>> >>
==============================================================================
