------------------------------ MODULE MCMemory -------------------------------
(* Small instances of Memory.  Frames 0x130..0x2FF become 10..LastFrame and the
   window 0x200..0x2FF the pages from USER_PG_START on; an image asks for the
   first of them, the stack is the last.                                      *)
EXTENDS Memory

MCStack  == {USER_PG_END - 1}
MCImages == {{USER_PG_START}}
==============================================================================
