------------------------------ MODULE MCDesktop ------------------------------
(* A desktop of 6 by 8 pixels: windows of 4 by 3 with the close box in the corner. *)
EXTENDS Desktop

MCCloseBox == {<<3, 0>>}
MCMoves    == {<<0, 0>>, <<2, 0>>, <<-2, -2>>}
==============================================================================
