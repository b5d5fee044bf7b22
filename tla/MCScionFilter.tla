--------------------------- MODULE MCScionFilter ---------------------------
(***************************************************************************)
(* ScionFilter on a direct filter and a buffering one.                     *)
(***************************************************************************)
EXTENDS ScionFilter

CONSTANTS upper, hoedown

MCFilters   == {upper, hoedown}
MCBuffering == {hoedown}
=============================================================================
