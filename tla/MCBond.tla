------------------------------- MODULE MCBond -------------------------------
EXTENDS Bond

(* Ratios that differ by direction: of two bytes, the second connection      *)
(* uploads one and the third the other, but all of a download is on the      *)
(* second.  The first carries the headers.                                   *)
MCUpload == <<30, 60, 10>>
MCDownload == <<0, 100, 0>>
=============================================================================
