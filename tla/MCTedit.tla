------------------------------ MODULE MCTedit ------------------------------
(* The files tedit is started with: an empty one, one with a character of  *)
(* two cells, one with a byte that is no UTF-8, one with a full line.      *)
EXTENDS Tedit

CONSTANTS a, wide, byte

MCOpenFiles == {<< <<a>>, <<wide>> >>, << <<byte, a, a, a>> >>}
=============================================================================
