------------------------- MODULE MCWikipediaSource -------------------------
(***************************************************************************)
(* WikipediaSource with the attempts and the cap of the code.              *)
(***************************************************************************)
EXTENDS WikipediaSource

(* Invalid, none, below the minimum interval, above it, above the cap.     *)
MCRetryAfters == {-1, 0, 1, 7, 90}
=============================================================================
