----------------------- MODULE MCConfigStoreDeleteAll -----------------------
(* Five items in uneven batches. *)
EXTENDS ConfigStoreDeleteAll
=============================================================================
