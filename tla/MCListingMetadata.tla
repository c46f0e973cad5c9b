-------------------------- MODULE MCListingMetadata --------------------------
(* Two refreshes and a correction of one service, beside fills. *)
EXTENDS ListingMetadata
=============================================================================
