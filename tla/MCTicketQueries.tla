--------------------------- MODULE MCTicketQueries ---------------------------
(* The instances of TicketSystem with what its queries show.                *)
EXTENDS MCTicketSystem, TicketQueries
=============================================================================
