--------------------------- MODULE MCRequestHandler ---------------------------
(* RequestHandler for TLC. *)
EXTENDS RequestHandler

===============================================================================
