---------------------------- MODULE MCPagination ----------------------------
(* Pagination on small instances. *)
EXTENDS Pagination
=============================================================================
