----------------------------- MODULE MCPagination -----------------------------
(* Instance of Pagination for TLC: the sizes the code clamps, and those    *)
(* around the clamps.                                                      *)
EXTENDS Pagination

MCPageSizes == {-1, 0, 1, MaxListPageSize, MaxListPageSize + 1}
===============================================================================
