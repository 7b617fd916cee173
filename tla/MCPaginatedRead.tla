-------------------------- MODULE MCPaginatedRead --------------------------
(* Collections of up to two and a half pages; what is new gets a new number. *)
EXTENDS PaginatedRead

CONSTANT Longest

\* Pages of one record or of a full limit, with and without limit and total.
AllServers == {s \in [served : 1 .. Limit, limit : 0 .. Limit, total : BOOLEAN] :
                  s.limit \in {0, s.served}}

FirstTables == {[i \in 1 .. n |-> i] : n \in 0 .. Longest}
=============================================================================
