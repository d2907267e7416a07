------------------------- MODULE MCMappingSearchFaults -------------------------
(* MappingSearchFaults on the data directories of MCMappingSearch.          *)
EXTENDS MappingSearchFaults, MCMappingSearch
=============================================================================
