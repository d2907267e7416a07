------------------------- MODULE MappingSearchFaults -------------------------
(***************************************************************************)
(* MappingSearch with a history variable that records which of its calls   *)
(* to the database failed for the request being answered. The code keeps   *)
(* no such record: a failed call looks to it like one that found nothing.  *)
(***************************************************************************)
EXTENDS MappingSearch

\* No request is None.
ASSUME RequestsAssumption == None \notin Query

VARIABLE errors    \* the calls that failed, each with the candidate it was for

faultVars == <<vars, errors>>

\* The call of this step failed: it has no result although there is one.
LoadFails ==
    /\ In("recording_search") /\ status' = "running"
    /\ release_recording_index' = None
    /\ LoadIndex(db, selected_artist_credit_id) # None

CanonicalFails ==
    /\ In("lookup_canonical_release")
    /\ release_matches' = None
    /\ Canonical(db, selected_artist_credit_id, selected_recording_id) # None

MetadataFails ==
    /\ In("success_fetch_metadata")
    /\ HasMetadata(db, search_match) /\ ~answer'.metadata

Failed ==
    CASE LoadFails      -> {<<"load", artist_match_index + 1>>}
      [] CanonicalFails -> {<<"canonical", artist_match_index + 1>>}
      [] MetadataFails  -> {<<"metadata", artist_match_index + 1>>}
      [] OTHER          -> {}

FaultInit == Init /\ errors = {}

FaultSearch(q) == Search(q) /\ errors' = {}

FaultStep == Step /\ errors' = errors \cup Failed

FaultNext == (\E q \in Query : FaultSearch(q)) \/ FaultStep

FaultSpec == FaultInit /\ [][FaultNext]_faultVars /\ WF_vars(Step)

-----------------------------------------------------------------------------
(* Properties.                                                             *)

\* The machine answers what MappingLookup answers, whatever the request before
\* left behind and whichever calls fail: an index that cannot be read costs
\* its candidate (fsm.hpp:380), a canonical release that cannot be read the
\* match (fsm.hpp:463), metadata that cannot be read the names (fsm.hpp:119).
Lookup == INSTANCE MappingLookup
             WITH request <- IF status = "idle" THEN None ELSE query,
                  reply   <- answer

RefinesLookup == Lookup!Spec
=============================================================================
