----------------------------- MODULE MCLogging ------------------------------
(* The instance of Logging that TLC checks: a filter by level, one by      *)
(* identifier, one by both and one by two identifiers.                     *)
EXTENDS Logging

MCFilters == {[ids |-> <<>>, level |-> 1], [ids |-> <<2>>, level |-> NoLevel],
              [ids |-> <<2>>, level |-> 1], [ids |-> <<0, 2>>, level |-> NoLevel]}
=============================================================================
