--------------------------- MODULE MCRawConnection ---------------------------
(* Scaled buffer and header for checking RawConnection, alone and inside   *)
(* the monitor session of AuomsMonitor, with TLC.  The same run checks     *)
(* TextEventWriterConfig, the loader of an output's text writer settings.  *)
EXTENDS AuomsMonitor, TextEventWriterConfig

CONSTANTS s1, s2    \* two strings of a configuration

(***************************************************************************)
(* TextEventWriterConfig's properties are constant formulas, which TLC     *)
(* evaluates once over all the bounded configurations.  They are stated    *)
(* in the run's initial state (monitor not yet started) so that a failure  *)
(* is reported with that state.                                            *)
(***************************************************************************)

\* Whatever order the unordered_map runs LoadFromConfig()'s setters in, and
\* whichever of them fails or throws, each field is what its own setter
\* alone makes of the configuration (LoadIsPerKey).
WriterLoadIsPerKey == mpc = "start" => LoadIsPerKey

\* The record_type_name_overrides setter keeps exactly the entries its
\* declarative reference gives: prior entries, the members before the first
\* bad one, the first spelling of each id (OverridesMatchReference).
WriterOverridesMatchReference == mpc = "start" => OverridesMatchReference
=============================================================================
