----------------------------- MODULE MCScanData -----------------------------
(***************************************************************************)
(* Instances of ScanData for TLC: what the application asks for.           *)
(***************************************************************************)
EXTENDS ScanData

\* The whole range, parts of it with and without grouping, and some that are refused
SomeAreas == {<<-2, 1, 2>>, <<0, 1, 0>>, <<1, 0, 1>>, <<-2, 2, 1>>, <<-3, 0, 1>>,
              <<0, 1, 100>>}
=============================================================================
