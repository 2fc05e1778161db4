------------------------------ MODULE MCDaemon ------------------------------
(***************************************************************************)
(* Small instances of Daemon.                                              *)
(***************************************************************************)
EXTENDS Daemon

Set(value) == Lookup("complete", "string", value)

\* One acceptable set of options and the ways main tells the others apart.
Accepted ==
  [n \in OptionNames |-> Set(IF n = "log_level" THEN <<55>> ELSE <<120>>)]
MCOptionEntries ==
  {Accepted,
   [Accepted EXCEPT !["log_level"] = Set(<<56>>)],
   [Accepted EXCEPT !["device_id"] = Lookup("notfound", "string", <<>>)]}
=============================================================================
