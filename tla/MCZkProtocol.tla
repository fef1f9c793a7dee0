----------------------------- MODULE MCZkProtocol -----------------------------
(***************************************************************************)
(* Small instances of ZkProtocol for TLC.                                  *)
(***************************************************************************)
EXTENDS ZkProtocol

\* A sync, with and without a clear, the two kinds of jobs and a scan.
AllScripts == {
  <<"connect", "pull", "clear", "exit">>,
  <<"connect", "pull", "exit">>,
  <<"connect", "templates", "exit">>,
  <<"connect", "push", "exit">>,
  <<"connect", "info", "exit">>}
PullScripts == {<<"connect", "pull", "exit">>}
=============================================================================
