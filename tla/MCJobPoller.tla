------------------------------ MODULE MCJobPoller ------------------------------
(***************************************************************************)
(* A small instance of JobPoller for TLC: two jobs of the kinds that meet. *)
(***************************************************************************)
EXTENDS JobPoller

TwoJobs == {<<"push", "push">>, <<"unfit", "pull">>,
            <<"push", "long error">>, <<"long error", "push">>,
            <<"malformed", "push">>}
=============================================================================
