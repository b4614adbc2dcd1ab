------------------------------- MODULE MCWccp -------------------------------
(* WCCP with two service groups, two routers and two web-caches. *)
EXTENDS Wccp

MCView == {<<"other", "us">>}
=============================================================================
