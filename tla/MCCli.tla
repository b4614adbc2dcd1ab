------------------------------- MODULE MCCli --------------------------------
(* Two clients, the commands that share words or change the mode, and lines *)
(* that enter and leave a mode, use its data, end the session or run none.  *)
EXTENDS Cli

MCEarlyCommands == <<
  Command("global", <<"neighbor">>, "cli_neighbor"),
  Command("global", <<"no", "neighbor">>, "cli_no_neighbor"),
  Command("global", <<"show", "neighbors">>, "cli_show_neighbors"),
  Command("global", <<"wccp">>, "cli_enter_wccp_mode"),
  Command("wccp", <<"server">>, "cli_wccp_server"),
  Command("wccp", <<"password">>, "cli_wccp_password"),
  Command("wccp", <<"exit">>, "cli_exit_wccp_mode") >>
MCMainCommands == <<
  Command("global", <<"show", "compression">>, "cli_show_compression"),
  Command("global", <<"compression", "enable">>, "cli_compression_enable") >>
MCCliCommands == <<
  Command("global", <<"exit">>, "cli_quit"),
  Command("global", <<"test">>, "cli_mode_test"),
  Command("test", <<"exit">>, "cli_mode_test_exit"),
  Command("test", <<"show", "parameters">>, "cli_show_params") >>

MCLine == {<<"wccp", "3">>, <<"server", "r1">>, <<"exit">>}
=============================================================================
