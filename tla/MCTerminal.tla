------------------------------ MODULE MCTerminal ------------------------------
(* One session, the panes of two visits to its page and one goroutine besides *)
(* the pump that tells of the end.                                            *)
EXTENDS TerminalSession

CONSTANT waiter

MCWatchers == {waiter}
================================================================================
