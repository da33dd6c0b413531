--------------------------- MODULE MCCommandPath ---------------------------
(* Calls that share a command id: the same chat command sent again, or a     *)
(* command of a game room that was given the id of a chat command.           *)
EXTENDS CommandPath

SentCommands == {<<"a", "chat">>, <<"a", "move">>}
Chat == {"chat"}
=============================================================================
