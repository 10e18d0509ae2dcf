---------------------------- MODULE MCSmtpSession ----------------------------
(* Small instances of SmtpSession. *)
EXTENDS SmtpSessionInvariant

\* A prompt server whose replies fit a chunk, and a slow one whose do not.
MCPeers == {[slow |-> FALSE, chunks |-> 1], [slow |-> TRUE, chunks |-> 2]}

MCPrompt == {[slow |-> FALSE, chunks |-> 1]}
=============================================================================
