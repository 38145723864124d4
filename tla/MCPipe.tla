------------------------------- MODULE MCPipe -------------------------------
(* The messages of Pipe, for its inherited constant Message.               *)
EXTENDS Pipe

MCMessage ==
  [type : {"kPipe"}, from : 0 .. MaxBytes, to : 0 .. MaxBytes]
    \cup {[type |-> "kKeyPush"]}
=============================================================================
