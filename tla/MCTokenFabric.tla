--------------------------- MODULE MCTokenFabric ---------------------------
(***************************************************************************)
(* The fabric on every stream of up to MaxCommands commands, well-tokened  *)
(* or not.  Token numbers are positions, as assign_tokens leaves them, or, *)
(* with Restart, start again at 1 in the middle, as they do at a second    *)
(* function of a module.                                                   *)
(***************************************************************************)
EXTENDS TokenFabric

CONSTANTS MaxCommands, Opcodes

TokenOut(k, restart) == IF k > restart THEN k - restart ELSE k

Command(k, restart) ==
  {[ip |-> ip, opcode |-> op, token_in |-> t, token_out |-> TokenOut(k, restart)] :
     ip \in Cpu, op \in Opcodes, t \in 0..MaxCommands}
  \cup
  {[ip |-> ip, opcode |-> 1, token_in |-> t, token_out |-> TokenOut(k, restart)] :
     ip \in Rtl, t \in 0..MaxCommands}

\* All sequences of n commands.
RECURSIVE StreamsOf(_, _)
StreamsOf(n, restart) ==
  IF n = 0 THEN {<<>>}
  ELSE {Append(s, c) : s \in StreamsOf(n - 1, restart), c \in Command(n, restart)}

MCStreams == UNION {StreamsOf(n, r) : n \in 0..MaxCommands, r \in {1, MaxCommands}}
=============================================================================
