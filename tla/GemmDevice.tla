----------------------------- MODULE GemmDevice -----------------------------
(***************************************************************************)
(* What the SlugCXL endpoint promises its client: a device that serves     *)
(* requests one at a time and in order, each at one instant, and answers   *)
(* each of them once, with the tag of the request.                         *)
(***************************************************************************)
EXTENDS Integers, Sequences

CONSTANTS
  Requests,            \* what clients may ask
  Zero,                \* the zero matrix
  Product(_, _)        \* the matrix product

VARIABLES requests, responses, a, b, c

deviceVars == <<requests, responses, a, b, c>>

DeviceAnswer(req) ==
  [kind |-> CASE ~req.claimed -> "DispatchFailed"
              [] req.claimed /\ req.class = "Req" -> "MemData"
              [] OTHER -> "Cmp",
   tag |-> req.tag,
   data |-> IF req.claimed /\ req.class = "Req" THEN c[req.token.addr] ELSE 0]

Ask(req) ==
  /\ requests' = Append(requests, req)
  /\ UNCHANGED <<responses, a, b, c>>

Loads(req, sel) == req.claimed /\ req.token.op = "load" /\ req.token.sel = sel

Serve ==
  LET req == Head(requests)
  IN  /\ requests # <<>>
      /\ requests' = Tail(requests)
      /\ responses' = Append(responses, DeviceAnswer(req))
      /\ a' = IF Loads(req, 0) THEN [a EXCEPT ![req.token.addr] = req.token.data] ELSE a
      /\ b' = IF Loads(req, 1) THEN [b EXCEPT ![req.token.addr] = req.token.data] ELSE b
      /\ c' = IF req.claimed /\ req.token.op = "compute" THEN Product(a, b) ELSE c

Take ==
  /\ responses # <<>>
  /\ responses' = Tail(responses)
  /\ UNCHANGED <<requests, a, b, c>>

DeviceInit ==
  /\ requests = <<>> /\ responses = <<>>
  /\ a = Zero /\ b = Zero /\ c = Zero

DeviceNext == (\E req \in Requests : Ask(req)) \/ Serve \/ Take

DeviceSpec == DeviceInit /\ [][DeviceNext]_deviceVars
=============================================================================
