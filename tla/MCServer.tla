------------------------------ MODULE MCServer ------------------------------
(***************************************************************************)
(* What stands between a client and the host, side by side: OAuth, the     *)
(* request gateway, commands and their output.  They share no state; `part'*)
(* says which of them a behaviour is of.                                   *)
(***************************************************************************)
EXTENDS Commands, CommandOutput, Access, Gateway, TLC

VARIABLE part

MCSentResources == {<<"b1", "slash">>, <<"b2", "mcp">>}

WellFormed ==
  [id : {"absent", "null", "value", "unencodable"}, params : {"object"}, meta : {"absent", "modern", "unsupported"},
   method : {"initialize", "tools/call", "tools/list", "notifications/cancelled", "resources/list"},
   capabilities : BOOLEAN, envelope : {TRUE}, origin : {TRUE}, bearer : {TRUE}, body : {TRUE},
   base : {"known"}, quotable : {TRUE}, duplicate : {FALSE},
   versionHeader : {"absent", "modern", "legacy", "unknown"},
   methodHeader : {"absent", "tools/call", "tools/list"},
   nameHeader : {"absent", "read_file", "apply_patch"}, tool : {"absent", "read_file", "unknown"},
   arguments : BOOLEAN]
ToolCalls == {r \in WellFormed : r.method = "tools/call" /\ r.tool = "read_file" /\ r.arguments /\ r.capabilities}
\* One thing wrong with a tool call.
Faulty(r) == { [r EXCEPT !.origin = FALSE], [r EXCEPT !.bearer = FALSE], [r EXCEPT !.body = FALSE],
               [r EXCEPT !.envelope = FALSE], [r EXCEPT !.duplicate = TRUE], [r EXCEPT !.params = "bad"],
               [r EXCEPT !.base = "security"], [r EXCEPT !.base = "validation"] }
\* An error about one of these cannot be encoded when it quotes the request.
Unquotable == {[r EXCEPT !.quotable = FALSE] : r \in {q \in WellFormed : q.id = "value"}}
MCGatewayRequests == WellFormed \cup Unquotable \cup UNION {Faulty(r) : r \in ToolCalls}

\* Threads are alike, and so are PKCE verifiers.
Symmetry == Permutations(RequestThreads \cup Exchangers) \cup Permutations(Verifiers)

----------------------------------------------------------------------------
ServerInit == /\ part \in {"commands", "output", "access", "gateway"}
              /\ CommandsInit /\ OutputInit /\ AccessInit /\ GatewayInit
ServerNext ==
  /\ \/ part = "commands" /\ CommandsNext /\ UNCHANGED <<outputVars, accessVars, gatewayVars>>
     \/ part = "output" /\ OutputNext /\ UNCHANGED <<commandsVars, accessVars, gatewayVars>>
     \/ part = "access" /\ AccessNext /\ UNCHANGED <<commandsVars, outputVars, gatewayVars>>
     \/ part = "gateway" /\ GatewayNext /\ UNCHANGED <<commandsVars, outputVars, accessVars>>
  /\ UNCHANGED part
ServerSpec == ServerInit /\ [][ServerNext]_<<part, commandsVars, outputVars, accessVars, gatewayVars>>
=============================================================================
