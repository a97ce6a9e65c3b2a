------------------------------ MODULE McpTools ------------------------------
(***************************************************************************)
(* POST /_mcp: the tools/call requests of one worker process.  A call is   *)
(* checked, a write is confirmed in two phases with a token kept in the    *)
(* Django cache, and the tool runs in a thread pool while the request      *)
(* waits for it with a timeout.  The views behind the tools commit or      *)
(* answer with an error; the process may be told to shut down.             *)
(***************************************************************************)
EXTENDS Naturals, Sequences, FiniteSets

CONSTANTS Calls,       \* requests, by their JSON-RPC id
          ToolArguments,
          Orgs,
          ToolSettings, \* settings, tenant version and tools called in a behaviour
          MaxWorkers

VARIABLES deployed,    \* a member of ToolSettings
          call,        \* each request: step, tool, args, org, token, answer
          cache,       \* confirmation tokens in the Django cache
          previews,    \* tokens issued so far, with what was previewed
          work,        \* the future of each request in the thread pool
          poolQueue,   \* futures not yet started
          shutdown     \* _shutdown_in_progress

mcpVars == <<deployed, call, cache, previews, work, poolQueue, shutdown>>

\* the registered tools: what ToolConfig says of them
TOOL_CONFIG ==
    [create_group   |-> [write |-> TRUE,  v2 |-> FALSE, relation |-> FALSE, v1_permission |-> FALSE],
     delete_workspace |-> [write |-> TRUE, v2 |-> TRUE, relation |-> FALSE, v1_permission |-> FALSE],
     list_roles     |-> [write |-> FALSE, v2 |-> FALSE, relation |-> TRUE,  v1_permission |-> TRUE],
     list_bindings  |-> [write |-> FALSE, v2 |-> TRUE,  relation |-> TRUE,  v1_permission |-> FALSE]]

Config(c) == TOOL_CONFIG[call[c].tool]

McpInit ==
    /\ deployed \in ToolSettings
    /\ call = [c \in Calls |-> [step |-> "idle", answer |-> "none"]]
    /\ cache = {} /\ previews = {}
    /\ work = [c \in Calls |-> "none"]
    /\ poolQueue = <<>>
    /\ shutdown = FALSE

Respond(c, answer) == call' = [call EXCEPT ![c].step = "answered", ![c].answer = answer]

\* MCPView.post, _parse_jsonrpc: a well-formed tools/call; a client sends no token or
\* one it was given, with the arguments of its choice
Post(c) ==
    /\ call[c].step = "idle"
    /\ \E tool \in deployed.tools, args \in ToolArguments, org \in Orgs,
          token \in {"none"} \cup {p.token : p \in previews} :
         call' = [call EXCEPT ![c] = [step |-> "posted", tool |-> tool, args |-> args,
                                      org |-> org, token |-> token, answer |-> "none"]]
    /\ UNCHANGED <<deployed, cache, previews, work, poolQueue, shutdown>>

\* _check_v1_access, _check_kessel_access: with activated V2 writes Kessel decides, and
\* an error there denies; otherwise the V1 permission of the tool, if it names one
AccessGranted(c) ==
    \/ ~Config(c).relation
    \/ deployed.activated /\ deployed.kessel = "allowed"
    \/ ~deployed.activated /\ Config(c).v1_permission /\ deployed.v1

Rejected(c) ==
    \/ shutdown
    \/ Config(c).v2 /\ ~deployed.v2
    \/ Config(c).write /\ ~deployed.writes
    \/ call[c].org = "none"
    \/ ~AccessGranted(c)

\* _handle_tools_call up to the confirmation
Dispatch(c) ==
    /\ call[c].step = "posted"
    /\ \/ Rejected(c) /\ Respond(c, "error")
       \/ /\ ~Rejected(c)
          /\ call' = [call EXCEPT ![c].step =
                        IF Config(c).write /\ deployed.confirm THEN "confirm" ELSE "submit"]
    /\ UNCHANGED <<deployed, cache, previews, work, poolQueue, shutdown>>

Described(c, token) ==
    [token |-> token, tool |-> call[c].tool, args |-> call[c].args, org |-> call[c].org]

\* _generate_confirmation_token, _generate_write_preview
Preview(c) ==
    /\ call[c].step = "confirm" /\ call[c].token = "none"
    /\ cache' = cache \cup {Described(c, c)}
    /\ previews' = previews \cup {Described(c, c)}
    /\ Respond(c, "preview")
    /\ UNCHANGED <<deployed, work, poolQueue, shutdown>>

\* _validate_confirmation_token, what is stored against what is asked for
ValidToken(c) == Described(c, call[c].token) \in cache

CheckToken(c) ==
    /\ call[c].step = "confirm" /\ call[c].token # "none"
    /\ \/ ~ValidToken(c) /\ Respond(c, "refused")
       \/ ValidToken(c) /\ call' = [call EXCEPT ![c].step = "consume"]
    /\ UNCHANGED <<deployed, cache, previews, work, poolQueue, shutdown>>

\* the delete that follows the get
ConsumeToken(c) ==
    /\ call[c].step = "consume"
    /\ cache' = {t \in cache : t.token # call[c].token}
    /\ call' = [call EXCEPT ![c].step = "submit"]
    /\ UNCHANGED <<deployed, previews, work, poolQueue, shutdown>>

\* MCP_WRITE_CONFIRMATION_TTL is over, or the cache lost the entry
ExpireToken(t) ==
    /\ t \in cache
    /\ cache' = cache \ {t}
    /\ UNCHANGED <<deployed, call, previews, work, poolQueue, shutdown>>

\* _execute_with_timeout: a pool that was shut down takes no futures
Submit(c) ==
    /\ call[c].step = "submit"
    /\ \/ /\ shutdown
          /\ Respond(c, "error")
          /\ UNCHANGED <<work, poolQueue>>
       \/ /\ ~shutdown
          /\ work' = [work EXCEPT ![c] = "queued"]
          /\ poolQueue' = Append(poolQueue, c)
          /\ call' = [call EXCEPT ![c].step = "waiting"]
    /\ UNCHANGED <<deployed, cache, previews, shutdown>>

StartWork ==
    /\ poolQueue # <<>>
    /\ Cardinality({c \in Calls : work[c] = "running"}) < MaxWorkers
    /\ work' = [work EXCEPT ![Head(poolQueue)] = "running"]
    /\ poolQueue' = Tail(poolQueue)
    /\ UNCHANGED <<deployed, call, cache, previews, shutdown>>

\* the tool calls its view: the view carries out the operation, refuses it with an
\* error the tool returns as text (_call_view_json), or the tool raises
EndWork(c) ==
    /\ work[c] = "running"
    /\ work' = [work EXCEPT ![c] = "executed"] \/ work' = [work EXCEPT ![c] = "refused"]
          \/ work' = [work EXCEPT ![c] = "raised"]
    /\ UNCHANGED <<deployed, call, cache, previews, poolQueue, shutdown>>

AnswerFor(w) ==
    IF w = "executed" THEN "done" ELSE IF w = "refused" THEN "refused" ELSE "error"

Answer(c) ==
    /\ call[c].step = "waiting"
    /\ work[c] \in {"executed", "refused", "raised", "cancelled"}
    /\ Respond(c, AnswerFor(work[c]))
    /\ UNCHANGED <<deployed, cache, previews, work, poolQueue, shutdown>>


TimeoutAnswer == "timeout"

\* ToolTimeoutError: the future is not cancelled and goes on
TimeOut(c) ==
    /\ call[c].step = "waiting" /\ work[c] \in {"queued", "running"}
    /\ Respond(c, TimeoutAnswer)
    /\ UNCHANGED <<deployed, cache, previews, work, poolQueue, shutdown>>

\* mcp_shutdown: futures that have not started are cancelled
Shutdown ==
    /\ ~shutdown
    /\ shutdown' = TRUE
    /\ work' = [c \in Calls |-> IF work[c] = "queued" THEN "cancelled" ELSE work[c]]
    /\ poolQueue' = <<>>
    /\ UNCHANGED <<deployed, call, cache, previews>>

McpNext ==
    \/ \E c \in Calls :
         \/ Post(c) \/ Dispatch(c) \/ Preview(c) \/ CheckToken(c) \/ ConsumeToken(c)
         \/ Submit(c) \/ EndWork(c) \/ Answer(c) \/ TimeOut(c)
    \/ (\E t \in cache : ExpireToken(t)) \/ StartWork \/ Shutdown

McpSpec == McpInit /\ [][McpNext]_mcpVars

-----------------------------------------------------------------------------
(* Properties                                                              *)


=============================================================================
