----------------------------- MODULE MCMcpSession -----------------------------
(* Small instances of McpSession for TLC. *)
EXTENDS McpSession, TLC

CONSTANTS alpha, beta, desk, laptop

M(id, method, tool) ==
  [json |-> TRUE, id |-> id, method |-> method, tool |-> tool, large |-> FALSE,
   number |-> 0]

SomeMessages ==
  { M(1, "tools/call", "report_change"), M(NoId, "initialized", "none"),
    [M(NoId, "none", "none") EXCEPT !.json = FALSE],
    [M(1, "tools/call", "report_file_edit") EXCEPT !.large = TRUE] }
AnyMessages ==
  SomeMessages \cup {M(1, "tools/call", tool) : tool \in Tools}
    \cup {M(1, method, "none") : method \in Methods}

SomeFrames ==
  { [format |-> "ContentLength", before |-> <<Line("bad length")>>],
    [format |-> "ContentLength", before |-> <<Line("other")>>],
    [format |-> "JsonLine", before |-> <<Line("blank")>>] }

(* An editor starts a bridge and leaves the rest to config.toml; a person  *)
(* may start a host on the command line.                                   *)
Bridge == [machine |-> desk, mode |-> "none", bridge |-> TRUE, flags |-> <<>>]
Serve == [Bridge EXCEPT !.mode = "host", !.bridge = FALSE]
Stdio == [Bridge EXCEPT !.bridge = FALSE]
OtherPorts == [mcp_port |-> 5231, ipc_port |-> 5232]
HostUrl == [host_url |-> <<desk, 4231>>]

With(l, f) == [launch |-> l, file |-> f]
Network(keys) == Settings({"network"}, keys)
ClientMode == [mode |-> "client"]
Laptop == [Bridge EXCEPT !.machine = laptop]

Pair(a, b) == [p \in {alpha, beta} |-> IF p = alpha THEN a ELSE b]

(* A team of two laptops; two windows of which one cannot listen.          *)
TeamsAndWindows ==
  { Pair(With(Serve, Missing), With(Laptop, Network(ClientMode @@ HostUrl))),
    Pair(With(Bridge, Broken),
         With([Laptop EXCEPT !.flags = HostUrl], Network(ClientMode))),
    Pair(With(Serve, Missing), With(Bridge, Network(OtherPorts))),
    Pair(With(Stdio, Missing), With(Bridge, Network(ClientMode))) }

(* The extension's command line and no configuration yet.                  *)
Defaults == {Pair(With(Bridge, Missing), With(Bridge, Missing))}

=============================================================================
