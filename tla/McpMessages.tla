------------------------------ MODULE McpMessages ------------------------------
(***************************************************************************)
(* The messages of MCP: how they are framed on a stream, how the two       *)
(* readers of a stream (transport.rs, server/ipc_tcp.rs) find them, and    *)
(* what handle_request (transport.rs) makes of one.                        *)
(***************************************************************************)
EXTENDS Naturals, Sequences, FiniteSetsExt

NoId == 0         \* no "id": a notification; null in an answer
NoAnswer == [id |-> NoId, outcome |-> "none"]

(* The tools that list_tools offers and call_tool knows. Recorders store    *)
(* one record, by the last statement that can fail; harmony_sync stores    *)
(* one for each file that changed.                                         *)
Tools == {"harmony_pulse", "harmony_dashboard", "harmony_sync",
          "report_file_edit", "query_memory", "add_memory", "report_change",
          "list_decisions"}
Recorders == {"report_file_edit", "add_memory", "report_change"}

(* method is "none", and so is tool, when the field is missing or not a    *)
(* string. A text that does not parse has no fields, see Malformed. number *)
(* is history: which of its sender's messages it is.                       *)
Methods == {"initialize", "initialized", "ping", "tools/list", "tools/call",
            "shutdown", "unknown", "none"}
Message == [json : BOOLEAN, id : Nat, method : Methods,
            tool : Tools \cup {"unknown", "none"}, large : BOOLEAN, number : Nat]

Malformed(m) == ~m.json

-----------------------------------------------------------------------------
(* A stream is a sequence of lines and bodies. A line is "json" when it    *)
(* looks like a message; "length" and "bad length" are Content-Length      *)
(* headers whose value is a number or is not.                              *)
Line(kind) == [kind |-> kind]
JsonLine(m) == <<[kind |-> "json", message |-> m]>>
ContentLength(m) ==
  <<Line("length"), Line("blank"), [kind |-> "body", message |-> m]>>
Framed(m, format) ==
  IF format = "JsonLine" THEN JsonLine(m) ELSE ContentLength(m)

LengthBefore(stream, k) == \E i \in 1 .. k - 1 : stream[i].kind = "length"
From(stream, k) == SubSeq(stream, k, Len(stream))

Took(stream, k, format) ==
  [result |-> "message", message |-> stream[k].message, format |-> format,
   rest |-> From(stream, k + 1)]
GaveUp == [result |-> "gave up"]
Waiting == [result |-> "waiting"]   \* for the rest of a message

(* read_stdio_message passes over blank lines and lines it does not know   *)
(* until there is a message; a Content-Length that is no number is an error. *)
StdioDecides(stream, k) ==
  \/ stream[k].kind = "bad length"
  \/ stream[k].kind = "json" /\ ~LengthBefore(stream, k)
  \/ stream[k].kind = "blank" /\ LengthBefore(stream, k)

ReadStdio(stream) ==
  LET decisive == {k \in DOMAIN stream : StdioDecides(stream, k)}
      k == Min(decisive)
  IN IF decisive = {} THEN Waiting
     ELSE CASE stream[k].kind = "json" -> Took(stream, k, "JsonLine")
            [] stream[k].kind = "blank" -> Took(stream, k + 1, "ContentLength")
            [] OTHER -> GaveUp

(* read_message takes a blank first line for the end of the connection,    *)
(* and the first Content-Length it can parse.                              *)
ReadIpc(stream) ==
  LET blanks == {k \in DOMAIN stream : k > 1 /\ stream[k].kind = "blank"}
      k == Min(blanks)
  IN IF stream = <<>> THEN Waiting
     ELSE CASE stream[1].kind = "blank" -> GaveUp
            [] stream[1].kind = "json" -> Took(stream, 1, "JsonLine")
            [] OTHER -> IF blanks = {} THEN Waiting
                        ELSE IF LengthBefore(stream, k)
                          THEN Took(stream, k + 1, "ContentLength") ELSE GaveUp

-----------------------------------------------------------------------------
(* handle_request: who sends no id still gets an answer to these methods,  *)
(* with the id null, and a call without a tool's name gets none.           *)
Answer(id, outcome) == [id |-> id, outcome |-> outcome]

(* What a call of a tool may end with, and whether something is recorded   *)
(* then. Arguments may be missing and statements may fail, which is a      *)
(* result that says isError, as is an unknown tool. harmony_sync may skip  *)
(* every file and give a result, or fail to save its state after all.      *)
CallTool(tool) ==
  CASE tool \in Recorders -> {<<"result", TRUE>>, <<"tool error", FALSE>>}
    [] tool = "harmony_sync" -> {"result", "tool error"} \X BOOLEAN
    [] tool = "harmony_dashboard" -> {<<"result", FALSE>>}
    [] tool \in {"harmony_pulse", "query_memory", "list_decisions"} ->
         {<<"result", FALSE>>, <<"tool error", FALSE>>}
    [] OTHER -> {<<"tool error", FALSE>>}

(* What handling a message may come to.                                    *)
Only(answer) == {[answer |-> answer, recorded |-> FALSE]}
HandleRequest(m) ==
  IF Malformed(m) THEN Only(Answer(NoId, "parse error"))
  ELSE CASE m.method \in {"none", "initialized"} -> Only(NoAnswer)
         [] m.method \in {"initialize", "ping", "tools/list", "shutdown"} ->
              Only(Answer(m.id, "result"))
         [] m.method = "tools/call" ->
              IF m.tool = "none" THEN Only(NoAnswer)
              ELSE {[answer |-> Answer(m.id, end[1]), recorded |-> end[2]] :
                      end \in CallTool(m.tool)}
         [] OTHER -> Only(IF m.id = NoId THEN NoAnswer ELSE Answer(m.id, "no such method"))

(* A call that asks for one record.                                        *)
AsksForRecord(m) == m.json /\ m.method = "tools/call" /\ m.tool \in Recorders

(* A request as the protocol has it: it carries an id, and what it asks    *)
(* for is named. Each one is owed an answer.                               *)
WellFormedRequest(m) ==
  /\ m.json /\ m.id # NoId /\ m.method \notin {"none", "initialized"}
  /\ m.method = "tools/call" => m.tool # "none"

=============================================================================
