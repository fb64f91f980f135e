-------------------------------- MODULE Mcp --------------------------------
(***************************************************************************)
(* The MCP server (bin/mcp.rs): one thread reads frames from stdin and     *)
(* answers most of them at once; a tool call gets a thread of its own that *)
(* runs the CLI as a child and turns how it ended into a result.  The end  *)
(* of stdin waits for the calls in flight; a closed stdout ends the        *)
(* process, its threads with it, and leaves the children to themselves.    *)
(*                                                                         *)
(* A frame's id is its position.  A response is one write under a lock,    *)
(* so it is one step; the client reads what is written or is gone.         *)
(***************************************************************************)
EXTENDS Naturals, Sequences

CONSTANTS
  Sends,      \* the kinds of frame this client sends
  MaxFrames,  \* bound: frames of a session
  Hung        \* frames whose child never ends: nothing else may wait for it

Kinds == {"garbled", "unparsed", "invalid", "nullid", "note", "inline",
          "unknown", "call", "badcall"}

ASSUME McpAssumption ==
  Sends \subseteq Kinds /\ MaxFrames \in Nat /\ Hung \subseteq 1..MaxFrames

VARIABLES
  serving,  \* the reading thread: "read", "join" (stdin ended), "exit"
  frames,   \* what the client has written
  read,     \* how many of them were read
  closed,   \* the client has closed our stdin; or reading it failed
  handler,  \* frame |-> its thread
  reply,    \* frame |-> what its thread will answer
  child,    \* frame |-> the CLI process, and how it ended
  answers,  \* frame |-> the responses written for it
  gone      \* the client has closed our stdout

mcpVars == <<serving, frames, read, closed, handler, reply, child, answers, gone>>

FrameIds == 1..MaxFrames
NullId == 0

\* What is answered at once, and under which id: a frame that is not UTF-8 or
\* not JSON has none to echo, and null is not an id.
Inline == {"garbled", "unparsed", "invalid", "nullid", "inline", "unknown"}
IdOf(f, kind) == IF kind \in {"garbled", "unparsed", "nullid"} THEN NullId ELSE f
InlineText(kind) ==
  CASE kind \in {"garbled", "unparsed"} -> "parse error"
    [] kind \in {"invalid", "nullid"} -> "invalid request"
    [] kind = "unknown" -> "method not found"
    [] OTHER -> "result"

\* How a verb can end: its document, its error envelope, a fragment of either
\* (it was killed in the middle), nothing at all.
Ends == {"document", "envelope", "fragment", "silence"}
SpawnErrors == {"CONFIGURATION", "USER_INPUT", "TRANSIENT"}
Texts == {"parse error", "invalid request", "method not found", "result",
          "invalid params", "INTERNAL", "fragment", "document", "envelope"}
           \cup SpawnErrors

McpInit ==
  /\ serving = "read" /\ frames = <<>> /\ read = 0 /\ closed = "open"
  /\ gone = FALSE
  /\ handler = [f \in FrameIds |-> "none"]
  /\ reply = [f \in FrameIds |-> "none"]
  /\ child = [f \in FrameIds |-> "none"]
  /\ answers = [f \in FrameIds |-> <<>>]

\* A response; a closed stdout ends the process instead.
Respond(f, id, text) ==
  \/ /\ ~gone
     /\ answers' = [answers EXCEPT ![f] = Append(@, [id |-> id, text |-> text])]
     /\ UNCHANGED serving
  \/ /\ gone
     /\ serving' = "exit"
     /\ UNCHANGED answers

ClientSends(kind) ==
  /\ closed = "open" /\ Len(frames) < MaxFrames
  /\ frames' = Append(frames, kind)
  /\ UNCHANGED <<serving, read, closed, handler, reply, child, answers, gone>>

ClientEndsStdin ==
  /\ closed = "open" /\ closed' = "eof"
  /\ UNCHANGED <<serving, frames, read, handler, reply, child, answers, gone>>

\* Mutant: calls are handled in the reading thread.
ReadWhenIdle ==
  LET f == read + 1
      kind == frames[f] IN
  /\ serving = "read" /\ read < Len(frames)
  /\ \A g \in FrameIds : handler[g] \in {"none", "done"}
  /\ read' = read + 1
  /\ \/ /\ kind \in Inline
        /\ Respond(f, IdOf(f, kind), InlineText(kind))
        /\ UNCHANGED handler
     \/ /\ kind \in {"call", "badcall"}
        /\ handler' = [handler EXCEPT ![f] = "called"]
        /\ UNCHANGED <<serving, answers>>
     \/ /\ kind = "note"
        /\ UNCHANGED <<serving, answers, handler>>
  /\ UNCHANGED <<frames, closed, reply, child, gone>>

\* One turn of the loop: answer, ignore a notification, or start a thread.
ReadFrame ==
  LET f == read + 1
      kind == frames[f] IN
  /\ serving = "read" /\ read < Len(frames)
  /\ read' = read + 1
  /\ \/ /\ kind \in Inline
        /\ Respond(f, IdOf(f, kind), InlineText(kind))
        /\ UNCHANGED handler
     \/ /\ kind \in {"call", "badcall"}
        /\ handler' = [handler EXCEPT ![f] = "called"]
        /\ UNCHANGED <<serving, answers>>
     \/ /\ kind = "note"
        /\ UNCHANGED <<serving, answers, handler>>
  /\ UNCHANGED <<frames, closed, reply, child, gone>>

\* The end of stdin, or an error that is not a broken frame.
StdinEnds ==
  /\ serving = "read"
  /\ \/ closed = "eof" /\ read = Len(frames) /\ UNCHANGED closed
     \/ closed' = "error"
  /\ serving' = "join"
  /\ UNCHANGED <<frames, read, handler, reply, child, answers, gone>>

\* Mutant: the ledger of threads is not joined.
LeaveAtOnce ==
  /\ serving = "join"
  /\ serving' = "exit"
  /\ UNCHANGED <<frames, read, closed, handler, reply, child, answers, gone>>

\* Joins them all, without a deadline.
Leave ==
  /\ serving = "join"
  /\ \A f \in FrameIds : handler[f] \in {"none", "done"}
  /\ serving' = "exit"
  /\ UNCHANGED <<frames, read, closed, handler, reply, child, answers, gone>>

ClientCloses ==
  /\ ~gone /\ gone' = TRUE
  /\ UNCHANGED <<serving, frames, read, closed, handler, reply, child, answers>>

Running(f, at) == serving # "exit" /\ handler[f] = at

\* A name the table has not, arguments its schema forbids: the client's error.
Refuse(f) ==
  /\ Running(f, "called") /\ frames[f] = "badcall"
  /\ handler' = [handler EXCEPT ![f] = "reply"]
  /\ reply' = [reply EXCEPT ![f] = "invalid params"]
  /\ UNCHANGED <<serving, frames, read, closed, child, answers, gone>>

SpawnVerb(f) ==
  /\ Running(f, "called") /\ frames[f] = "call"
  /\ handler' = [handler EXCEPT ![f] = "wait"]
  /\ child' = [child EXCEPT ![f] = "working"]
  /\ UNCHANGED <<serving, frames, read, closed, reply, answers, gone>>

SpawnVerbFails(f) ==
  /\ Running(f, "called") /\ frames[f] = "call"
  /\ handler' = [handler EXCEPT ![f] = "reply"]
  /\ \E e \in SpawnErrors : reply' = [reply EXCEPT ![f] = e]
  /\ UNCHANGED <<serving, frames, read, closed, child, answers, gone>>

VerbEnds(f) ==
  /\ child[f] = "working"
  /\ \E e \in Ends : child' = [child EXCEPT ![f] = e]
  /\ UNCHANGED <<serving, frames, read, closed, handler, reply, answers, gone>>

\* A verb that failed without a document has failed inside.
ResultOf(end) == IF end \in {"fragment", "silence"} THEN "INTERNAL" ELSE end

VerbCollected(f) ==
  /\ Running(f, "wait") /\ child[f] \in Ends
  /\ handler' = [handler EXCEPT ![f] = "reply"]
  /\ reply' = [reply EXCEPT ![f] = ResultOf(child[f])]
  /\ UNCHANGED <<serving, frames, read, closed, child, answers, gone>>

Reply(f) ==
  /\ Running(f, "reply")
  /\ Respond(f, f, reply[f])
  /\ handler' = [handler EXCEPT ![f] = "done"]
  /\ UNCHANGED <<frames, read, closed, reply, child, gone>>

HandlerSteps(f) ==
  Refuse(f) \/ SpawnVerb(f) \/ SpawnVerbFails(f) \/ VerbCollected(f) \/ Reply(f)

McpNext ==
  \/ \E kind \in Sends : ClientSends(kind)
  \/ ClientEndsStdin \/ ReadFrame \/ StdinEnds \/ Leave \/ ClientCloses
  \/ \E f \in FrameIds : HandlerSteps(f) \/ VerbEnds(f)

\* Threads are scheduled; a verb ends, since each of its calls of gh does
\* (GhCall, CallEnds), except where the model asks what happens if it does not.
McpFairness ==
  /\ \A f \in FrameIds : WF_mcpVars(HandlerSteps(f))
  /\ \A f \in FrameIds \ Hung : WF_mcpVars(VerbEnds(f))
  /\ WF_mcpVars(ReadFrame)
  /\ WF_mcpVars(Leave)

McpSpec == McpInit /\ [][McpNext]_mcpVars /\ McpFairness
-----------------------------------------------------------------------------
(* Properties. *)

McpTypeOK ==
  /\ serving \in {"read", "join", "exit"} /\ gone \in BOOLEAN
  /\ frames \in Seq(Kinds) /\ Len(frames) <= MaxFrames /\ read \in 0..Len(frames)
  /\ closed \in {"open", "eof", "error"}
  /\ handler \in [FrameIds -> {"none", "called", "wait", "reply", "done"}]
  /\ reply \in [FrameIds -> Texts \cup {"none"}]
  /\ child \in [FrameIds -> Ends \cup {"none", "working"}]
  /\ answers \in [FrameIds -> Seq([id : 0..MaxFrames, text : Texts])]

Answered(f) == answers[f] # <<>>

\* Threads answer out of order, but every answer is to a frame that asked, under
\* the id it carried, and is the only one; a document is handed on only when a
\* verb ended with it whole; and a session that ends because stdin did leaves no
\* request unanswered (mcp.rs, serve and call).
AnswersAreTrue ==
  /\ \A f \in FrameIds : Answered(f) =>
       /\ f <= read /\ Len(answers[f]) = 1 /\ frames[f] # "note"
       /\ answers[f][1].id = IdOf(f, frames[f])
       /\ answers[f][1].text \in Ends => answers[f][1].text = child[f]
       /\ answers[f][1].text # "fragment"
  /\ (serving = "exit" /\ ~gone) =>
       \A f \in 1..read : frames[f] = "note" \/ Answered(f)

\* What the client has asked is answered, unless it leaves or the pipe breaks: a
\* verb that never ends holds up its own answer and no other, not even that of a
\* frame behind it (mcp.rs: "responses interleave by id").
RequestsAreAnswered ==
  \A f \in FrameIds \ Hung :
    (f <= Len(frames) /\ frames[f] # "note")
      ~> (Answered(f) \/ gone \/ closed = "error")
=============================================================================
