------------------------------ MODULE MCParts ------------------------------
(***************************************************************************)
(* Seven parts that share no variable, checked in one run: the calls of    *)
(* gh, the MCP server, the archive's opening, a window's discovery, review *)
(* threads, the re-verify schedule and the calendar.  `about` chooses the  *)
(* part a behaviour is about; the others stand still in one initial state. *)
(***************************************************************************)
EXTENDS GhCall, Mcp, ArchiveOpen, Discovery, Threads, Reverify, Calendar

VARIABLE about

partsVars == <<about, ghVars, mcpVars, openVars, discoveryVars,
               threadVars, reverifyVars, calendarVars>>

P(answer, out, err, says, code) ==
  [answer |-> answer, out |-> out, err |-> err, says |-> says, code |-> code]
MCPlans == {P("data", 2, 0, "nothing", 0), P("data", 3, 0, "nothing", 0),
            P("data", 1, 1, "other", 1), P("null", 1, 1, "exceeded", 1),
            P("null", 0, 0, "nothing", 4)}
MCHolds == {{}, {"out"}, {"in", "out", "err"}}
MCFound == {Absent, 0, 3, 4, 5, 6}
\* 1903-12-31, the last second before 1970, leap days, centuries, 2037-12-31.
MCStarts == {-2082844801, -1, 0, 68256000, 68255999, 951782400, 951868799,
             1709164800, 1709251200, 1753365540, 2145916799}
MCSpans == {0, 1, 86399, 86400, 600, 7776000, 31536000}
MCTermLists == {<<{1, 2, 3, 4}>>, <<{1, 2, 3}, {2, 4}>>}
MCOwner == <<1, 1, 2>>
MCHash == <<0, 1, 1>>

PartsInit ==
  /\ about \in {"gh", "mcp", "open", "discovery", "threads", "reverify", "calendar"}
  /\ GhInit /\ McpInit
  /\ OpenInit /\ (about # "open" => place = "ok" /\ file.stamp = SchemaVersion)
  /\ DiscoveryInit
  /\ about # "discovery" =>
       terms = <<{1, 2, 3, 4}>> /\ open /\ masked = {} /\ updated = [i \in 1 .. 4 |-> Began]
  /\ ThreadsInit
  /\ ReverifyInit
  /\ about # "reverify" => shut = {} /\ earlier = ByNumber /\ age[1] = 0
  /\ CalendarInit /\ (about # "calendar" => now = 0)

PartsNext ==
  /\ UNCHANGED about
  /\ \/ about = "gh" /\ GhNext
        /\ UNCHANGED <<mcpVars, openVars, discoveryVars, threadVars, reverifyVars,
                       calendarVars>>
     \/ about = "mcp" /\ McpNext
        /\ UNCHANGED <<ghVars, openVars, discoveryVars, threadVars, reverifyVars,
                       calendarVars>>
     \/ about = "open" /\ OpenNext
        /\ UNCHANGED <<ghVars, mcpVars, discoveryVars, threadVars, reverifyVars,
                       calendarVars>>
     \/ about = "discovery" /\ DiscoveryNext
        /\ UNCHANGED <<ghVars, mcpVars, openVars, threadVars, reverifyVars,
                       calendarVars>>
     \/ about = "threads" /\ ThreadsNext
        /\ UNCHANGED <<ghVars, mcpVars, openVars, discoveryVars, reverifyVars,
                       calendarVars>>
     \/ about = "reverify" /\ ReverifyNext
        /\ UNCHANGED <<ghVars, mcpVars, openVars, discoveryVars, threadVars,
                       calendarVars>>
     \/ about = "calendar" /\ CalendarNext
        /\ UNCHANGED <<ghVars, mcpVars, openVars, discoveryVars, threadVars,
                       reverifyVars>>

\* The calls' and the session's fair steps are disabled while they stand still.
PartsSpec ==
  /\ PartsInit /\ [][PartsNext]_partsVars
  /\ GhFairness /\ McpFairness
  /\ WF_reverifyVars(about = "reverify" /\ SyncsGoOn)

\* Every part keeps the shape its module states.
PartsTypeOK == /\ GhTypeOK /\ McpTypeOK /\ OpenTypeOK /\ DiscoveryTypeOK
               /\ ThreadsTypeOK /\ ReverifyTypeOK
=============================================================================
