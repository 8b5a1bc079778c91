------------------------------ MODULE RunStream ------------------------------
(***************************************************************************)
(* The decoder of a client's stderr that the completion watcher and the    *)
(* dashboard share.  A line is what the two can tell of it:                *)
(*   glyph  its first character, "none" if that is no glyph;               *)
(*   token  what the name behind the glyph is to the watcher, "none" if    *)
(*          nothing like a name follows;                                   *)
(*   mark   the text by which a line without a known glyph is recognised.  *)
(* Escape sequences, white space, agents and wording are left out.         *)
(***************************************************************************)
EXTENDS Naturals, Sequences

\* The glyphs of _GLYPH_KIND, by the kinds they stand for.
Kinds == {"delegation", "delegation_done", "error", "tool", "webfetch", "read", "write", "glob", "checklist"}
Marks == {"model", "watchdog", "error", "exit"}

Line == {line \in [glyph : Kinds \cup {"other", "none"},
                   token : {"planning", "execution", "none"},
                   mark  : Marks \cup {"none"}] :
           line.glyph = "none" => line.token = "none"}

\* BROKEN: only the glyph of tools names tools.
ToolsOfToolGlyphs(text) ==
  {text[i].token : i \in {j \in DOMAIN text : text[j].glyph = "tool"}} \ {"none"}
\* extract_tool_names: the classifier takes any glyph, known or not.
ToolsOf(text) ==
  {text[i].token : i \in {j \in DOMAIN text : text[j].glyph # "none"}} \ {"none"}

\* Nothing but planning tools, and not nothing at all.
PlanningOnly(text) == ToolsOf(text) = {"planning"}

\* parse_events: the feed takes known glyphs, and other lines by their marks.
Listed(line) == line.glyph \in Kinds \/ line.mark # "none"
KindOf(line) == IF line.glyph \in Kinds THEN line.glyph ELSE line.mark

Event == [seq : Nat, kind : Kinds \cup Marks, line : Line]

\* The events of the first n lines, for every n; each is numbered as it is appended.
Events(text) ==
  LET upto[n \in 0..Len(text)] ==
        IF n = 0 THEN << >>
        ELSE LET events == upto[n - 1]
             IN  IF Listed(text[n])
                 THEN Append(events, [seq |-> Len(events) + 1, kind |-> KindOf(text[n]), line |-> text[n]])
                 ELSE events
  IN  upto[Len(text)]
==============================================================================
