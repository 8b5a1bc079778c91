----------------------------- MODULE RunNarrative -----------------------------
(***************************************************************************)
(* The narrative of a run: its status, from the manifest, and a timeline   *)
(* of its events in which neighbours of one kind are collapsed.  Offsets,  *)
(* summaries and messages are wording and left out.                        *)
(***************************************************************************)
EXTENDS RunStream

\* A manifest that is not there, or cannot be decoded, is one without an end.
Ended(manifest) == manifest \notin {"absent", "torn", "started"}

\* BROKEN: a kill reason is passed on as it is.
StatusUnmapped(manifest) == IF Ended(manifest) THEN manifest ELSE "running"
StatusOf(manifest) ==
  CASE ~Ended(manifest) -> "running"
    [] manifest \in {"completed", "failed", "zero_work", "incomplete"} -> manifest
    [] manifest \in {"idle_timeout", "hard_ceiling"} -> "timeout"
    [] manifest \in {"consecutive_errors", "permission_deadlock"} -> "error"
    [] OTHER -> "unknown"

Statuses == {"running", "completed", "failed", "zero_work", "incomplete", "timeout", "error", "unknown"}

Groupable == {"read", "glob", "webfetch"}

\* BROKEN: a run goes on as long as its entries are groupable.
RunEndOfGroupables(events, i) ==
  CHOOSE j \in (i + 1)..(Len(events) + 1) :
    /\ \A m \in (i + 1)..(j - 1) : events[m].kind \in Groupable
    /\ j <= Len(events) => events[j].kind \notin Groupable
\* Where the run of entries of one kind that begins at i ends.
RunEnd(events, i) ==
  CHOOSE j \in (i + 1)..(Len(events) + 1) :
    /\ \A m \in (i + 1)..(j - 1) : events[m].kind = events[i].kind
    /\ j <= Len(events) => events[j].kind # events[i].kind

\* What an entry stands for, from the event that gives it its number.
Entry == [seq : Nat, kind : Kinds \cup Marks, items : Seq(Event)]

\* The entry that begins at event i ends before the next one.
EntryEnd(events, i) == IF events[i].kind \in Groupable THEN RunEnd(events, i) ELSE i + 1
EntryAt(events, i) ==
  [seq |-> events[i].seq, kind |-> events[i].kind, items |-> SubSeq(events, i, EntryEnd(events, i) - 1)]

\* _group_timeline: the entries from event i on, for every i.
Timeline(events) ==
  LET from[i \in 1..(Len(events) + 1)] ==
        IF i > Len(events) THEN << >> ELSE <<EntryAt(events, i)>> \o from[EntryEnd(events, i)]
  IN  from[1]

----------------------------------------------------------------------------
\* What _group_timeline has to keep: every event, in order, exactly once, in an entry
\* that has the number of its first event, no kinds mixed in an entry, and no
\* neighbours that should have been collapsed.
Faithful(entries, events) ==
  LET first(i) == IF i \in DOMAIN entries THEN entries[i].seq ELSE Len(events) + 1
  IN  /\ first(1) = 1
      /\ \A i \in DOMAIN entries :
           /\ entries[i].seq < first(i + 1)
           /\ entries[i].items = SubSeq(events, entries[i].seq, first(i + 1) - 1)
           /\ \A j \in DOMAIN entries[i].items :
                /\ entries[i].items[j].kind = entries[i].kind
                /\ j > 1 => entries[i].kind \in Groupable
           /\ i > 1 /\ entries[i].kind \in Groupable => entries[i - 1].kind # entries[i].kind
==============================================================================
