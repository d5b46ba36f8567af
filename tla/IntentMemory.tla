---------------------------- MODULE IntentMemory ----------------------------
(***************************************************************************)
(* The user's intent memory (analysis/adjudication.py): entries that say   *)
(* how findings of a rule, or in a path, are to be handled.                *)
(*                                                                         *)
(* A path is a name, with or without a leading "./" or ".".  An absent     *)
(* rule or path is NoRule, NoPlace.                                        *)
(***************************************************************************)
EXTENDS Lists, SequencesExt

CONSTANT Wildcards   \* of each name with a *, ? or [ in it: the names it matches

ASSUME MemoryAssumption == \A w \in DOMAIN Wildcards : Wildcards[w] \subseteq STRING

NoRule  == "no rule"
NoPlace == [dots |-> FALSE, name |-> "no path"]

(* The file of the memory: nothing, an empty text, one that does not parse *)
(* or is of another version, one that does not decode, or a list of        *)
(* entries.                                                                *)
AbsentFile         == [state |-> "absent", entries |-> <<>>]
EmptiedFile        == [state |-> "empty", entries |-> <<>>]
TornFile           == [state |-> "torn", entries |-> <<>>]
BrokenFile         == [state |-> "broken", entries |-> <<>>]
EntriesFile(entries) == [state |-> "whole", entries |-> entries]

(* MemoryStore.load: what does not parse is an empty memory, but what does *)
(* not decode raises.                                                      *)
Loads(file)      == file.state # "broken"
LoadMemory(file) == file.entries

(* Mutant: the source alone tells entries of one rule apart.               *)
SameRuleEntry(d, e) == d.label = e.label /\ d.rule = e.rule

(* An entry that says the same of the same place by the same source is     *)
(* there already.                                                          *)
SameEntry(d, e) ==
  d.label = e.label /\ d.path = e.path /\ d.rule = e.rule /\ d.source = e.source

WithEntry(entries, e) ==
  IF \E i \in DOMAIN entries : SameEntry(entries[i], e) THEN entries ELSE Append(entries, e)

(* replace("\\", "/").lstrip("./"), which only the finding's path gets.    *)
Stripped(path) == [path EXCEPT !.dots = FALSE]

(* fnmatch: the path of an entry is a pattern, whoever wrote it there.     *)
Globs(name, pattern) ==
  IF pattern \in DOMAIN Wildcards THEN name \in Wildcards[pattern] ELSE name = pattern

(* An entry without a rule, or without a path, is about all of them.  No   *)
(* stripped path begins with the dots of a pattern.                        *)
EntryMatches(e, rule, path) ==
  /\ e.rule = NoRule \/ e.rule = rule
  /\ e.path = NoPlace \/ (~e.path.dots /\ Globs(Stripped(path).name, e.path.name))

(* The entries that match, in the order in which they were declared; the   *)
(* first one decides.                                                      *)
MatchingEntries(entries, rule, path) ==
  AtPositions(entries, {i \in DOMAIN entries : EntryMatches(entries[i], rule, path)})
=============================================================================
