---------------------------- MODULE GraphSearch -----------------------------
(***************************************************************************)
(* How a question finds code in the graph (graph/retriever): nodes are     *)
(* found by name or by the words of the question, their surroundings are   *)
(* ranked, and source is shown as far as the budget goes.                  *)
(***************************************************************************)
EXTENDS Lists, Integers, TLC, SequencesExt

CONSTANTS
  NamedIn,     \* <<w, name>>: w, in any case, is a part of the name
  Match,       \* Match[<<t, u>>]: likeness of two words, 0, 5, 7 or 10 tenths
  MaxFound,    \* nodes a question can start from (10)
  MaxContext,  \* max_chars
  Padding,     \* lines around a range asked for (10)
  Bands        \* kinds of nodes in the order of their worth

(* A node is [id, kind, name, words, path, sig, stem, place, old]: the     *)
(* words of its name, path and signature, the rank of its path and name    *)
(* in alphabetical order, and whether it lies in an archive.  The names of *)
(* a search are in lower case.                                             *)
Likeness(t, words) == {k \in 1 .. 10 : \E w \in words : k <= Match[<<t, w>>]}   \* tenths, to the best match
Points(tokens, words) == Cardinality(UNION {{t} \X Likeness(t, words) : t \in tokens})
PointsOf(n, tokens) ==
  8 * Points(tokens, n.words) + 5 * Points(tokens, n.path) + 2 * Points(tokens, n.sig)
  + (IF n.kind = "file" /\ n.stem \in tokens THEN 60 ELSE 0)

(* The sum of the first n numbers of a list.                               *)
SumTo(s, n) == LET sum[i \in 0 .. n] == IF i = 0 THEN 0 ELSE sum[i - 1] + s[i] IN sum[n]
UpTo(s, limit) == SubSeq(s, 1, IF Len(s) > limit THEN limit ELSE Len(s))

(* What is ranked by a tuple of numbers, the lowest first.                 *)
LowerRank(a, b) == \E i \in DOMAIN a : a[i] < b[i] /\ \A j \in 1 .. i - 1 : a[j] = b[j]
Ranking(P, rank) == Sorted(P, {x \in P \X P : LowerRank(rank[x[1]], rank[x[2]])})
NodesAt(q, s) == [k \in DOMAIN s |-> q.nodes[s[k]]]

(* _find_seeds: those of the very name, otherwise the best by points.      *)
Search(q) ==
  LET exact == {i \in DOMAIN q.nodes : q.nodes[i].kind # "file" /\ q.nodes[i].name = q.word}
      likely == {i \in DOMAIN q.nodes : PointsOf(q.nodes[i], q.tokens) > 0}
      rank == [i \in likely |-> <<-PointsOf(q.nodes[i], q.tokens), q.nodes[i].place, i>>] IN
  IF exact # {} THEN AtPositions(q.nodes, exact) ELSE NodesAt(q, UpTo(Ranking(likely, rank), MaxFound))

(* retrieve_by_hotspot: name by name, the functions with it in theirs.     *)
Hotspots(q) ==
  LET found == {x \in (DOMAIN q.names) \X (DOMAIN q.nodes) :
                  q.nodes[x[2]].kind = "function" /\ <<q.names[x[1]], q.nodes[x[2]].name>> \in NamedIn}
      listed == Ranking(found, [x \in found |-> x]) IN
  [k \in DOMAIN listed |-> q.nodes[listed[k][2]]]

-----------------------------------------------------------------------------
(* _rank_nodes: the nodes a question starts from in their order, those     *)
(* next to them, the rest; what is archived is last among its own.         *)
Adjacent(q, n) == {e \in q.edges : n.id \in {e[1], e[2]}}
SeedIds(q) == {q.seeds[i] : i \in DOMAIN q.seeds}
Tier(q, n) ==
  CASE n.id \in SeedIds(q) -> 0
    [] n.id \notin SeedIds(q) /\ (\E e \in Adjacent(q, n) : {e[1], e[2]} \cap SeedIds(q) # {}) -> 1
    [] OTHER -> 2
Position(q, n) == IF n.id \in SeedIds(q) THEN Max({i \in DOMAIN q.seeds : q.seeds[i] = n.id}) ELSE Len(q.seeds) + 1
Band(n) == IF \E i \in DOMAIN Bands : Bands[i] = n.kind
           THEN CHOOSE i \in DOMAIN Bands : Bands[i] = n.kind ELSE Len(Bands) + 1

RankOf(q, i) ==
  LET n == q.nodes[i] IN
  <<Tier(q, n), IF n.old THEN 1 ELSE 0, Position(q, n),
    -Cardinality(n.words \cap q.tokens), -Cardinality(Adjacent(q, n)), Band(n), n.place, i>>
Rank(q) == NodesAt(q, UpTo(Ranking(DOMAIN q.nodes, [i \in DOMAIN q.nodes |-> RankOf(q, i)]), q.limit))

-----------------------------------------------------------------------------
(* _format_context: file by file, in the order in which the ranking names  *)
(* them, blocks of source as far as they fit.  A block too long is left    *)
(* out but counted, and ends its file.  The total is of the sections: the  *)
(* newlines that join them are not counted by the code either.             *)
FileOrder(blocks) ==
  LET files == [i \in DOMAIN blocks |-> blocks[i].file] IN
  AtPositions(files, {i \in DOMAIN files : \A j \in 1 .. i - 1 : files[j] # files[i]})
BlocksIn(blocks, file) == AtPositions(blocks, {i \in DOMAIN blocks : blocks[i].file = file})
Heading(header) == [chars |-> header, text |-> header, blocks |-> 0]
WithBlock(s, length, total) ==
  CASE total + s.chars > MaxContext           -> s
    [] total + s.chars <= MaxContext /\ total + s.chars + length > MaxContext ->
         [s EXCEPT !.chars = s.chars + length]
    [] OTHER -> [chars |-> s.chars + length, text |-> s.text + length, blocks |-> s.blocks + 1]
FileSection(blocks, header, total) ==
  LET after[n \in 0 .. Len(blocks)] ==
        IF n = 0 THEN Heading(header) ELSE WithBlock(after[n - 1], blocks[n].length, total) IN
  after[Len(blocks)]

NothingShown == [total |-> 0, shown |-> <<>>]
WithFile(q, done, file) ==
  LET section == FileSection(BlocksIn(q.blocks, file), q.header, done.total) IN
  IF file \in q.unreadable \/ section.blocks = 0 THEN done
    ELSE [total |-> done.total + section.text, shown |-> Append(done.shown, <<file, section.blocks>>)]
FormatContext(q) ==
  LET files == FileOrder(q.blocks)
      after[n \in 0 .. Len(files)] == IF n = 0 THEN NothingShown ELSE WithFile(q, after[n - 1], files[n]) IN
  after[Len(files)]

(* retrieve_by_file: a range of lines with some more on either side, and   *)
(* of these as many as there is room for.                                  *)
Focus(q) ==
  LET first == IF q.from - Padding > 0 THEN q.from - Padding + 1 ELSE 1
      last  == IF q.to + Padding < q.lines THEN q.to + Padding ELSE q.lines IN
  IF q.from < 1 \/ q.to < q.from THEN {}
    ELSE {l \in first .. last : l < first + q.room}

-----------------------------------------------------------------------------
(* What is found, and in which order.  Nodes of the very name are all      *)
(* found and alone; otherwise no node comes before, or instead of, another *)
(* that is at least as like the question in each word and place, and in    *)
(* one more like it.                                                       *)
AsLike(a, b, tokens) ==
  /\ \A t \in tokens : /\ Points({t}, a.words) >= Points({t}, b.words)
                       /\ Points({t}, a.path) >= Points({t}, b.path)
                       /\ Points({t}, a.sig) >= Points({t}, b.sig)
  /\ (b.kind = "file" /\ b.stem \in tokens) => (a.kind = "file" /\ a.stem \in tokens)
SearchIsRight(q, found) ==
  LET exact == {n \in Range(q.nodes) : n.kind # "file" /\ n.name = q.word}
      Index(n) == IF n \in Range(found) THEN CHOOSE i \in DOMAIN found : found[i] = n ELSE Len(found) + 1 IN
  IF exact # {} THEN Range(found) = exact
    ELSE /\ Len(found) <= MaxFound
         /\ \A b \in Range(found), a \in Range(q.nodes) :
              (AsLike(a, b, q.tokens) /\ ~AsLike(b, a, q.tokens)) => Index(a) < Index(b)

(* The nodes asked for are never ranked behind their surroundings, and     *)
(* these never behind what is farther off, whatever their worth.           *)
RankKeepsDistance(q, ranked) ==
  LET Distance(n) == IF n.id \in SeedIds(q) THEN 0
                       ELSE IF \E s \in SeedIds(q) : <<s, n.id>> \in q.edges \/ <<n.id, s>> \in q.edges THEN 1 ELSE 2 IN
  /\ \A i, j \in DOMAIN ranked : i < j => Distance(ranked[i]) <= Distance(ranked[j])
  /\ \A m \in Range(q.nodes) \ Range(ranked), n \in Range(ranked) : Distance(n) <= Distance(m)

(* What is shown fits; of each file shown it is a beginning of its blocks, *)
(* and the first block left out would not have fitted.                     *)
ContextIsABeginning(q, context) ==
  LET LengthsIn(file) == [i \in DOMAIN BlocksIn(q.blocks, file) |-> BlocksIn(q.blocks, file)[i].length]
      text == [i \in DOMAIN context.shown |-> q.header + SumTo(LengthsIn(context.shown[i][1]), context.shown[i][2])] IN
  /\ context.total <= MaxContext
  /\ context.total = SumTo(text, Len(context.shown))
  /\ \A i \in DOMAIN context.shown :
       LET lengths == LengthsIn(context.shown[i][1])
           count == context.shown[i][2] IN
       /\ context.shown[i][1] \notin q.unreadable /\ count \in 1 .. Len(lengths)
       /\ count < Len(lengths) => SumTo(text, i) + lengths[count + 1] > MaxContext

(* Of a range of lines the first one is shown if the file has it and there *)
(* is room for more than the padding, with no gap and nothing far off.     *)
FocusIsShown(q, shown) ==
  /\ shown \subseteq 1 .. q.lines
  /\ (q.from \in 1 .. q.lines /\ q.to >= q.from /\ q.room >= Padding) => q.from \in shown
  /\ \A l \in shown : q.from - l < Padding /\ l - q.to <= Padding
  /\ Cardinality(shown) <= q.room
=============================================================================
