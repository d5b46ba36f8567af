----------------------------- MODULE Retrieval ------------------------------
(***************************************************************************)
(* What the code graph and the retrievers compute (graph/, rag/chunker,    *)
(* rag/retriever): which files of a large repository are parsed, who calls *)
(* whom, what lies around a seed, how a file is cut into chunks, and how   *)
(* the context's budget is shared between two kinds of evidence.  Each is  *)
(* a function of its input: a behaviour takes one question and answers it. *)
(***************************************************************************)
EXTENDS GraphSearch

CONSTANTS
  Questions,     \* the questions, records with a field "about"
  MaxFiles,      \* max_files of the builder
  MaxScope,      \* lines of a function that are searched for calls (200)
  HeaderLines,   \* lines of the header chunk (30)
  GuessedLines,  \* lines taken for a node without an end (50)
  MaxSeeds       \* seeds of a query that names files (10)

VARIABLES question, reply
retrievalVars == <<question, reply>>

(* What is asked about is what the program has there.  Files, functions    *)
(* and nodes are in the repository once, lines are counted from 1, and a   *)
(* block is longer than what it shares with the next one.                  *)
CodeNodes == [id : STRING, kind : STRING, name : STRING, words : SUBSET STRING, path : SUBSET STRING,
              sig : SUBSET STRING, stem : STRING, place : Int, old : BOOLEAN]
Sections == [file : STRING, header : Nat, body : Nat]
IsList(s) == s \in Seq(Range(s)) /\ IsInjective(s)
IsQuestion(q) ==
  CASE q.about = "sample"   -> IsList(q.files) /\ \A f \in Range(q.files) : f.priority \in Nat
    [] q.about = "calls"    -> /\ \A f \in q.functions : f.start \in Nat \ {0}
                               /\ \A m \in q.mentions : q.files[m.file] \in Nat /\ m.line \in 1 .. q.files[m.file]
    [] q.about = "expand"   -> /\ q.hops \in Nat /\ q.direction \in {"in", "out", "both"}
                               /\ q.edges \subseteq STRING \X STRING /\ q.seeds \subseteq STRING
    [] q.about = "seeds"    -> q.counts \in Seq(Nat)
    [] q.about = "select"   -> /\ IsList(q.ranked) /\ \A n \in Range(q.ranked) : n.file \in Int
                               /\ IsFiniteSet(q.named) /\ q.limit \in Nat
    [] q.about = "chunks"   -> /\ q.lines \in Nat /\ q.size \in Nat /\ q.overlap \in 0 .. q.size - 1
                               /\ q.nodes \in Seq([start : Nat \ {0}, end : Nat])
                               /\ q.widths \in [1 .. q.lines -> Nat] /\ q.written \subseteq 1 .. q.lines
                               /\ q.heading \in Nat /\ q.room \in Nat /\ q.left \in Nat
    [] q.about = "context"  -> /\ q.graph \in Seq(Sections) /\ q.vector \in Seq(Sections)
                               /\ q.max \in Nat /\ q.weight \in 0 .. 100 /\ q.marker \in Nat
    [] q.about = "search"   -> /\ IsList(q.nodes) /\ q.nodes \in Seq(CodeNodes) /\ IsFiniteSet(q.tokens)
                               /\ \A n \in Range(q.nodes), t \in q.tokens :
                                    \A w \in n.words \cup n.path \cup n.sig : Match[<<t, w>>] \in Nat
    [] q.about = "hotspots" -> IsList(q.nodes) /\ q.names \in Seq(STRING)
    [] q.about = "rank"     -> /\ q.nodes \in Seq(CodeNodes) /\ IsInjective(q.nodes) /\ q.seeds \in Seq(STRING)
                               /\ q.edges \subseteq STRING \X STRING /\ q.limit \in Nat
                               /\ IsFiniteSet(q.tokens) /\ IsFiniteSet(q.edges)
    [] q.about = "format"   -> q.blocks \in Seq([file : STRING, length : Nat]) /\ q.header \in Nat
    [] q.about = "focus"    -> q.lines \in Nat /\ q.from \in Int /\ q.to \in Int /\ q.room \in Nat
    [] OTHER                -> FALSE

ASSUME RetrievalAssumption ==
  /\ MaxFiles \in Nat /\ MaxScope \in Nat /\ HeaderLines \in Nat /\ GuessedLines \in Nat \ {0} /\ MaxSeeds \in Nat
  /\ MaxFound \in Nat /\ MaxContext \in Nat /\ Padding \in Nat \ {0} /\ Bands \in Seq(STRING)
  /\ \A q \in Questions : IsQuestion(q)

NoQuestion == [about |-> "nothing"]
RetrievalInit == question = NoQuestion /\ reply = <<>>

Least(S) == CHOOSE x \in S : \A y \in S : x <= y
Larger(a, b) == IF a >= b THEN a ELSE b
Smaller(a, b) == IF a <= b THEN a ELSE b

-----------------------------------------------------------------------------
(* _even_sample: rounding a / b is to the nearest, halves to the even one. *)
Rounded(a, b) ==
  LET q == a \div b
      r == a % b IN
  IF 2 * r < b \/ (2 * r = b /\ q % 2 = 0) THEN q ELSE q + 1

EvenSample(files, limit) ==
  CASE limit <= 0 -> <<>>
    [] limit = 1  -> <<files[1]>>
    [] OTHER      -> [i \in 1 .. limit |-> files[1 + Rounded((i - 1) * (Len(files) - 1), limit - 1)]]

(* _bounded_file_sample: whole classes of files by priority, and a spread  *)
(* of the first class that does not fit; no later class.                   *)
OfPriority(files, p) == AtPositions(files, {i \in DOMAIN files : files[i].priority = p})
Taken(files, p) == Cardinality({i \in DOMAIN files : files[i].priority < p})   \* by the classes before p
Share(files, p) ==
  LET class == OfPriority(files, p)
      remaining == MaxFiles - Taken(files, p) IN
  IF remaining <= 0 THEN <<>>
  ELSE IF Len(class) <= remaining THEN class ELSE EvenSample(class, remaining)

Sample(files) ==
  IF Len(files) <= MaxFiles THEN Range(files)
  ELSE UNION {Range(Share(files, p)) : p \in {f.priority : f \in Range(files)}}

-----------------------------------------------------------------------------
(* _parse_functions: a function ends where the next one of its file starts *)
(* and _resolve_calls: the names called in it, by the only function of     *)
(* that name in the file, or else the only one in the project.             *)
After(functions, f) == {g.start : g \in {h \in functions : h.file = f.file /\ h.start > f.start}}
LastLine(files, functions, f) ==
  LET next == IF After(functions, f) = {} THEN files[f.file] + 1 ELSE Least(After(functions, f)) IN
  Larger(f.start, next - 1)

\* Mutant of Scope: the end of a function is not known.
OpenScope(files, functions, f) == f.start .. Smaller(files[f.file], f.start + MaxScope - 1)

Scope(files, functions, f) ==
  f.start .. Smaller(LastLine(files, functions, f), f.start + MaxScope - 1)

Callees(functions, f, name) ==
  LET candidates == {g \in functions : g.name = name}
      near == {g \in candidates : g.file = f.file} IN
  IF Cardinality(near) = 1 THEN near
  ELSE IF Cardinality(candidates) = 1 THEN candidates ELSE {}

ResolvedCalls(q) ==
  UNION {{<<f, g>> : g \in UNION {Callees(q.functions, f, m.name) :
                                    m \in {n \in q.mentions : /\ n.file = f.file /\ n.name # f.name
                                                              /\ n.line \in Scope(q.files, q.functions, f)}}} :
           f \in q.functions}

-----------------------------------------------------------------------------
(* CodeGraph.expand: round by round, the frontier's nodes and the edges    *)
(* they have in the asked directions.                                      *)
Touching(q, n) ==
  {e \in q.edges : \/ q.direction \in {"out", "both"} /\ e[1] = n
                   \/ q.direction \in {"in", "both"} /\ e[2] = n}

ExpandRound(q, st) ==
  LET fresh == st.frontier \ st.visited
      edges == UNION {Touching(q, n) : n \in fresh}
      next  == {e[2] : e \in {d \in edges : q.direction # "in" /\ d[1] \in fresh}} \cup
               {e[1] : e \in {d \in edges : q.direction # "out" /\ d[2] \in fresh}}
      visited == st.visited \cup fresh IN
  [visited |-> visited, edges |-> st.edges \cup edges, frontier |-> next \ visited]

Expand(q) ==
  LET rounds[h \in 0 .. q.hops] ==
        IF h = 0 THEN [visited |-> {}, edges |-> {}, frontier |-> q.seeds]
        ELSE LET before == rounds[h - 1] IN ExpandRound(q, before)
      last == rounds[q.hops] IN
  [edges |-> last.edges,
   nodes |-> last.visited \cup UNION {{e[1], e[2]} : e \in last.edges}]

(* _file_seeds: of every file named, in turn, its next best node.          *)
SeedsOf(q) == UNION {{<<i, p>> : i \in 1 .. q.counts[p]} : p \in DOMAIN q.counts}   \* the i-th of file p
Seeds(q) == Range(UpTo(Ranking(SeedsOf(q), [s \in SeedsOf(q) |-> s]), MaxSeeds))

(* _select_nodes: a quota for every file named, then by rank.              *)
Reserved(q) ==
  LET quota == Larger(1, q.limit \div Cardinality(q.named)) IN
  {i \in DOMAIN q.ranked : /\ q.ranked[i].file \in q.named
                           /\ Cardinality({j \in 1 .. i - 1 : q.ranked[j].file = q.ranked[i].file}) < quota}
SelectNodes(q) ==
  LET rank == [i \in DOMAIN q.ranked |-> IF Cardinality(q.named) <= 1 THEN <<0, 0, i>>
                                         ELSE IF i \in Reserved(q) THEN <<0, q.ranked[i].file, i>> ELSE <<1, 0, i>>]
      chosen == UpTo(Ranking(DOMAIN q.ranked, rank), q.limit) IN
  {q.ranked[chosen[k]] : k \in DOMAIN chosen}

-----------------------------------------------------------------------------
(* A file is asked about by the widths of its lines, the lines that are    *)
(* not blank, and its nodes in the order of the graph.  A chunk is the set *)
(* of the lines it shows to their end: its text is cut at `room`           *)
(* characters, its heading included where the code does so.                *)
Characters(q, first, l) == SumTo(q.widths, l) - SumTo(q.widths, first - 1) + (l - first)
Written(q, first, last) == (first .. last) \cap q.written # {}
ShownLines(q, heading, first, last) == {l \in first .. last : heading + Characters(q, first, l) <= q.room}

(* _chunk_structured: one chunk per node, by first lines, as far as the    *)
(* file goes; then the head of the file, never cut, unless nodes that are  *)
(* not blank reach over it.  A node without an end gets GuessedLines.      *)
NodeEnd(lines, node) ==
  LET end == IF node.end > 0 THEN Smaller(lines, node.end) ELSE node.start - 1 + GuessedLines
      last == IF end <= node.start - 1 THEN Smaller(lines, node.start - 1 + GuessedLines) ELSE end IN
  Smaller(lines, last)

Structured(q) ==
  LET EndOf(x) == NodeEnd(q.lines, q.nodes[x[2]])
      found   == {x \in {<<q.nodes[i].start, i>> : i \in DOMAIN q.nodes} : Written(q, x[1], EndOf(x))}
      order   == Ranking(found, [x \in found |-> x])
      ofNodes == [k \in DOMAIN order |-> ShownLines(q, q.heading, order[k][1], EndOf(order[k]))]
      header  == 1 .. Smaller(HeaderLines, q.lines) IN
  IF header \subseteq UNION {x[1] .. EndOf(x) : x \in found} \/ header \cap q.written = {}
    THEN ofNodes ELSE Append(ofNodes, header)

(* _chunk_unstructured: one chunk, or blocks that overlap; none is blank.  *)
Blocks(q) ==
  LET starts == {k \in 0 .. q.lines - 1 : k % (q.size - q.overlap) = 0}
      pieces == IF q.lines <= 2 * q.size THEN {<<1, q.lines>>}
                ELSE {<<i + 1, Smaller(i + q.size, q.lines)>> : i \in starts}
      found  == {x \in pieces : Written(q, x[1], x[2])}
      order  == Ranking(found, [x \in found |-> x]) IN
  [k \in DOMAIN order |-> ShownLines(q, 0, order[k][1], order[k][2])]

(* chunk_project: as many as are left of max_chunks.                       *)
Chunks(q) == UpTo(IF q.nodes # <<>> THEN Structured(q) ELSE Blocks(q), q.left)

-----------------------------------------------------------------------------
(* _truncate_context, by length: how much of the text is shown, and how    *)
(* long the result is, marker included.                                    *)
Truncate(length, budget, marker) ==
  CASE budget <= 0                     -> [shown |-> 0, length |-> 0]
    [] budget > 0 /\ length <= budget  -> [shown |-> length, length |-> length]
    [] budget \in 1 .. length - 1 /\ budget <= marker -> [shown |-> budget, length |-> budget]
    [] OTHER                           -> [shown |-> budget - marker, length |-> budget]

(* A context is a sequence of sections [file, header, body]; the files     *)
(* whose header is shown to its end.  The newline before a section is      *)
(* taken into its header; the label over the blocks of the vector source   *)
(* is left out.                                                            *)
Sizes(context) == [i \in DOMAIN context |-> context[i].header + context[i].body]
EndOfHeader(context, i) == SumTo(Sizes(context), i - 1) + context[i].header
Length(context) == SumTo(Sizes(context), Len(context))
Visible(context, shown) == {context[i].file : i \in {k \in DOMAIN context : EndOfHeader(context, k) <= shown}}

Alone(q, context) ==
  LET cut == Truncate(Length(context), q.max, q.marker) IN
  [length |-> cut.length, files |-> Visible(context, cut.shown)]

(* HybridRetriever.retrieve: blocks for files that the graph's context has *)
(* are dropped; then each source gets its part of what is available.       *)
NewBlocks(q) ==
  AtPositions(q.vector, {i \in DOMAIN q.vector : q.vector[i].file \notin {s.file : s \in Range(q.graph)}})

Context(q) ==
  LET available   == Larger(1, q.max - 1)
      graphBudget == (available * q.weight) \div 100
      graphCut    == Truncate(Length(q.graph), graphBudget, q.marker)
      vectorCut   == Truncate(Length(NewBlocks(q)), available - graphBudget, q.marker) IN
  IF q.vector = <<>> THEN Alone(q, q.graph)
  ELSE IF q.graph = <<>> THEN Alone(q, q.vector)
  ELSE IF NewBlocks(q) = <<>> THEN Alone(q, q.graph)
  ELSE IF graphCut.length = 0 THEN Alone(q, NewBlocks(q))
  ELSE IF vectorCut.length = 0 THEN Alone(q, q.graph)
  ELSE [length |-> graphCut.length + 1 + vectorCut.length,
        files  |-> Visible(q.graph, graphCut.shown) \cup Visible(NewBlocks(q), vectorCut.shown)]

-----------------------------------------------------------------------------
Answer(q) ==
  CASE q.about = "sample"  -> Sample(q.files)
    [] q.about = "calls"   -> ResolvedCalls(q)
    [] q.about = "expand"  -> Expand(q)
    [] q.about = "seeds"   -> Seeds(q)
    [] q.about = "select"  -> SelectNodes(q)
    [] q.about = "chunks"  -> Chunks(q)
    [] q.about = "context" -> Context(q)
    [] q.about = "search"  -> Search(q)
    [] q.about = "hotspots" -> Hotspots(q)
    [] q.about = "rank"    -> Rank(q)
    [] q.about = "format"  -> FormatContext(q)
    [] q.about = "focus"   -> Focus(q)

Ask == question = NoQuestion /\ question' \in Questions /\ UNCHANGED reply
Reply == /\ question # NoQuestion /\ reply = <<>>
         /\ reply' = <<Answer(question)>> /\ UNCHANGED question

RetrievalNext == Ask \/ Reply
RetrievalSpec == RetrievalInit /\ [][RetrievalNext]_retrievalVars
RetrievalEnd  == question # NoQuestion /\ reply # <<>>
-----------------------------------------------------------------------------
Returned(about) == question.about = about /\ reply # <<>>
result == reply[1]

(* What a sample of a repository leaves out (_bounded_file_sample): it is  *)
(* as large as allowed; when a file is left out, none of a worse class is  *)
(* in, and of its own class, when more than one is, both ends are and the  *)
(* gaps are even.                                                          *)
SampleIsSpread(q) ==
  LET class(p) == OfPriority(q.files, p)
      Out(p) == {i \in DOMAIN class(p) : class(p)[i] \notin result}
      In(p)  == DOMAIN class(p) \ Out(p)
      priorities == {f.priority : f \in Range(q.files)} IN
  /\ result \subseteq Range(q.files)
  /\ Cardinality(result) = Smaller(MaxFiles, Len(q.files))
  /\ \A p \in priorities : Out(p) # {} =>
       /\ \A worse \in priorities : worse > p => In(worse) = {}
       /\ Cardinality(In(p)) > 1 =>
            /\ {1, Len(class(p))} \subseteq In(p)
            /\ \A i, j \in In(p) : (i < j /\ \A k \in i + 1 .. j - 1 : k \in Out(p)) =>
                 (j - i - 1) * (Cardinality(In(p)) - 1) < Len(class(p)) - 1

(* Each of several files named is heard (_file_seeds, _select_nodes): with *)
(* its best nodes, as many as another's up to one, and the limit is met.   *)
SeedsAreShared(q) ==
  LET Of(p) == {s \in result : s[2] = p} IN
  /\ Cardinality(result) = Smaller(MaxSeeds, SumTo(q.counts, Len(q.counts)))
  /\ \A p \in DOMAIN q.counts : Of(p) = {<<i, p>> : i \in 1 .. Cardinality(Of(p))}
  /\ \A p, r \in DOMAIN q.counts : \/ Cardinality(Of(p)) + 1 >= Cardinality(Of(r))
                                   \/ Cardinality(Of(p)) = q.counts[p]

SelectionIsShared(q) ==
  /\ Cardinality(result) = Smaller(q.limit, Len(q.ranked))
  /\ Cardinality(q.named) \in 2 .. q.limit =>
       \A p \in q.named : (\E n \in Range(q.ranked) : n.file = p) => \E n \in result : n.file = p

(* Until the limit of chunks is met, every line that is not blank of a     *)
(* file without symbols is in some chunk, and of one with symbols the head *)
(* and the first line of every symbol; but for a line to whose end, from   *)
(* the start of a symbol or from some line of a block's length before, it  *)
(* is more characters than a chunk may have.                               *)
TooFar(q, l) ==
  IF q.nodes = <<>>
    THEN \E first \in 1 .. l : /\ l - first < (IF q.lines <= 2 * q.size THEN q.lines ELSE q.size)
                               /\ Characters(q, first, l) > q.room
    ELSE \E n \in Range(q.nodes) : n.start <= l /\ q.heading + Characters(q, n.start, l) > q.room

ChunksCover(q) ==
  LET covered == UNION Range(result)
      due == IF q.nodes = <<>> THEN 1 .. q.lines
             ELSE 1 .. Smaller(HeaderLines, q.lines) \cup {n.start : n \in Range(q.nodes)} IN
  /\ covered \subseteq 1 .. q.lines /\ Len(result) <= q.left
  /\ Len(result) < q.left => \A l \in due \cap q.written : l \in covered \/ TooFar(q, l)

(* The context is never longer than asked, whatever the weights, and each  *)
(* file that is reported as seen has its whole header in it: the headers   *)
(* of the files seen fit, and a source that is alone has all the room.     *)
ContextFits(q) ==
  LET sections == Range(q.graph) \cup Range(q.vector)
      header(f) == Least({s.header : s \in {r \in sections : r.file = f}}) IN
  /\ result.length <= q.max
  /\ result.files \subseteq {s.file : s \in sections}
  /\ Cardinality(UNION {{f} \X (1 .. header(f)) : f \in result.files}) <= result.length   \* their characters
  /\ (q.graph = <<>> /\ Length(q.vector) <= q.max) => result.files = {s.file : s \in Range(q.vector)}

SelectionIsFair ==
  /\ Returned("sample")  => SampleIsSpread(question)
  /\ Returned("seeds")   => SeedsAreShared(question)
  /\ Returned("select")  => SelectionIsShared(question)
  /\ Returned("chunks")  => ChunksCover(question)
  /\ Returned("context") => ContextFits(question)

(* The graph a question sees is the one of the code (_resolve_calls,       *)
(* CodeGraph.expand).  A call has one caller, the function that is open at *)
(* its line, and is linked exactly when one function can be meant.  What   *)
(* lies within so many hops is what a path of that length reaches, with    *)
(* the edges along the way.                                                *)
Enclosing(q, m) ==
  {f \in q.functions : /\ f.file = m.file /\ f.start <= m.line /\ m.line < f.start + MaxScope
                       /\ \A g \in q.functions : g.file = m.file => g.start \notin f.start + 1 .. m.line}
Meant(q, m) ==
  LET named == {g \in q.functions : g.name = m.name} IN
  CASE Cardinality({g \in named : g.file = m.file}) = 1 -> {g \in named : g.file = m.file}
    [] Cardinality({g \in named : g.file = m.file}) # 1 /\ Cardinality(named) = 1 -> named
    [] OTHER -> {}

CallsAreExact(q) ==
  result = UNION {{<<f, g>> : f \in {e \in Enclosing(q, m) : e.name # m.name}, g \in Meant(q, m)} : m \in q.mentions}

Step(q, a, b) == \/ q.direction # "in"  /\ <<a, b>> \in q.edges
                 \/ q.direction # "out" /\ <<b, a>> \in q.edges
Reaches(q, n, hops) ==
  LET nodes == q.seeds \cup UNION {{e[1], e[2]} : e \in q.edges} IN
  \E length \in 0 .. hops : \E path \in [0 .. length -> nodes] :
    /\ path[0] \in q.seeds /\ path[length] = n
    /\ \A i \in 1 .. length : Step(q, path[i - 1], path[i])

ExpansionIsExact(q) ==
  LET nodes == q.seeds \cup UNION {{e[1], e[2]} : e \in q.edges} IN
  q.hops > 0 =>
    /\ result.nodes = {n \in nodes : Reaches(q, n, q.hops)}
    /\ result.edges = {e \in q.edges : \/ q.direction # "in"  /\ Reaches(q, e[1], q.hops - 1)
                                       \/ q.direction # "out" /\ Reaches(q, e[2], q.hops - 1)}

(* The search in the graph answers with what it should (see GraphSearch).  *)
SearchIsOrdered ==
  /\ Returned("search")   => SearchIsRight(question, result)
  /\ Returned("hotspots") => \A n \in Range(question.nodes) :
       n \in Range(result) <=>
         (n.kind = "function" /\ \E name \in Range(question.names) : <<name, n.name>> \in NamedIn)
  /\ Returned("rank")     => RankKeepsDistance(question, result)
  /\ Returned("format")   => ContextIsABeginning(question, result)
  /\ Returned("focus")    => FocusIsShown(question, result)

(* _resolve_calls and CodeGraph.expand give the callers, callees and       *)
(* surroundings that the names and edges mean, no more and no fewer.       *)
NeighbourhoodIsExact ==
  /\ Returned("calls")  => CallsAreExact(question)
  /\ Returned("expand") => ExpansionIsExact(question)

(* Each selection that bounds what the model sees, of files, of callees,   *)
(* of nodes round a seed, of chunks and of characters (graph/, rag/), is   *)
(* fair to the directories and kinds of evidence, exact, and in its order. *)
RetrievalIsExact == SelectionIsFair /\ NeighbourhoodIsExact /\ SearchIsOrdered
=============================================================================
