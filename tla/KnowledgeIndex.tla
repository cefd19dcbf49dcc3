--------------------------- MODULE KnowledgeIndex ---------------------------
(***************************************************************************)
(* knowledge_base/: index_knowledge_sources copies the files of a directory*)
(* into two tables, one row per article and one per chunk, while files     *)
(* change and other runs do the same; lookup_methodology reads them and    *)
(* remembers its answer in a cache of its own process.                     *)
(***************************************************************************)
EXTENDS Integers

CONSTANTS Paths,      \* the source files
          Bodies,     \* what a file may hold
          Blank,      \* the bodies without text, of which there are no chunks
          Absent,     \* no file, no row
          Broken,     \* a file that cannot be parsed
          Indexers,   \* the runs that may index at the same time
          Lookups,    \* the threads of the process that looks up
          MaxEdits    \* how often files change

ASSUME KnowledgeAssumption ==
  /\ Blank \subseteq Bodies
  /\ Absent \notin Bodies /\ Broken \notin Bodies /\ Absent # Broken
  /\ MaxEdits \in Nat

VARIABLES files,    \* the directory
          edits,    \* how often it changed
          article,  \* knowledge_base_articles: the body indexed for each path
          chunks,   \* knowledge_base_chunks: the body each path's chunks are of
          run,      \* the indexing runs
          cache,    \* the cached answer to a query, none or one
          answer    \* what each lookup has read and not yet returned

knowledgeVars == <<files, edits, article, chunks, run, cache, answer>>

Rows == [Paths -> Bodies \union {Absent}]

(* A run: the files it has yet to parse, what it parsed, and the history         *)
(* variable fresh, whether no file has changed since it listed them.             *)
Run == [stage : {"idle", "parsing", "writing", "done", "failed"},
        todo : SUBSET Paths, parsed : Rows, fresh : BOOLEAN]

(* A row of an answer: the title comes from the article, the excerpt from a chunk. *)
Answers == SUBSET [path : Paths, title : Bodies \union {Absent}, excerpt : Bodies]

KnowledgeTypeOK ==
  /\ files \in [Paths -> Bodies \union {Absent, Broken}]
  /\ edits \in 0 .. MaxEdits
  /\ article \in Rows
  /\ chunks \in Rows
  /\ run \in [Indexers -> Run]
  /\ cache \in SUBSET Answers
  /\ answer \in [Lookups -> SUBSET Answers]

NoRows == [p \in Paths |-> Absent]

IdleRun == [stage |-> "idle", todo |-> {}, parsed |-> NoRows, fresh |-> FALSE]

KnowledgeInit ==
  /\ files = NoRows
  /\ edits = 0
  /\ article = NoRows
  /\ chunks = NoRows
  /\ run = [i \in Indexers |-> IdleRun]
  /\ cache = {}
  /\ answer = [l \in Lookups |-> {}]

-----------------------------------------------------------------------------
(* Somebody writes, replaces, damages or removes a file. *)
Edit(p) ==
  /\ edits < MaxEdits
  /\ edits' = edits + 1
  /\ \E b \in (Bodies \union {Absent, Broken}) \ {files[p]} :
       files' = [files EXCEPT ![p] = b]
  /\ run' = [i \in Indexers |-> [run[i] EXCEPT !.fresh = FALSE]]
  /\ UNCHANGED <<article, chunks, cache, answer>>

(* The run lists the directory ... *)
List(i) ==
  /\ run[i].stage \in {"idle", "done", "failed"}
  /\ run' = [run EXCEPT ![i] = [stage |-> "parsing", todo |-> {p \in Paths : files[p] # Absent},
                                parsed |-> NoRows, fresh |-> TRUE]]
  /\ UNCHANGED <<files, edits, article, chunks, cache, answer>>

(* What a run makes of a file: one it cannot read is skipped. *)
Parsed(p) == IF files[p] \in Bodies THEN files[p] ELSE Absent

(* ... and parses one file after the other. *)
Parse(i) ==
  /\ run[i].stage = "parsing"
  /\ \E p \in run[i].todo :
       run' = [run EXCEPT ![i].todo = @ \ {p},
                          ![i].parsed[p] = Parsed(p)]
  /\ UNCHANGED <<files, edits, article, chunks, cache, answer>>

(* Mutant: articles that exist are kept. *)
WrittenOnce(i) == {p \in Paths : run[i].parsed[p] # Absent /\ article[p] = Absent}

(* The rows its transaction writes, and locks until it ends. *)
Written(i) == {p \in Paths : run[i].parsed[p] # Absent}

(* Mutant: the articles are committed on their own. *)
UpsertCommitted(i) ==
  /\ run[i].stage = "parsing" /\ run[i].todo = {}
  /\ \A j \in Indexers : run[j].stage = "writing" => Written(i) \intersect Written(j) = {}
  /\ run' = [run EXCEPT ![i].stage = "writing"]
  /\ article' = [p \in Paths |-> IF p \in Written(i) THEN run[i].parsed[p] ELSE article[p]]
  /\ UNCHANGED <<files, edits, chunks, cache, answer>>

(* The articles are upserted first; a row another run has written must wait. *)
UpsertArticles(i) ==
  /\ run[i].stage = "parsing" /\ run[i].todo = {}
  /\ \A j \in Indexers : run[j].stage = "writing" => Written(i) \intersect Written(j) = {}
  /\ run' = [run EXCEPT ![i].stage = "writing"]
  /\ UNCHANGED <<files, edits, article, chunks, cache, answer>>

ChunksOf(body) == IF body \in Blank THEN Absent ELSE body

(* Mutant: the old chunks are not deleted. *)
CommitOver(i) ==
  /\ run[i].stage = "writing"
  /\ article' = [p \in Paths |-> IF p \in Written(i) THEN run[i].parsed[p] ELSE article[p]]
  /\ chunks' = [p \in Paths |-> IF p \in Written(i) /\ run[i].parsed[p] \notin Blank
                                THEN run[i].parsed[p] ELSE chunks[p]]
  /\ run' = [run EXCEPT ![i].stage = "done"]
  /\ UNCHANGED <<files, edits, cache, answer>>

(* Then the chunks of each article are deleted and inserted, and all is committed. *)
(* Clearing the cache clears the one of this process, which looks nothing up.      *)
Commit(i) ==
  /\ run[i].stage = "writing"
  /\ article' = [p \in Paths |-> IF p \in Written(i) THEN run[i].parsed[p] ELSE article[p]]
  /\ chunks' = [p \in Paths |-> IF p \in Written(i) THEN ChunksOf(run[i].parsed[p]) ELSE chunks[p]]
  /\ run' = [run EXCEPT ![i].stage = "done"]
  /\ UNCHANGED <<files, edits, cache, answer>>

(* A statement fails or the process dies: the transaction leaves nothing. *)
IndexFault(i) ==
  /\ run[i].stage \in {"parsing", "writing"}
  /\ run' = [run EXCEPT ![i].stage = "failed"]
  /\ UNCHANGED <<files, edits, article, chunks, cache, answer>>

-----------------------------------------------------------------------------
(* One statement joins the chunks that match with their articles. *)
Matches == {[path |-> p, title |-> article[p], excerpt |-> chunks[p]] :
              p \in {q \in Paths : chunks[q] # Absent}}

LookupMiss(l) ==
  /\ answer[l] = {} /\ cache = {}
  /\ answer' = [answer EXCEPT ![l] = {Matches}]
  /\ UNCHANGED <<files, edits, article, chunks, run, cache>>

(* lru_cache stores what the lookup returns, after it has read. *)
LookupReturns(l) ==
  /\ answer[l] # {}
  /\ cache' = answer[l]
  /\ answer' = [answer EXCEPT ![l] = {}]
  /\ UNCHANGED <<files, edits, article, chunks, run>>

(* A hundred other queries push the answer out. *)
Evict ==
  /\ cache # {}
  /\ cache' = {}
  /\ UNCHANGED <<files, edits, article, chunks, run, answer>>

KnowledgeNext ==
  \/ \E p \in Paths : Edit(p)
  \/ \E i \in Indexers : List(i) \/ Parse(i) \/ UpsertArticles(i) \/ Commit(i) \/ IndexFault(i)
  \/ \E l \in Lookups : LookupMiss(l) \/ LookupReturns(l)
  \/ Evict

KnowledgeSpec == KnowledgeInit /\ [][KnowledgeNext]_knowledgeVars

-----------------------------------------------------------------------------
(* The chunks of a path are those of its article, however runs overlap.       *)
ChunksMatchArticles == \A p \in Paths : chunks[p] = ChunksOf(article[p])

(* An answer, cached for as long as the process lives, never shows an excerpt *)
(* under the title of another version of the article.                         *)
AnswersAreWhole ==
  \A a \in cache \union UNION {answer[l] : l \in Lookups} :
    \A row \in a : row.title = row.excerpt

(* A run during which no file changes leaves the index equal to the files that *)
(* can be read, even if another run has parsed older ones; a file that is gone *)
(* or broken keeps the row it had (ADR-0014, soft sync).                       *)
RunLeavesIndexFresh ==
  [][\A i \in Indexers :
       run[i].stage = "writing" /\ run'[i].stage = "done" /\ run[i].fresh
         => \A p \in Paths :
              article'[p] = IF files[p] \in Bodies THEN files[p] ELSE article[p]]_knowledgeVars
=============================================================================
