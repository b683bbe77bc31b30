----------------------------- MODULE Knowledge -----------------------------
(***************************************************************************)
(* What gets into the vector store and what is found there again: the      *)
(* startup of the knowledge ingestor and of the RAG service                *)
(* (get_embedder, VectorStore.ensure_collections), ingest_runbook with     *)
(* chunk_markdown and _window, ingest_resolved_incident, and the           *)
(* retrieval of aegis_services/rag_service/.                               *)
(*                                                                         *)
(* Both services start on their own, each with the embedder it finds, and  *)
(* race for the collections.  Requests post versions of one runbook and    *)
(* may overlap; the window loop is modelled pass by pass.  Resolved        *)
(* incidents come from the executor as RESOLVED records.  A text is the    *)
(* lengths of its sections in characters; a vector is the embedder that    *)
(* made it.                                                                *)
(***************************************************************************)
EXTENDS Naturals, Sequences, FiniteSets

CONSTANTS
  Requests,
  Texts,      \* versions of the runbook that may be posted
  MaxChars,   \* chunk_markdown's max_chars
  Overlap,    \* chunk_markdown's overlap_chars
  Incidents,
  Services,   \* first service of an incident, as retrieval filters by it
  Service,
  MaxStarts   \* bound on the starts of the two services

\* Length of the text in front of the first heading, and of each section with
\* its heading.
TextShapes == [preamble : Nat, sections : Seq(Nat \ {0})]

\* The code checks neither bound; its only caller uses 800 and 100.
ASSUME KnowledgeAssumption ==
  /\ Texts \subseteq TextShapes
  /\ MaxChars \in Nat /\ Overlap \in Nat /\ Overlap < MaxChars
  /\ Service \in [Incidents -> Services]
  /\ "unknown" \notin Services
  /\ MaxStarts \in Nat

Processes   == {"ingestor", "rag"}
Collections == <<"runbooks", "incidents_episodic", "architecture_docs">>
Named       == {Collections[k] : k \in DOMAIN Collections}
Backends    == {"fastembed", "ollama", "hashing"}

\* Embedder.dim.
Dim == [b \in Backends |-> IF b = "ollama" THEN 768 ELSE 384]

VARIABLES
  phase,     \* per process: "down", "ensure" a collection, or "create" it
  ensured,   \* per process: collections it has ensured; when all, it serves
  embedder,  \* per process: what get_embedder returned
  dim,       \* per collection: the size of its vectors, 0 while it does not exist
  starts,    \* history: starts of either process
  dims,      \* history: the dimensions those starts came with
  pc,        \* per request
  text,      \* per request: the version it posts
  section,   \* per request: the section it is cutting
  start,     \* per request: where the next window begins
  chunks,    \* per request: the chunks so far, by ordinal
  store,     \* collection runbooks: the points of this source, by ordinal
  newest,    \* the request that wrote last
  resolved,  \* incidents with a RESOLVED record on the topic
  taken,     \* those the ingestor's consumer is done with
  episodes   \* collection incidents_episodic: the point of an incident

process  == <<phase, ensured, embedder, dim, starts, dims>>
chunking == <<pc, text, section, start, chunks>>
loop     == <<resolved, taken, episodes>>
vars     == <<process, chunking, store, newest, loop>>

\* The sections to cut.  Without a heading the text is one; with one, what stands
\* in front of it is in no section.
Contents(t) ==
  IF t.sections # <<>> THEN t.sections
  ELSE IF t.preamble > 0 THEN <<t.preamble>> ELSE <<>>

NoText == [preamble |-> 0, sections |-> <<>>]

Chunks == [section : Nat, from : Nat, to : Nat]
Points == [post : Requests, by : Backends, section : Nat, from : Nat, to : Nat]

Episodes  == [service : Services \cup {"unknown"}, by : Backends]
NoEpisode == [service |-> "none", by |-> "none"]

ChunkIn(t, c) ==
  /\ c \in Chunks
  /\ c.section \in DOMAIN Contents(t)
  /\ c.from < c.to /\ c.to <= Contents(t)[c.section]
  /\ c.to - c.from <= MaxChars

\* Every variable has its type, and every chunk lies in its section and keeps to
\* the size limit.
TypeOK ==
  /\ phase \in [Processes -> {"down", "ensure", "create"}]
  /\ ensured \in [Processes -> 0 .. Len(Collections)]
  /\ \A p \in Processes : phase[p] = "create" => ensured[p] < Len(Collections)
  /\ embedder \in [Processes -> Backends]
  /\ dim \in [Named -> {0, 384, 768}]
  /\ starts \in 0 .. MaxStarts /\ dims \subseteq {384, 768}
  /\ pc \in [Requests -> {"unsent", "window", "upsert", "done", "failed"}]
  /\ text \in [Requests -> TextShapes]
  /\ \A r \in Requests :
       /\ pc[r] = "window" => /\ section[r] \in DOMAIN Contents(text[r])
                              /\ start[r] < Contents(text[r])[section[r]]
       /\ \A k \in DOMAIN chunks[r] : ChunkIn(text[r], chunks[r][k])
  /\ store \in Seq(Points)
  /\ newest \in SUBSET Requests
  /\ resolved \in SUBSET Incidents /\ taken \in SUBSET resolved
  /\ episodes \in [Incidents -> Episodes \cup {NoEpisode}]

Init ==
  /\ phase = [p \in Processes |-> "down"]
  /\ ensured = [p \in Processes |-> 0]
  /\ embedder = [p \in Processes |-> "hashing"]
  /\ dim = [c \in Named |-> 0]
  /\ starts = 0 /\ dims = {}
  /\ pc = [r \in Requests |-> "unsent"]
  /\ text = [r \in Requests |-> NoText]
  /\ section = [r \in Requests |-> 1]
  /\ start = [r \in Requests |-> 0]
  /\ chunks = [r \in Requests |-> <<>>]
  /\ store = <<>>
  /\ newest = {}
  /\ resolved = {} /\ taken = {}
  /\ episodes = [i \in Incidents |-> NoEpisode]

-----------------------------------------------------------------------------
(* Startup *)

Serves(p) == phase[p] = "ensure" /\ ensured[p] = Len(Collections)

\* The collection p is at.
At(p) == Collections[ensured[p] + 1]

\* get_embedder: FastEmbed when its model can be had, Ollama when it answers the
\* probe, the hashing fallback otherwise.
Choice(available) ==
  CASE "fastembed" \in available -> "fastembed"
    [] "ollama" \in available /\ "fastembed" \notin available -> "ollama"
    [] OTHER -> "hashing"

Start(p) ==
  /\ phase[p] = "down" /\ starts < MaxStarts
  /\ starts' = starts + 1
  /\ \E available \in SUBSET (Backends \ {"hashing"}) :
       /\ embedder' = [embedder EXCEPT ![p] = Choice(available)]
       /\ dims' = dims \cup {Dim[Choice(available)]}
  /\ phase' = [phase EXCEPT ![p] = "ensure"]
  /\ UNCHANGED <<ensured, dim, chunking, store, newest, loop>>

\* Mutant: the first collection that exists ends the loop.
ExistsReturns(p) ==
  /\ phase[p] = "ensure" /\ ~Serves(p) /\ dim[At(p)] # 0
  /\ ensured' = [ensured EXCEPT ![p] = Len(Collections)]
  /\ UNCHANGED <<phase, embedder, dim, starts, dims, chunking, store, newest, loop>>

\* collection_exists: a collection that is there is taken as it is.
Exists(p) ==
  /\ phase[p] = "ensure" /\ ~Serves(p) /\ dim[At(p)] # 0
  /\ ensured' = [ensured EXCEPT ![p] = @ + 1]
  /\ UNCHANGED <<phase, embedder, dim, starts, dims, chunking, store, newest, loop>>

Missing(p) ==
  /\ phase[p] = "ensure" /\ ~Serves(p) /\ dim[At(p)] = 0
  /\ phase' = [phase EXCEPT ![p] = "create"]
  /\ UNCHANGED <<ensured, embedder, dim, starts, dims, chunking, store, newest, loop>>

Create(p) ==
  /\ phase[p] = "create" /\ dim[At(p)] = 0
  /\ dim' = [dim EXCEPT ![At(p)] = Dim[embedder[p]]]
  /\ ensured' = [ensured EXCEPT ![p] = @ + 1]
  /\ phase' = [phase EXCEPT ![p] = "ensure"]
  /\ UNCHANGED <<embedder, starts, dims, chunking, store, newest, loop>>

\* The process and its globals are gone.
Ends(p) ==
  /\ phase' = [phase EXCEPT ![p] = "down"]
  /\ ensured' = [ensured EXCEPT ![p] = 0]
  /\ embedder' = [embedder EXCEPT ![p] = "hashing"]

\* The other service created it since the look: the call raises, and the startup
\* with it.
Conflict(p) ==
  /\ phase[p] = "create" /\ dim[At(p)] # 0
  /\ Ends(p)
  /\ UNCHANGED <<dim, starts, dims, chunking, store, newest, loop>>

\* A service dies or is redeployed; the ingestor's requests die with it.  What its
\* consumer is given again depends on its commits (KafkaConsumer).
Die(p) ==
  /\ phase[p] # "down"
  /\ Ends(p)
  /\ IF p = "ingestor"
     THEN /\ pc' = [r \in Requests |-> IF pc[r] \in {"window", "upsert"} THEN "failed"
                                       ELSE pc[r]]
          /\ taken' \in SUBSET taken
     ELSE UNCHANGED <<pc, taken>>
  /\ UNCHANGED <<dim, starts, dims, text, section, start, chunks, store, newest,
                 resolved, episodes>>

\* Qdrant refuses vectors and queries that are not of the collection's size.
Fits(p, c) == dim[c] = Dim[embedder[p]]

-----------------------------------------------------------------------------
(* ingest_runbook *)

\* The window loop has no await: the ingestor does nothing else meanwhile.
Free == Serves("ingestor") /\ \A r \in Requests : pc[r] # "window"

\* A text without contents returns 0 and leaves the store as it is.
Post(r, t) ==
  /\ pc[r] = "unsent" /\ Free
  /\ text' = [text EXCEPT ![r] = t]
  /\ pc' = [pc EXCEPT ![r] = IF Contents(t) = <<>> THEN "done" ELSE "window"]
  /\ UNCHANGED <<section, start, chunks, store, newest, process, loop>>

Smaller(a, b) == IF a < b THEN a ELSE b

\* Mutant: the window may reach past the end of the text.
EndUncut(r) == start[r] + MaxChars

\* Where the window of this pass ends.
End(r) == Smaller(start[r] + MaxChars, Contents(text[r])[section[r]])

\* Mutant: the next window leaves out what it should repeat.
NextStartSkips(r) == End(r) + Overlap

NextStart(r) == End(r) - Overlap

\* One pass of the loop.  A section that fits is one window of it; at the end of
\* the text the next section follows, and behind the last the upsert.
Window(r) ==
  /\ pc[r] = "window"
  /\ LET length == Contents(text[r])[section[r]]
         last   == section[r] = Len(Contents(text[r]))
     IN  /\ chunks' = [chunks EXCEPT ![r] = Append(@,
                [section |-> section[r], from |-> start[r], to |-> End(r)])]
         /\ IF End(r) < length
            THEN start' = [start EXCEPT ![r] = NextStart(r)]
                 /\ UNCHANGED <<pc, section>>
            ELSE /\ start' = [start EXCEPT ![r] = 0]
                 /\ section' = [section EXCEPT ![r] = @ + 1]
                 /\ pc' = [pc EXCEPT ![r] = IF last THEN "upsert" ELSE "window"]
  /\ UNCHANGED <<text, store, newest, process, loop>>

Point(r, k) ==
  [post |-> r, by |-> embedder["ingestor"], section |-> chunks[r][k].section,
   from |-> chunks[r][k].from, to |-> chunks[r][k].to]

\* The points' ids are made from source and ordinal: the first Len(chunks) points
\* of the source are overwritten, those behind them stay.
Upsert(r) ==
  /\ pc[r] = "upsert" /\ Free /\ Fits("ingestor", "runbooks")
  /\ LET n == Len(chunks[r])
     IN  store' = [k \in 1 .. (IF n < Len(store) THEN Len(store) ELSE n) |->
                     IF k <= n THEN Point(r, k) ELSE store[k]]
  /\ newest' = {r}
  /\ pc' = [pc EXCEPT ![r] = "done"]
  /\ UNCHANGED <<text, section, start, chunks, process, loop>>

\* Embedding or upsert raises, as it must when the vectors do not fit; the operator
\* gets an error.
Fail(r) ==
  /\ pc[r] = "upsert" /\ Free
  /\ pc' = [pc EXCEPT ![r] = "failed"]
  /\ UNCHANGED <<text, section, start, chunks, store, newest, process, loop>>

-----------------------------------------------------------------------------
(* The closed loop *)

\* The executor publishes RESOLVED with plan_id, resolution and root_cause.
Resolve(i) ==
  /\ i \notin resolved
  /\ resolved' = resolved \cup {i}
  /\ UNCHANGED <<process, chunking, store, newest, taken, episodes>>

\* ingest_resolved_incident: the record has no services, so the episode's service
\* is the default; a redelivered record writes the same point again.
Embed(i) ==
  /\ i \in resolved \ taken /\ Free /\ Fits("ingestor", "incidents_episodic")
  /\ taken' = taken \cup {i}
  /\ episodes' = [episodes EXCEPT ![i] =
                    [service |-> "unknown", by |-> embedder["ingestor"]]]
  /\ UNCHANGED <<process, chunking, store, newest, resolved>>

\* The same failures as a runbook's.  The consumer goes on behind the record.
EmbedFails(i) ==
  /\ i \in resolved \ taken /\ Free
  /\ taken' = taken \cup {i}
  /\ UNCHANGED <<process, chunking, store, newest, resolved, episodes>>

-----------------------------------------------------------------------------
(* Retrieval *)

\* What the RAG service answers /v1/retrieve with: it embeds the query and searches
\* two collections, each filtered by the service that every investigation names.
Answers == Serves("rag") /\ Fits("rag", "runbooks") /\ Fits("rag", "incidents_episodic")

EpisodicHits(service) == {i \in Incidents : episodes[i].service = service}

\* precedent_gate for a symptom as similar as can be to one of the hits; the score
\* of a vector another embedder made means nothing.
HasPrecedent(service) ==
  Answers /\ \E i \in EpisodicHits(service) : episodes[i].by = embedder["rag"]

Next ==
  \/ \E r \in Requests :
       \/ \E t \in Texts : Post(r, t)
       \/ Window(r) \/ Upsert(r) \/ Fail(r)
  \/ \E i \in Incidents : Resolve(i) \/ Embed(i) \/ EmbedFails(i)
  \/ \E p \in Processes :
       Start(p) \/ Exists(p) \/ Missing(p) \/ Create(p) \/ Conflict(p) \/ Die(p)

Spec == Init /\ [][Next]_vars

-----------------------------------------------------------------------------
(* Safety *)

\* After any posts of any versions, overlapping or failed, every character of every
\* section of the version written last is in a stored chunk of that version, and
\* what is left of older versions stands behind its last chunk.
RunbookRetrievable ==
  \A r \in newest :
    /\ \A s \in DOMAIN Contents(text[r]) : \A c \in 0 .. Contents(text[r])[s] - 1 :
         \E k \in DOMAIN store :
           /\ store[k].post = r /\ store[k].section = s
           /\ store[k].from <= c /\ c < store[k].to
    /\ \A k \in DOMAIN store : store[k].post # r => k > Len(chunks[r])

\* A service that serves finds all its collections, however the two raced for them,
\* and they take its vectors unless some start came with another dimension.  What
\* a search ranks was made by the searcher's own embedder, except that FastEmbed
\* and the hashing fallback, alike in size, are ranked against each other unseen.
CollectionsFit ==
  /\ \A p \in Processes, c \in Named : Serves(p) =>
       dim[c] # 0 /\ (Fits(p, c) \/ Cardinality(dims) > 1)
  /\ Answers =>
       \A b \in {store[k].by : k \in DOMAIN store}
                  \cup ({episodes[i].by : i \in Incidents} \ {NoEpisode.by}) :
         b = embedder["rag"] \/ {b, embedder["rag"]} = {"fastembed", "hashing"}

-----------------------------------------------------------------------------
(* What the documents say and the code does not do *)

\* OPERATIONS.md, step 7: the next similar incident retrieves an embedded one as
\* precedent, while the RAG service answers with the embedder that made its vector.
LearnedPrecedent ==
  \A i \in Incidents :
    Answers /\ episodes[i].by = embedder["rag"] => HasPrecedent(Service[i])

=============================================================================
