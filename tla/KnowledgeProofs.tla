--------------------------- MODULE KnowledgeProofs ---------------------------
(* Theorems about Knowledge, for every set of versions of the runbook, every *)
(* window size and overlap, and any number of requests, incidents and starts. *)
EXTENDS Knowledge, FiniteSetTheorems, TLAPS

-----------------------------------------------------------------------------
(* The operators *)

LEMMA CollectionFacts ==
  /\ Len(Collections) = 3
  /\ Named = {"runbooks", "incidents_episodic", "architecture_docs"}
  /\ \A k \in 1 .. 3 : Collections[k] \in Named
BY DEF Collections, Named

LEMMA DimFacts ==
  /\ Dim \in [Backends -> {384, 768}]
  /\ \A a, b \in Backends : Dim[a] = Dim[b] => a = b \/ {a, b} = {"fastembed", "hashing"}
<1>1. Dim \in [Backends -> {384, 768}] BY DEF Dim
<1>2. /\ Dim["fastembed"] = 384 /\ Dim["ollama"] = 768 /\ Dim["hashing"] = 384
  BY DEF Dim, Backends
<1> QED BY <1>1, <1>2 DEF Backends

LEMMA ContentsFacts ==
  ASSUME NEW t \in TextShapes
  PROVE  /\ Contents(t) \in Seq(Nat \ {0})
         /\ Len(Contents(t)) \in Nat /\ DOMAIN Contents(t) = 1 .. Len(Contents(t))
         /\ \A s \in DOMAIN Contents(t) : Contents(t)[s] \in Nat \ {0}
         /\ Contents(t) # <<>> => 1 \in DOMAIN Contents(t)
<1>1. Contents(t) \in Seq(Nat \ {0})
  <2>1. t.preamble \in Nat /\ t.sections \in Seq(Nat \ {0}) BY DEF TextShapes
  <2>2. CASE t.sections # <<>> BY <2>1, <2>2 DEF Contents
  <2>3. CASE t.sections = <<>> /\ t.preamble > 0
    <3>1. t.preamble \in Nat \ {0} BY <2>1, <2>3
    <3>2. <<t.preamble>> \in Seq(Nat \ {0}) BY <3>1
    <3> QED BY <2>3, <3>2 DEF Contents
  <2>4. CASE t.sections = <<>> /\ ~ t.preamble > 0 BY <2>4 DEF Contents
  <2> QED BY <2>2, <2>3, <2>4
<1>2. Len(Contents(t)) \in Nat /\ DOMAIN Contents(t) = 1 .. Len(Contents(t)) BY <1>1
<1>3. \A s \in DOMAIN Contents(t) : Contents(t)[s] \in Nat \ {0} BY <1>1, <1>2
<1>4. Contents(t) # <<>> => Len(Contents(t)) # 0 BY <1>1
<1> QED BY <1>1, <1>2, <1>3, <1>4

\* What a window takes, and where the next one begins.
LEMMA WindowFacts ==
  ASSUME NEW r, start[r] \in Nat, NEW length \in Nat,
         Contents(text[r])[section[r]] = length, start[r] < length
  PROVE  /\ End(r) \in Nat /\ start[r] < End(r) /\ End(r) <= length
         /\ End(r) <= start[r] + MaxChars
         /\ End(r) < length => /\ NextStart(r) \in Nat /\ NextStart(r) <= End(r)
                               /\ start[r] < NextStart(r)
<1>1. End(r) = IF start[r] + MaxChars < length THEN start[r] + MaxChars ELSE length
  BY DEF End, Smaller
<1>2. MaxChars \in Nat /\ Overlap \in Nat /\ Overlap < MaxChars BY KnowledgeAssumption
<1> QED BY <1>1, <1>2 DEF NextStart

-----------------------------------------------------------------------------
(* Type correctness *)

StartupType ==
  /\ phase \in [Processes -> {"down", "ensure", "create"}]
  /\ ensured \in [Processes -> 0 .. 3]
  /\ \A p \in Processes : phase[p] = "create" => ensured[p] < 3
  /\ embedder \in [Processes -> Backends]
  /\ dim \in [Named -> {0, 384, 768}]
  /\ starts \in 0 .. MaxStarts /\ dims \subseteq {384, 768}

RequestType ==
  /\ pc \in [Requests -> {"unsent", "window", "upsert", "done", "failed"}]
  /\ text \in [Requests -> TextShapes]
  /\ section \in [Requests -> Nat \ {0}]
  /\ start \in [Requests -> Nat]
  /\ chunks \in [Requests -> Seq(Chunks)]

\* Where a request is in the windows of its text.
WindowInv(r) ==
  /\ pc[r] = "unsent" => section[r] = 1 /\ start[r] = 0 /\ chunks[r] = <<>>
  /\ pc[r] = "window" => /\ section[r] \in DOMAIN Contents(text[r])
                         /\ start[r] < Contents(text[r])[section[r]]
  /\ pc[r] = "upsert" => section[r] = Len(Contents(text[r])) + 1
  /\ \A k \in DOMAIN chunks[r] : ChunkIn(text[r], chunks[r][k])

StoreType == store \in Seq(Points) /\ newest \in SUBSET Requests

LoopType ==
  /\ resolved \in SUBSET Incidents /\ taken \in SUBSET resolved
  /\ episodes \in [Incidents -> Episodes \cup {NoEpisode}]

Types ==
  /\ StartupType /\ RequestType /\ StoreType /\ LoopType
  /\ \A r \in Requests : WindowInv(r)

LEMMA TypesImply == Types => TypeOK
BY CollectionFacts DEF Types, TypeOK, StartupType, RequestType, WindowInv, StoreType,
   LoopType

LEMMA TypesInit == Init => Types
<1> SUFFICES ASSUME Init PROVE Types
  OBVIOUS
<1>1. StartupType BY KnowledgeAssumption DEF Init, StartupType, Backends
<1>2. RequestType
  <2>1. NoText \in TextShapes BY DEF NoText, TextShapes
  <2>2. <<>> \in Seq(Chunks) OBVIOUS
  <2> QED BY <2>1, <2>2 DEF Init, RequestType
<1>3. \A r \in Requests : WindowInv(r) BY DEF Init, WindowInv
<1>4. StoreType BY DEF Init, StoreType
<1>5. LoopType BY DEF Init, LoopType
<1> QED BY <1>1, <1>2, <1>3, <1>4, <1>5 DEF Types

\* A part of the state that a step leaves alone keeps its type.
LEMMA Untouched ==
  /\ StartupType /\ UNCHANGED process => StartupType'
  /\ RequestType /\ UNCHANGED chunking => RequestType'
  /\ (\A r \in Requests : WindowInv(r)) /\ UNCHANGED chunking =>
       (\A r \in Requests : WindowInv(r))'
  /\ StoreType /\ UNCHANGED <<store, newest>> => StoreType'
  /\ LoopType /\ UNCHANGED loop => LoopType'
BY DEF StartupType, RequestType, WindowInv, StoreType, LoopType, process, chunking, loop

\* A request that is no longer at a window or the upsert keeps its chunks.
LEMMA PcMoves ==
  ASSUME Types, UNCHANGED <<text, section, start, chunks>>,
         pc' \in [Requests -> {"unsent", "window", "upsert", "done", "failed"}],
         \A r \in Requests : pc'[r] = pc[r] \/ pc'[r] \in {"done", "failed"}
  PROVE  RequestType' /\ (\A r \in Requests : WindowInv(r))'
BY DEF Types, RequestType, WindowInv

LEMMA PostType ==
  ASSUME Types, NEW r \in Requests, NEW t \in Texts, Post(r, t)
  PROVE  RequestType' /\ (\A q \in Requests : WindowInv(q))'
<1>1. t \in TextShapes BY KnowledgeAssumption
<1>2. RequestType' BY <1>1 DEF Types, RequestType, Post
<1>3. \A q \in Requests : q # r => pc'[q] = pc[q] /\ text'[q] = text[q]
  BY DEF Types, RequestType, Post
<1>4. /\ pc'[r] = (IF Contents(t) = <<>> THEN "done" ELSE "window") /\ text'[r] = t
      /\ pc[r] = "unsent" /\ UNCHANGED <<section, start, chunks>>
  BY DEF Types, RequestType, Post
<1>5. \A q \in Requests : q # r => WindowInv(q)'
  BY <1>3, <1>4 DEF Types, WindowInv
<1>6. WindowInv(r)'
  <2>1. section[r] = 1 /\ start[r] = 0 /\ chunks[r] = <<>>
    BY <1>4 DEF Types, WindowInv
  <2>2. Contents(t) # <<>> => 1 \in DOMAIN Contents(t) /\ 0 < Contents(t)[1]
    BY <1>1, ContentsFacts
  <2> QED BY <1>4, <2>1, <2>2 DEF WindowInv
<1> QED BY <1>2, <1>5, <1>6

\* One pass of the window loop, in terms of its request.
LEMMA WindowPass ==
  ASSUME Types, NEW r \in Requests, Window(r)
  PROVE  LET length == Contents(text[r])[section[r]]
             c      == [section |-> section[r], from |-> start[r], to |-> End(r)]
         IN  /\ length \in Nat \ {0} /\ section[r] \in DOMAIN Contents(text[r])
             /\ start[r] < End(r) /\ End(r) <= length
             /\ c \in Chunks /\ ChunkIn(text[r], c)
             /\ chunks'[r] = Append(chunks[r], c)
             /\ \/ /\ End(r) < length /\ pc'[r] = "window"
                   /\ section'[r] = section[r] /\ start'[r] = NextStart(r)
                   /\ NextStart(r) \in Nat /\ NextStart(r) <= End(r)
                \/ /\ End(r) = length /\ start'[r] = 0 /\ section'[r] = section[r] + 1
                   /\ section[r] # Len(Contents(text[r])) => pc'[r] = "window"
                   /\ section[r] = Len(Contents(text[r])) => pc'[r] = "upsert"
             /\ text' = text
             /\ \A q \in Requests : q # r =>
                  /\ pc'[q] = pc[q] /\ section'[q] = section[q]
                  /\ start'[q] = start[q] /\ chunks'[q] = chunks[q]
<1> DEFINE length == Contents(text[r])[section[r]]
           c      == [section |-> section[r], from |-> start[r], to |-> End(r)]
<1>1. /\ pc[r] = "window" /\ text[r] \in TextShapes /\ start[r] \in Nat
      /\ section[r] \in DOMAIN Contents(text[r]) /\ start[r] < length
      /\ section[r] \in Nat
  BY DEF Window, Types, RequestType, WindowInv
<1>2. length \in Nat \ {0} BY <1>1, ContentsFacts
<1>3. /\ End(r) \in Nat /\ start[r] < End(r) /\ End(r) <= length
      /\ End(r) <= start[r] + MaxChars
      /\ End(r) < length => NextStart(r) \in Nat /\ NextStart(r) <= End(r)
  BY <1>1, <1>2, WindowFacts
<1>4. c \in Chunks BY <1>1, <1>3 DEF Chunks
<1>5. ChunkIn(text[r], c)
  <2>1. c.section = section[r] /\ c.from = start[r] /\ c.to = End(r) OBVIOUS
  <2>2. End(r) - start[r] <= MaxChars BY <1>1, <1>3, KnowledgeAssumption
  <2> HIDE DEF c
  <2> QED BY <1>1, <1>3, <1>4, <2>1, <2>2 DEF ChunkIn
<1>6. /\ chunks' = [chunks EXCEPT ![r] = Append(@, c)] /\ text' = text
      /\ \/ /\ End(r) < length /\ start' = [start EXCEPT ![r] = NextStart(r)]
            /\ UNCHANGED <<pc, section>>
         \/ /\ ~ End(r) < length /\ start' = [start EXCEPT ![r] = 0]
            /\ section' = [section EXCEPT ![r] = @ + 1]
            /\ pc' = [pc EXCEPT ![r] = IF section[r] = Len(Contents(text[r]))
                                        THEN "upsert" ELSE "window"]
  BY DEF Window
<1> HIDE DEF c, length
<1>7. chunks'[r] = Append(chunks[r], c) BY <1>6 DEF Types, RequestType
<1>8. \A q \in Requests : q # r =>
         /\ pc'[q] = pc[q] /\ section'[q] = section[q]
         /\ start'[q] = start[q] /\ chunks'[q] = chunks[q]
  BY <1>6 DEF Types, RequestType
<1>9. \/ /\ End(r) < length /\ pc'[r] = "window"
         /\ section'[r] = section[r] /\ start'[r] = NextStart(r)
         /\ NextStart(r) \in Nat /\ NextStart(r) <= End(r)
      \/ /\ End(r) = length /\ start'[r] = 0 /\ section'[r] = section[r] + 1
         /\ section[r] # Len(Contents(text[r])) => pc'[r] = "window"
         /\ section[r] = Len(Contents(text[r])) => pc'[r] = "upsert"
  <2>1. CASE End(r) < length
    BY <1>1, <1>3, <1>6, <2>1 DEF Types, RequestType
  <2>2. CASE ~ End(r) < length
    <3>1. End(r) = length BY <1>2, <1>3, <2>2
    <3> QED BY <1>6, <2>2, <3>1 DEF Types, RequestType
  <2> QED BY <2>1, <2>2
<1> QED BY <1>1, <1>2, <1>3, <1>4, <1>5, <1>6, <1>7, <1>8, <1>9 DEF c, length

LEMMA WindowType ==
  ASSUME Types, NEW r \in Requests, Window(r)
  PROVE  RequestType' /\ (\A q \in Requests : WindowInv(q))'
<1> DEFINE length == Contents(text[r])[section[r]]
           c      == [section |-> section[r], from |-> start[r], to |-> End(r)]
<1>1. /\ length \in Nat \ {0} /\ section[r] \in DOMAIN Contents(text[r])
      /\ c \in Chunks /\ ChunkIn(text[r], c)
      /\ chunks'[r] = Append(chunks[r], c)
      /\ \/ /\ End(r) < length /\ pc'[r] = "window"
            /\ section'[r] = section[r] /\ start'[r] = NextStart(r)
            /\ NextStart(r) \in Nat /\ NextStart(r) <= End(r)
         \/ /\ End(r) = length /\ start'[r] = 0 /\ section'[r] = section[r] + 1
            /\ section[r] # Len(Contents(text[r])) => pc'[r] = "window"
            /\ section[r] = Len(Contents(text[r])) => pc'[r] = "upsert"
      /\ text' = text
      /\ \A q \in Requests : q # r =>
           /\ pc'[q] = pc[q] /\ section'[q] = section[q]
           /\ start'[q] = start[q] /\ chunks'[q] = chunks[q]
  BY WindowPass
<1>2. text[r] \in TextShapes /\ chunks[r] \in Seq(Chunks) /\ End(r) \in Nat
  <2>1. text[r] \in TextShapes /\ chunks[r] \in Seq(Chunks) BY DEF Types, RequestType
  <2>2. c.to \in Nat BY <1>1 DEF Chunks
  <2> QED BY <2>1, <2>2
<1>3. /\ Len(Contents(text[r])) \in Nat
      /\ DOMAIN Contents(text[r]) = 1 .. Len(Contents(text[r]))
      /\ \A s \in DOMAIN Contents(text[r]) : Contents(text[r])[s] \in Nat \ {0}
  BY <1>2, ContentsFacts
<1> HIDE DEF c
<1>4. RequestType'
  <2>1. pc' \in [Requests -> {"unsent", "window", "upsert", "done", "failed"}]
    BY DEF Window, Types, RequestType
  <2>2. section' \in [Requests -> Nat \ {0}] BY DEF Window, Types, RequestType
  <2>3. start' \in [Requests -> Nat]
    <3>1. start'[r] \in Nat BY <1>1
    <3>2. start' = [start EXCEPT ![r] = start'[r]] BY DEF Window, Types, RequestType
    <3> QED BY <3>1, <3>2 DEF Types, RequestType
  <2>4. chunks' \in [Requests -> Seq(Chunks)]
    <3>1. Append(chunks[r], c) \in Seq(Chunks) BY <1>1, <1>2
    <3>2. chunks' = [chunks EXCEPT ![r] = Append(chunks[r], c)]
      BY DEF Window, Types, RequestType, c
    <3> QED BY <3>1, <3>2 DEF Types, RequestType
  <2> QED BY <1>1, <2>1, <2>2, <2>3, <2>4 DEF Types, RequestType
<1>5. WindowInv(r)'
  <2>1. \A k \in DOMAIN chunks'[r] : ChunkIn(text[r], chunks'[r][k])
    BY <1>1, <1>2 DEF Types, WindowInv
  <2>2. CASE End(r) < length /\ pc'[r] = "window"
    <3>1. start'[r] < length BY <1>1, <1>2, <2>2
    <3> QED BY <1>1, <2>1, <2>2, <3>1 DEF WindowInv
  <2>3. CASE ~ (End(r) < length /\ pc'[r] = "window")
    <3>1. start'[r] = 0 /\ section'[r] = section[r] + 1 /\ section[r] \in Nat
      BY <1>1, <1>3, <2>3
    <3>2. CASE section[r] = Len(Contents(text[r]))
      BY <1>1, <1>2, <2>1, <2>3, <3>1, <3>2 DEF WindowInv
    <3>3. CASE section[r] # Len(Contents(text[r]))
      <4>1. pc'[r] = "window" BY <1>1, <2>3, <3>3
      <4>2. section'[r] \in DOMAIN Contents(text[r]) BY <1>1, <1>3, <3>1, <3>3
      <4>3. start'[r] < Contents(text[r])[section'[r]] BY <1>3, <3>1, <4>2
      <4> QED BY <1>1, <2>1, <4>1, <4>2, <4>3 DEF WindowInv
    <3> QED BY <3>2, <3>3
  <2> QED BY <2>2, <2>3
<1>6. \A q \in Requests : q # r => WindowInv(q)'
  BY <1>1 DEF Types, WindowInv
<1> QED BY <1>4, <1>5, <1>6

LEMMA UpsertType ==
  ASSUME Types, NEW r \in Requests, Upsert(r)
  PROVE  StoreType'
<1>1. /\ chunks[r] \in Seq(Chunks) /\ store \in Seq(Points)
      /\ embedder["ingestor"] \in Backends
  BY DEF Types, RequestType, StoreType, StartupType, Processes
<1> DEFINE n == Len(chunks[r])
           m == IF n < Len(store) THEN Len(store) ELSE n
<1>2. n \in Nat /\ Len(store) \in Nat /\ m \in Nat BY <1>1
<1>3. \A k \in 1 .. n : Point(r, k) \in Points
  <2> SUFFICES ASSUME NEW k \in 1 .. n PROVE Point(r, k) \in Points
    OBVIOUS
  <2>1. chunks[r][k] \in Chunks BY <1>1
  <2>2. /\ chunks[r][k].section \in Nat /\ chunks[r][k].from \in Nat
        /\ chunks[r][k].to \in Nat
    BY <2>1 DEF Chunks
  <2> QED BY <1>1, <2>2 DEF Point, Points
<1>4. \A k \in 1 .. m : (IF k <= n THEN Point(r, k) ELSE store[k]) \in Points
  <2> SUFFICES ASSUME NEW k \in 1 .. m
               PROVE  (IF k <= n THEN Point(r, k) ELSE store[k]) \in Points
    OBVIOUS
  <2>1. CASE k <= n BY <1>2, <1>3, <2>1
  <2>2. CASE ~ k <= n
    <3>1. k \in 1 .. Len(store) BY <1>2, <2>2
    <3> QED BY <1>1, <2>2, <3>1
  <2> QED BY <2>1, <2>2
<1>5. store' = [k \in 1 .. m |-> IF k <= n THEN Point(r, k) ELSE store[k]]
  BY DEF Upsert
<1> HIDE DEF n, m
<1>6. store' \in Seq(Points) BY <1>2, <1>4, <1>5
<1> QED BY <1>6 DEF Upsert, StoreType

LEMMA StartupStep ==
  ASSUME Types, NEW p \in Processes,
         Start(p) \/ Exists(p) \/ Missing(p) \/ Create(p) \/ Conflict(p) \/ Die(p)
  PROVE  StartupType'
<1>1. StartupType BY DEF Types
<1>2. CASE Start(p)
  <2>1. PICK available \in SUBSET (Backends \ {"hashing"}) :
          /\ embedder' = [embedder EXCEPT ![p] = Choice(available)]
          /\ dims' = dims \cup {Dim[Choice(available)]}
    BY <1>2 DEF Start
  <2>2. Choice(available) \in Backends BY DEF Choice, Backends
  <2>3. Dim[Choice(available)] \in {384, 768} BY <2>2, DimFacts
  <2>4. embedder' \in [Processes -> Backends] BY <1>1, <2>1, <2>2 DEF StartupType
  <2>5. dims' \subseteq {384, 768}
    <3> SUFFICES ASSUME NEW d \in dims' PROVE d \in {384, 768}
      OBVIOUS
    <3>1. d \in dims \/ d = Dim[Choice(available)] BY <2>1
    <3>2. dims \subseteq {384, 768} BY <1>1 DEF StartupType
    <3>3. CASE d \in dims BY <3>2, <3>3
    <3>4. CASE d = Dim[Choice(available)]
      BY ONLY <2>3, <3>4
    <3> QED BY <3>1, <3>3, <3>4
  <2>6. starts' \in 0 .. MaxStarts
    BY <1>1, <1>2, KnowledgeAssumption DEF Start, StartupType
  <2>7. /\ phase' \in [Processes -> {"down", "ensure", "create"}]
        /\ \A q \in Processes : phase'[q] = "create" => phase[q] = "create"
        /\ ensured' = ensured /\ dim' = dim
    BY <1>1, <1>2 DEF Start, StartupType
  <2> QED BY <1>1, <2>4, <2>5, <2>6, <2>7 DEF StartupType
<1>3. CASE Exists(p) \/ Missing(p)
  <2>1. ensured[p] < 3
    BY <1>1, <1>3, CollectionFacts DEF Exists, Missing, Serves, StartupType
  <2>2. CASE Exists(p)
    <3>1. /\ phase[p] = "ensure" /\ ensured' = [ensured EXCEPT ![p] = @ + 1]
          /\ UNCHANGED <<phase, embedder, dim, starts, dims>>
      BY <2>2 DEF Exists
    <3>2. ensured[p] \in Nat /\ ensured[p] + 1 \in 0 .. 3 BY <1>1, <2>1 DEF StartupType
    <3>3. ensured' \in [Processes -> 0 .. 3] BY <1>1, <3>1, <3>2 DEF StartupType
    <3>4. \A q \in Processes : q # p => ensured'[q] = ensured[q]
      BY <1>1, <3>1 DEF StartupType
    <3> QED BY <1>1, <3>1, <3>3, <3>4 DEF StartupType
  <2>3. CASE Missing(p)
    <3>1. /\ phase' = [phase EXCEPT ![p] = "create"]
          /\ UNCHANGED <<ensured, embedder, dim, starts, dims>>
      BY <2>3 DEF Missing
    <3> QED BY <1>1, <2>1, <3>1 DEF StartupType
  <2> QED BY <1>3, <2>2, <2>3
<1>4. CASE Create(p)
  <2>1. /\ phase[p] = "create" /\ ensured' = [ensured EXCEPT ![p] = @ + 1]
        /\ dim' = [dim EXCEPT ![At(p)] = Dim[embedder[p]]]
        /\ phase' = [phase EXCEPT ![p] = "ensure"]
        /\ UNCHANGED <<embedder, starts, dims>>
    BY <1>4 DEF Create
  <2>2. Dim[embedder[p]] \in {384, 768} BY <1>1, DimFacts DEF StartupType
  <2>3. dim' \in [Named -> {0, 384, 768}]
    <3>1. dim \in [Named -> {0, 384, 768}] BY <1>1 DEF StartupType
    <3>2. ASSUME NEW c \in Named PROVE dim'[c] \in {0, 384, 768}
      <4>1. CASE c = At(p) BY <2>1, <2>2, <3>1, <4>1
      <4>2. CASE c # At(p) BY <2>1, <3>1, <4>2
      <4> QED BY <4>1, <4>2
    <3>3. dim' = [c \in Named |-> dim'[c]] BY <2>1, <3>1
    <3> QED BY <3>2, <3>3
  <2>4. ensured[p] \in Nat /\ ensured[p] + 1 \in 0 .. 3 BY <1>1, <2>1 DEF StartupType
  <2>5. ensured' \in [Processes -> 0 .. 3] BY <1>1, <2>1, <2>4 DEF StartupType
  <2>6. \A q \in Processes :
          phase'[q] = "create" => phase[q] = "create" /\ ensured'[q] = ensured[q]
    BY <1>1, <2>1 DEF StartupType
  <2>7. phase' \in [Processes -> {"down", "ensure", "create"}]
    BY <1>1, <2>1 DEF StartupType
  <2> QED BY <1>1, <2>1, <2>3, <2>5, <2>6, <2>7 DEF StartupType
<1>5. CASE Conflict(p) \/ Die(p)
  BY <1>1, <1>5 DEF Conflict, Die, Ends, StartupType, Backends
<1> QED BY <1>2, <1>3, <1>4, <1>5

LEMMA TypesStep == Types /\ [Next]_vars => Types'
<1> SUFFICES ASSUME Types, [Next]_vars PROVE Types'
  OBVIOUS
<1>1. ASSUME NEW r \in Requests, NEW t \in Texts, Post(r, t) PROVE Types'
  BY <1>1, PostType, Untouched DEF Post, Types
<1>2. ASSUME NEW r \in Requests, Window(r) PROVE Types'
  BY <1>2, WindowType, Untouched DEF Window, Types
<1>3. ASSUME NEW r \in Requests, Upsert(r) PROVE Types'
  <2>1. RequestType' /\ (\A q \in Requests : WindowInv(q))'
    BY <1>3, PcMoves DEF Upsert, Types, RequestType
  <2> QED BY <1>3, <2>1, UpsertType, Untouched DEF Upsert, Types
<1>4. ASSUME NEW r \in Requests, Fail(r) PROVE Types'
  <2>1. RequestType' /\ (\A q \in Requests : WindowInv(q))'
    BY <1>4, PcMoves DEF Fail, Types, RequestType
  <2> QED BY <1>4, <2>1, Untouched DEF Fail, Types
<1>5. ASSUME NEW i \in Incidents, Resolve(i) \/ Embed(i) \/ EmbedFails(i) PROVE Types'
  <2>1. embedder["ingestor"] \in Backends BY DEF Types, StartupType, Processes
  <2>2. [service |-> "unknown", by |-> embedder["ingestor"]] \in Episodes
    BY <2>1 DEF Episodes
  <2>3. LoopType'
    BY <1>5, <2>2 DEF Resolve, Embed, EmbedFails, Types, LoopType
  <2> QED BY <1>5, <2>3, Untouched DEF Resolve, Embed, EmbedFails, Types
<1>6. ASSUME NEW p \in Processes,
             Start(p) \/ Exists(p) \/ Missing(p) \/ Create(p) \/ Conflict(p)
      PROVE  Types'
  <2>1. StartupType' BY <1>6, StartupStep
  <2> QED BY <1>6, <2>1, Untouched
          DEF Start, Exists, Missing, Create, Conflict, Types
<1>7. ASSUME NEW p \in Processes, Die(p) PROVE Types'
  <2>1. StartupType' BY <1>7, StartupStep
  <2>2. RequestType' /\ (\A q \in Requests : WindowInv(q))'
    BY <1>7, PcMoves DEF Die, Types, RequestType
  <2>3. LoopType' BY <1>7 DEF Die, Types, LoopType
  <2> QED BY <1>7, <2>1, <2>2, <2>3, Untouched DEF Die, Types
<1>8. CASE UNCHANGED vars BY <1>8, Untouched DEF vars, Types
<1> QED BY <1>1, <1>2, <1>3, <1>4, <1>5, <1>6, <1>7, <1>8 DEF Next

LEMMA TypesHold == Spec => []Types
BY TypesInit, TypesStep, PTL DEF Spec

\* Every chunk lies in its section and keeps to the size limit, and every variable has
\* its type, for all texts and every window size and overlap.
THEOREM TypeCorrect == Spec => []TypeOK
BY TypesHold, TypesImply, PTL

-----------------------------------------------------------------------------
(* What was written last is retrievable *)

\* The first n characters of section s are in the chunks q.
Covers(q, s, n) ==
  \A c \in Nat : c < n => \E k \in DOMAIN q : /\ q[k].section = s
                                              /\ q[k].from <= c /\ c < q[k].to

\* Overlapping windows leave no gap: the sections behind the one being cut are in the
\* chunks, and of that one all in front of the next window.
CutInv(r) ==
  /\ pc[r] = "window" =>
       /\ \A s \in DOMAIN Contents(text[r]) :
            s < section[r] => Covers(chunks[r], s, Contents(text[r])[s])
       /\ Covers(chunks[r], section[r], start[r])
  /\ pc[r] = "upsert" =>
       \A s \in DOMAIN Contents(text[r]) : Covers(chunks[r], s, Contents(text[r])[s])

\* RunbookRetrievable for one request.
Retrievable(r) ==
  /\ \A s \in DOMAIN Contents(text[r]) : \A c \in 0 .. Contents(text[r])[s] - 1 :
       \E k \in DOMAIN store :
         /\ store[k].post = r /\ store[k].section = s
         /\ store[k].from <= c /\ c < store[k].to
  /\ \A k \in DOMAIN store : store[k].post # r => k > Len(chunks[r])

NewestInv == \A r \in newest : pc[r] = "done" /\ Retrievable(r)

RetrieveInv == Types /\ (\A r \in Requests : CutInv(r)) /\ NewestInv

LEMMA CoversNothing == ASSUME NEW q, NEW s PROVE Covers(q, s, 0)
BY DEF Covers

LEMMA CoversLess ==
  ASSUME NEW q, NEW s, NEW n \in Nat, NEW m \in Nat, m <= n, Covers(q, s, n)
  PROVE  Covers(q, s, m)
BY DEF Covers

\* One more chunk takes nothing away, and when it begins where the cover ends or
\* before, it extends the cover to its own end.
LEMMA CoversAppend ==
  ASSUME NEW q \in Seq(Chunks), NEW d \in Chunks, NEW s, NEW n \in Nat, Covers(q, s, n)
  PROVE  /\ Covers(Append(q, d), s, n)
         /\ d.section = s /\ d.from <= n => Covers(Append(q, d), s, d.to)
<1> DEFINE e == Append(q, d)
<1>1. /\ DOMAIN q = 1 .. Len(q) /\ DOMAIN e = 1 .. Len(q) + 1 /\ Len(q) \in Nat
      /\ \A k \in DOMAIN q : e[k] = q[k]
      /\ e[Len(q) + 1] = d
  OBVIOUS
<1>2. DOMAIN q \subseteq DOMAIN e /\ Len(q) + 1 \in DOMAIN e BY <1>1
<1>3. d.from \in Nat /\ d.to \in Nat BY DEF Chunks
<1> HIDE DEF e
<1>4. Covers(e, s, n) BY <1>1, <1>2 DEF Covers
<1>5. ASSUME d.section = s, d.from <= n PROVE Covers(e, s, d.to)
  <2> SUFFICES ASSUME NEW c \in Nat, c < d.to
               PROVE  \E k \in DOMAIN e : /\ e[k].section = s
                                          /\ e[k].from <= c /\ c < e[k].to
    BY DEF Covers
  <2>1. CASE c < n BY <1>4, <2>1 DEF Covers
  <2>2. CASE ~ c < n
    <3>1. d.from <= c BY <1>3, <1>5, <2>2
    <3> QED BY <1>1, <1>2, <1>5, <3>1
  <2> QED BY <2>1, <2>2
<1> QED BY <1>4, <1>5 DEF e

LEMMA CutWindow ==
  ASSUME Types, NEW r \in Requests, CutInv(r), Window(r)
  PROVE  CutInv(r)'
<1> DEFINE length == Contents(text[r])[section[r]]
           d      == [section |-> section[r], from |-> start[r], to |-> End(r)]
<1>1. /\ length \in Nat \ {0} /\ section[r] \in DOMAIN Contents(text[r])
      /\ d \in Chunks
      /\ chunks'[r] = Append(chunks[r], d)
      /\ \/ /\ End(r) < length /\ pc'[r] = "window"
            /\ section'[r] = section[r] /\ start'[r] = NextStart(r)
            /\ NextStart(r) \in Nat /\ NextStart(r) <= End(r)
         \/ /\ End(r) = length /\ start'[r] = 0 /\ section'[r] = section[r] + 1
            /\ section[r] # Len(Contents(text[r])) => pc'[r] = "window"
            /\ section[r] = Len(Contents(text[r])) => pc'[r] = "upsert"
      /\ text' = text
  BY WindowPass
<1>2. d.section = section[r] /\ d.from = start[r] /\ d.to = End(r) OBVIOUS
<1>3. End(r) \in Nat /\ start[r] \in Nat BY <1>1, <1>2 DEF Chunks
<1>4. text[r] \in TextShapes /\ chunks[r] \in Seq(Chunks) BY DEF Types, RequestType
<1>5. /\ Len(Contents(text[r])) \in Nat
      /\ DOMAIN Contents(text[r]) = 1 .. Len(Contents(text[r]))
      /\ \A s \in DOMAIN Contents(text[r]) : Contents(text[r])[s] \in Nat \ {0}
  BY <1>4, ContentsFacts
<1> HIDE DEF d
<1>6. \A s \in DOMAIN Contents(text[r]) :
         s < section[r] => Covers(chunks'[r], s, Contents(text[r])[s])
  <2> SUFFICES ASSUME NEW s \in DOMAIN Contents(text[r]), s < section[r]
               PROVE  Covers(chunks'[r], s, Contents(text[r])[s])
    OBVIOUS
  <2>1. Contents(text[r])[s] \in Nat BY <1>5
  <2>2. Covers(chunks[r], s, Contents(text[r])[s]) BY DEF CutInv, Window
  <2> QED BY <1>1, <1>4, <2>1, <2>2, CoversAppend
<1>7. Covers(chunks'[r], section[r], End(r))
  <2>1. Covers(chunks[r], section[r], start[r]) BY DEF CutInv, Window
  <2>2. start[r] <= start[r] BY <1>3
  <2>3. Covers(Append(chunks[r], d), section[r], d.to)
    BY <1>1, <1>2, <1>3, <1>4, <2>1, <2>2, CoversAppend
  <2> QED BY <1>1, <1>2, <2>3
<1>8. CASE /\ End(r) < length /\ pc'[r] = "window"
           /\ section'[r] = section[r] /\ start'[r] = NextStart(r)
           /\ NextStart(r) \in Nat /\ NextStart(r) <= End(r)
  <2>1. Covers(chunks'[r], section[r], NextStart(r)) BY <1>3, <1>7, <1>8, CoversLess
  <2> QED BY <1>1, <1>6, <1>8, <2>1 DEF CutInv
<1>9. CASE End(r) = length /\ start'[r] = 0 /\ section'[r] = section[r] + 1
  <2>1. \A s \in DOMAIN Contents(text[r]) : s < section[r] + 1 =>
          Covers(chunks'[r], s, Contents(text[r])[s])
    <3> SUFFICES ASSUME NEW s \in DOMAIN Contents(text[r]), s < section[r] + 1
                 PROVE  Covers(chunks'[r], s, Contents(text[r])[s])
      OBVIOUS
    <3>1. s < section[r] \/ s = section[r] BY <1>1, <1>5
    <3> QED BY <1>6, <1>7, <1>9, <3>1
  <2>2. Covers(chunks'[r], section'[r], start'[r]) BY <1>9, CoversNothing
  <2>3. CASE section[r] # Len(Contents(text[r]))
    <3>1. pc'[r] = "window" BY <1>1, <1>9, <2>3
    <3> QED BY <1>1, <1>9, <2>1, <2>2, <3>1 DEF CutInv
  <2>4. CASE section[r] = Len(Contents(text[r]))
    <3>1. pc'[r] = "upsert" BY <1>1, <1>3, <1>9, <2>4
    <3>2. \A s \in DOMAIN Contents(text[r]) : s < section[r] + 1 BY <1>5, <2>4
    <3> QED BY <1>1, <2>1, <3>1, <3>2 DEF CutInv
  <2> QED BY <2>3, <2>4
<1> QED BY <1>1, <1>8, <1>9

\* The points of an upsert are the chunks, and only those behind them are older.
LEMMA RetrievableUpsert ==
  ASSUME Types, NEW r \in Requests, CutInv(r), Upsert(r)
  PROVE  Retrievable(r)'
<1> DEFINE n == Len(chunks[r])
           m == IF n < Len(store) THEN Len(store) ELSE n
<1>1. /\ pc[r] = "upsert" /\ text' = text /\ chunks' = chunks
      /\ store' = [k \in 1 .. m |-> IF k <= n THEN Point(r, k) ELSE store[k]]
  BY DEF Upsert
<1>2. /\ text[r] \in TextShapes /\ chunks[r] \in Seq(Chunks)
      /\ n \in Nat /\ m \in Nat /\ n <= m /\ DOMAIN chunks[r] = 1 .. n
  BY DEF Types, RequestType, StoreType
<1> HIDE DEF n, m
<1>3. DOMAIN store' = 1 .. m /\ \A k \in 1 .. m : k <= n => store'[k] = Point(r, k)
  BY <1>1
<1>4. ASSUME NEW s \in DOMAIN Contents(text[r]), NEW c \in 0 .. Contents(text[r])[s] - 1
      PROVE  \E k \in DOMAIN store' :
               /\ store'[k].post = r /\ store'[k].section = s
               /\ store'[k].from <= c /\ c < store'[k].to
  <2>1. Contents(text[r])[s] \in Nat BY <1>2, ContentsFacts
  <2>2. c \in Nat /\ c < Contents(text[r])[s] BY <2>1
  <2>3. PICK k \in DOMAIN chunks[r] : /\ chunks[r][k].section = s
                                      /\ chunks[r][k].from <= c /\ c < chunks[r][k].to
    BY <1>1, <2>2 DEF CutInv, Covers
  <2>4. k \in 1 .. m /\ k <= n BY <1>2
  <2> QED BY <1>3, <2>3, <2>4 DEF Point
<1>5. ASSUME NEW k \in DOMAIN store', store'[k].post # r PROVE k > n
  <2>1. CASE k <= n BY <1>3, <1>5, <2>1 DEF Point
  <2>2. CASE ~ k <= n BY <1>2, <1>3, <2>2
  <2> QED BY <2>1, <2>2
<1> QED BY <1>1, <1>4, <1>5 DEF Retrievable, n

\* A request whose own variables stay keeps its cut, and one that has written is as
\* retrievable as before while the store stays.
LEMMA CutStays ==
  ASSUME NEW r \in Requests, CutInv(r), pc'[r] = pc[r] \/ pc'[r] \in {"done", "failed"},
         text'[r] = text[r], section'[r] = section[r], start'[r] = start[r],
         chunks'[r] = chunks[r]
  PROVE  CutInv(r)'
BY DEF CutInv

LEMMA RetrievableStays ==
  ASSUME NEW r \in Requests, Retrievable(r), UNCHANGED store,
         text'[r] = text[r], chunks'[r] = chunks[r]
  PROVE  Retrievable(r)'
BY DEF Retrievable

LEMMA CutPost ==
  ASSUME Types, NEW r \in Requests, NEW t \in Texts, Post(r, t)
  PROVE  CutInv(r)'
<1>1. t \in TextShapes BY KnowledgeAssumption
<1>2. /\ pc'[r] \in {"done", "window"} /\ text'[r] = t
      /\ section'[r] = 1 /\ start'[r] = 0
  BY DEF Post, Types, RequestType, WindowInv
<1>3. DOMAIN Contents(t) = 1 .. Len(Contents(t)) /\ Len(Contents(t)) \in Nat
  BY <1>1, ContentsFacts
<1>4. \A s \in DOMAIN Contents(t) : ~ s < 1 BY <1>3
<1>5. Covers(chunks'[r], 1, 0) BY CoversNothing
<1> QED BY <1>2, <1>4, <1>5 DEF CutInv

LEMMA RetrieveInit == Init => RetrieveInv
BY TypesInit DEF Init, RetrieveInv, CutInv, NewestInv

\* The action of one request leaves the others as they are.
LEMMA OthersStay ==
  ASSUME Types, NEW r \in Requests,
         (\E t \in Texts : Post(r, t)) \/ Window(r) \/ Upsert(r) \/ Fail(r),
         NEW q \in Requests, q # r
  PROVE  /\ pc'[q] = pc[q] /\ text'[q] = text[q] /\ section'[q] = section[q]
         /\ start'[q] = start[q] /\ chunks'[q] = chunks[q]
<1>1. CASE \E t \in Texts : Post(r, t) BY <1>1 DEF Types, RequestType, Post
<1>2. CASE Window(r) BY <1>2, WindowPass
<1>3. CASE Upsert(r) BY <1>3 DEF Types, RequestType, Upsert
<1>4. CASE Fail(r) BY <1>4 DEF Types, RequestType, Fail
<1> QED BY <1>1, <1>2, <1>3, <1>4

LEMMA RetrieveStep == RetrieveInv /\ [Next]_vars => RetrieveInv'
<1> SUFFICES ASSUME RetrieveInv, [Next]_vars PROVE RetrieveInv'
  OBVIOUS
<1>1. Types /\ Types' /\ newest \in SUBSET Requests
  BY TypesStep DEF RetrieveInv, Types, StoreType
<1>2. ASSUME NEW r \in Requests,
             (\E t \in Texts : Post(r, t)) \/ Window(r) \/ Upsert(r) \/ Fail(r)
      PROVE  RetrieveInv'
  <2>1. \A q \in Requests : q # r =>
          /\ pc'[q] = pc[q] /\ text'[q] = text[q] /\ section'[q] = section[q]
          /\ start'[q] = start[q] /\ chunks'[q] = chunks[q]
    BY <1>1, <1>2, OthersStay
  <2>2. \A q \in Requests : q # r => CutInv(q)' BY <2>1, CutStays DEF RetrieveInv
  <2>3. CutInv(r)'
    <3>1. CASE \E t \in Texts : Post(r, t) BY <1>1, <3>1, CutPost
    <3>2. CASE Window(r) BY <1>1, <3>2, CutWindow DEF RetrieveInv
    <3>3. CASE Upsert(r) \/ Fail(r)
      BY <1>1, <3>3, CutStays DEF RetrieveInv, Upsert, Fail, Types, RequestType
    <3> QED BY <1>2, <3>1, <3>2, <3>3
  <2>4. NewestInv'
    <3>1. CASE Upsert(r)
      <4>1. newest' = {r} /\ pc'[r] = "done"
        BY <1>1, <3>1 DEF Upsert, Types, RequestType
      <4>2. Retrievable(r)' BY <1>1, <3>1, RetrievableUpsert DEF RetrieveInv
      <4> QED BY <4>1, <4>2 DEF NewestInv
    <3>2. CASE ~ Upsert(r)
      <4>1. pc[r] # "done" /\ UNCHANGED <<store, newest>>
        BY <1>2, <3>2 DEF Post, Window, Fail
      <4>2. r \notin newest BY <4>1 DEF RetrieveInv, NewestInv
      <4>3. ASSUME NEW q \in newest PROVE pc'[q] = "done" /\ Retrievable(q)'
        <5>1. q \in Requests /\ q # r BY <1>1, <4>2
        <5>2. pc[q] = "done" /\ Retrievable(q) BY DEF RetrieveInv, NewestInv
        <5> QED BY <2>1, <4>1, <5>1, <5>2, RetrievableStays
      <4> QED BY <4>1, <4>3 DEF NewestInv
    <3> QED BY <3>1, <3>2
  <2> QED BY <1>1, <2>2, <2>3, <2>4 DEF RetrieveInv
<1>3. ASSUME UNCHANGED <<text, section, start, chunks, store, newest>>,
             \A q \in Requests : pc'[q] = pc[q] \/ (pc[q] # "done" /\ pc'[q] = "failed")
      PROVE  RetrieveInv'
  <2>1. \A q \in Requests : CutInv(q)' BY <1>3, CutStays DEF RetrieveInv
  <2>2. NewestInv'
    <3> SUFFICES ASSUME NEW q \in newest PROVE pc'[q] = "done" /\ Retrievable(q)'
      BY <1>3 DEF NewestInv
    <3>1. q \in Requests /\ pc[q] = "done" /\ Retrievable(q)
      BY <1>1 DEF RetrieveInv, NewestInv
    <3> QED BY <1>3, <3>1, RetrievableStays
  <2> QED BY <1>1, <2>1, <2>2 DEF RetrieveInv
<1>4. ASSUME NEW i \in Incidents, Resolve(i) \/ Embed(i) \/ EmbedFails(i)
      PROVE  RetrieveInv'
  BY <1>3, <1>4 DEF Resolve, Embed, EmbedFails, chunking
<1>5. ASSUME NEW p \in Processes,
             Start(p) \/ Exists(p) \/ Missing(p) \/ Create(p) \/ Conflict(p)
      PROVE  RetrieveInv'
  BY <1>3, <1>5 DEF Start, Exists, Missing, Create, Conflict, chunking
<1>6. ASSUME NEW p \in Processes, Die(p) PROVE RetrieveInv'
  <2>1. \A q \in Requests : pc'[q] = pc[q] \/ (pc[q] # "done" /\ pc'[q] = "failed")
    BY <1>1, <1>6 DEF Die, Types, RequestType
  <2> QED BY <1>3, <1>6, <2>1 DEF Die
<1>7. CASE UNCHANGED vars BY <1>3, <1>7 DEF vars, chunking
<1> QED BY <1>2, <1>4, <1>5, <1>6, <1>7 DEF Next

\* However posts of versions of a runbook overlap, fail and restart, all that stands in
\* the version written last is in the store, and what older versions left is behind it.
THEOREM NewestIsRetrievable == Spec => []RunbookRetrievable
<1>1. RetrieveInv => RunbookRetrievable
  BY DEF RetrieveInv, NewestInv, RunbookRetrievable, Retrievable
<1> QED BY <1>1, RetrieveInit, RetrieveStep, PTL DEF Spec

-----------------------------------------------------------------------------
(* Collections and vectors fit *)

\* A collection behind a process exists.
EnsuredInv == \A p \in Processes : \A k \in 1 .. ensured[p] : dim[Collections[k]] # 0

\* Sizes come from starts, of which there were finitely many.
DimsInv ==
  /\ IsFiniteSet(dims)
  /\ \A c \in Named : dim[c] # 0 => dim[c] \in dims
  /\ \A p \in Processes : phase[p] # "down" => Dim[embedder[p]] \in dims

\* What is stored has the size of its collection.
ByInv ==
  /\ \A k \in DOMAIN store : Dim[store[k].by] = dim["runbooks"]
  /\ \A i \in Incidents : episodes[i] # NoEpisode =>
       Dim[episodes[i].by] = dim["incidents_episodic"]

FitInv == Types /\ EnsuredInv /\ DimsInv /\ ByInv

\* The size of a collection is set once, by a creator's embedder.
LEMMA DimStays ==
  ASSUME Types, [Next]_vars, NEW c \in Named, dim[c] # 0
  PROVE  dim'[c] = dim[c]
<1>1. CASE \E p \in Processes : Create(p)
  <2>1. PICK p \in Processes : Create(p) BY <1>1
  <2>2. /\ dim[At(p)] = 0 /\ dim \in [Named -> {0, 384, 768}]
        /\ dim' = [dim EXCEPT ![At(p)] = Dim[embedder[p]]]
    BY <2>1 DEF Create, Types, StartupType
  <2>3. c # At(p) BY <2>2
  <2> QED BY <2>2, <2>3
<1>2. CASE ~ \E p \in Processes : Create(p)
  BY <1>2 DEF Next, vars, process, Post, Window, Upsert, Fail, Resolve, Embed, EmbedFails,
     Start, Exists, Missing, Conflict, Die
<1> QED BY <1>1, <1>2

LEMMA AtFacts ==
  ASSUME Types, NEW p \in Processes, ensured[p] < 3
  PROVE  /\ At(p) \in Named /\ ensured[p] \in Nat /\ ensured[p] + 1 \in 1 .. 3
         /\ At(p) = Collections[ensured[p] + 1]
<1>1. ensured[p] \in 0 .. 3 BY DEF Types, StartupType
<1>2. ensured[p] \in Nat /\ ensured[p] + 1 \in 1 .. 3 BY <1>1
<1> QED BY <1>2, CollectionFacts DEF At

LEMMA EnsuredStep == Types /\ EnsuredInv /\ [Next]_vars => EnsuredInv'
<1> SUFFICES ASSUME Types, EnsuredInv, [Next]_vars, NEW p \in Processes,
                    NEW k \in 1 .. ensured'[p]
             PROVE  dim'[Collections[k]] # 0
  BY DEF EnsuredInv
<1>1. StartupType /\ StartupType' BY TypesStep DEF Types
<1>2. k \in 1 .. 3 /\ Collections[k] \in Named
  BY <1>1, CollectionFacts DEF StartupType
<1>3. CASE k \in 1 .. ensured[p]
  BY <1>2, <1>3, DimStays DEF EnsuredInv
<1>4. CASE k \notin 1 .. ensured[p]
  <2>1. ensured'[p] # ensured[p] BY <1>4
  <2>2. Exists(p) \/ Create(p)
    <3>1. CASE \E q \in Processes : Exists(q) \/ Create(q)
      <4>1. PICK q \in Processes : Exists(q) \/ Create(q) BY <3>1
      <4>2. ensured' = [ensured EXCEPT ![q] = ensured[q] + 1]
        BY <4>1 DEF Exists, Create
      <4>3. p = q BY <1>1, <2>1, <4>2 DEF StartupType
      <4> QED BY <4>1, <4>3
    <3>2. CASE \E q \in Processes : Conflict(q) \/ Die(q)
      <4>1. PICK q \in Processes : ensured' = [ensured EXCEPT ![q] = 0]
        BY <3>2 DEF Conflict, Die, Ends
      <4>2. ensured'[p] = 0 \/ ensured'[p] = ensured[p] BY <1>1, <4>1 DEF StartupType
      <4> QED BY <2>1, <4>2
    <3>3. CASE ~ \E q \in Processes : Exists(q) \/ Create(q) \/ Conflict(q) \/ Die(q)
      BY <2>1, <3>3 DEF Next, vars, process, Post, Window, Upsert, Fail, Resolve, Embed,
         EmbedFails, Start, Missing
    <3> QED BY <3>1, <3>2, <3>3
  <2>3. ensured[p] < 3
    BY <1>1, <2>2, CollectionFacts DEF Exists, Create, Serves, StartupType
  <2>4. ensured[p] \in Nat /\ At(p) \in Named /\ At(p) = Collections[ensured[p] + 1]
    BY <2>3, AtFacts
  <2>5. ensured'[p] = ensured[p] + 1
    BY <1>1, <2>2 DEF Exists, Create, StartupType
  <2>6. k = ensured[p] + 1 BY <1>2, <1>4, <2>4, <2>5
  <2>7. CASE Exists(p)
    <3>1. dim[At(p)] # 0 /\ dim' = dim BY <2>7 DEF Exists
    <3> QED BY <2>4, <2>6, <3>1
  <2>8. CASE Create(p)
    <3>1. dim' = [dim EXCEPT ![At(p)] = Dim[embedder[p]]] BY <2>8 DEF Create
    <3>2. Dim[embedder[p]] \in {384, 768} BY <1>1, DimFacts DEF StartupType
    <3>3. dim'[At(p)] = Dim[embedder[p]] BY <1>1, <2>4, <3>1 DEF StartupType
    <3>4. dim'[Collections[k]] \in {384, 768} BY <2>4, <2>6, <3>2, <3>3
    <3> QED BY <3>4
  <2> QED BY <2>2, <2>7, <2>8
<1> QED BY <1>3, <1>4

LEMMA DimsStep == Types /\ DimsInv /\ [Next]_vars => DimsInv'
<1> SUFFICES ASSUME Types, DimsInv, [Next]_vars PROVE DimsInv'
  OBVIOUS
<1>1. StartupType BY DEF Types
<1>2. CASE \E p \in Processes : Start(p)
  <2>1. PICK p \in Processes : Start(p) BY <1>2
  <2>2. PICK b : /\ embedder' = [embedder EXCEPT ![p] = b]
                 /\ dims' = dims \cup {Dim[b]}
    BY <2>1 DEF Start
  <2>3. dim' = dim /\ phase' = [phase EXCEPT ![p] = "ensure"] BY <2>1 DEF Start
  <2>4. \A c \in Named : dim'[c] # 0 => dim'[c] \in dims'
    BY <2>2, <2>3 DEF DimsInv
  <2>5. \A q \in Processes : phase'[q] # "down" => Dim[embedder'[q]] \in dims'
    <3> SUFFICES ASSUME NEW q \in Processes, phase'[q] # "down"
                 PROVE  Dim[embedder'[q]] \in dims'
      OBVIOUS
    <3>1. CASE q = p
      <4>1. embedder'[q] = b BY <1>1, <2>2, <3>1 DEF StartupType
      <4> QED BY <2>2, <4>1
    <3>2. CASE q # p
      <4>1. embedder'[q] = embedder[q] /\ phase'[q] = phase[q]
        BY <1>1, <2>2, <2>3, <3>2 DEF StartupType
      <4> QED BY <2>2, <4>1 DEF DimsInv
    <3> QED BY <3>1, <3>2
  <2>6. IsFiniteSet(dims') BY <2>2, FS_AddElement DEF DimsInv
  <2> QED BY <2>4, <2>5, <2>6 DEF DimsInv
<1>3. CASE \E p \in Processes : Create(p)
  <2>1. PICK p \in Processes : Create(p) BY <1>3
  <2>2. /\ phase[p] = "create" /\ dim' = [dim EXCEPT ![At(p)] = Dim[embedder[p]]]
        /\ phase' = [phase EXCEPT ![p] = "ensure"] /\ embedder' = embedder
        /\ dims' = dims
    BY <2>1 DEF Create
  <2>3. Dim[embedder[p]] \in dims BY <2>2 DEF DimsInv
  <2>4. \A c \in Named : dim'[c] = dim[c] \/ dim'[c] = Dim[embedder[p]]
    BY <1>1, <2>2 DEF StartupType
  <2>5. \A q \in Processes : phase'[q] # "down" => phase[q] # "down"
    BY <1>1, <2>2 DEF StartupType
  <2> QED BY <2>2, <2>3, <2>4, <2>5 DEF DimsInv
<1>4. CASE \E p \in Processes : Conflict(p) \/ Die(p)
  <2>1. PICK p \in Processes : Conflict(p) \/ Die(p) BY <1>4
  <2>2. /\ dim' = dim /\ dims' = dims /\ phase' = [phase EXCEPT ![p] = "down"]
        /\ embedder' = [embedder EXCEPT ![p] = "hashing"]
    BY <2>1 DEF Conflict, Die, Ends
  <2>3. \A q \in Processes : phase'[q] # "down" =>
          phase[q] # "down" /\ embedder'[q] = embedder[q]
    BY <1>1, <2>2 DEF StartupType
  <2> QED BY <2>2, <2>3 DEF DimsInv
<1>5. CASE \E p \in Processes : Missing(p)
  <2>1. PICK p \in Processes : Missing(p) BY <1>5
  <2>2. /\ phase[p] = "ensure" /\ phase' = [phase EXCEPT ![p] = "create"]
        /\ dim' = dim /\ dims' = dims /\ embedder' = embedder
    BY <2>1 DEF Missing
  <2>3. \A q \in Processes : phase'[q] # "down" => phase[q] # "down"
    BY <1>1, <2>2 DEF StartupType
  <2> QED BY <2>2, <2>3 DEF DimsInv
<1>6. CASE UNCHANGED <<phase, embedder, dim, dims>> BY <1>6 DEF DimsInv
<1>7. \/ UNCHANGED <<phase, embedder, dim, dims>>
      \/ \E p \in Processes : Start(p) \/ Create(p) \/ Conflict(p) \/ Die(p) \/ Missing(p)
  BY DEF Next, vars, process, Post, Window, Upsert, Fail, Resolve, Embed, EmbedFails, Exists
<1> QED BY <1>2, <1>3, <1>4, <1>5, <1>6, <1>7

LEMMA ByStep == Types /\ ByInv /\ [Next]_vars => ByInv'
<1> SUFFICES ASSUME Types, ByInv, [Next]_vars PROVE ByInv'
  OBVIOUS
<1>1. "runbooks" \in Named /\ "incidents_episodic" \in Named BY CollectionFacts
<1>2. \A k \in DOMAIN store : /\ store[k].by \in Backends
                              /\ Dim[store[k].by] = dim'["runbooks"]
  <2> SUFFICES ASSUME NEW k \in DOMAIN store
               PROVE  store[k].by \in Backends /\ Dim[store[k].by] = dim'["runbooks"]
    OBVIOUS
  <2>1. store[k] \in Points BY DEF Types, StoreType
  <2>2. store[k].by \in Backends BY <2>1 DEF Points
  <2>3. Dim[store[k].by] = dim["runbooks"] /\ dim["runbooks"] # 0
    BY <2>2, DimFacts DEF ByInv
  <2> QED BY <1>1, <2>2, <2>3, DimStays
<1>3. \A i \in Incidents : episodes[i] # NoEpisode =>
        Dim[episodes[i].by] = dim'["incidents_episodic"]
  <2> SUFFICES ASSUME NEW i \in Incidents, episodes[i] # NoEpisode
               PROVE  Dim[episodes[i].by] = dim'["incidents_episodic"]
    OBVIOUS
  <2>1. episodes[i] \in Episodes BY DEF Types, LoopType
  <2>2. episodes[i].by \in Backends BY <2>1 DEF Episodes
  <2>3. /\ Dim[episodes[i].by] = dim["incidents_episodic"]
        /\ dim["incidents_episodic"] # 0
    BY <2>2, DimFacts DEF ByInv
  <2> QED BY <1>1, <2>3, DimStays
<1>4. ASSUME NEW r \in Requests, Upsert(r) PROVE ByInv'
  <2> DEFINE n == Len(chunks[r])
             m == IF n < Len(store) THEN Len(store) ELSE n
  <2>1. /\ store' = [k \in 1 .. m |-> IF k <= n THEN Point(r, k) ELSE store[k]]
        /\ dim["runbooks"] = Dim[embedder["ingestor"]]
        /\ UNCHANGED <<dim, episodes>>
    BY <1>4 DEF Upsert, Fits, process, loop
  <2>2. n \in Nat /\ Len(store) \in Nat /\ DOMAIN store = 1 .. Len(store)
    BY DEF Types, RequestType, StoreType
  <2>3. m \in Nat /\ \A k \in 1 .. m : k <= n \/ k \in 1 .. Len(store) BY <2>2
  <2> HIDE DEF n, m
  <2>4. ASSUME NEW k \in DOMAIN store' PROVE Dim[store'[k].by] = dim'["runbooks"]
    <3>1. k \in 1 .. m BY <2>1
    <3>2. CASE k <= n
      <4>1. store'[k] = Point(r, k) BY <2>1, <3>1, <3>2
      <4>2. store'[k].by = embedder["ingestor"] BY <4>1 DEF Point
      <4> QED BY <2>1, <4>2
    <3>3. CASE ~ k <= n
      <4>1. store'[k] = store[k] /\ k \in DOMAIN store BY <2>1, <2>2, <2>3, <3>1, <3>3
      <4> QED BY <1>2, <4>1
    <3> QED BY <3>2, <3>3
  <2> QED BY <1>3, <2>1, <2>4 DEF ByInv
<1>5. ASSUME NEW i \in Incidents, Embed(i) PROVE ByInv'
  <2> DEFINE e == [service |-> "unknown", by |-> embedder["ingestor"]]
  <2>1. /\ episodes' = [episodes EXCEPT ![i] = e] /\ e.by = embedder["ingestor"]
        /\ dim["incidents_episodic"] = Dim[embedder["ingestor"]]
        /\ dim' = dim /\ store' = store
    BY <1>5 DEF Embed, Fits, process
  <2> HIDE DEF e
  <2>2. ASSUME NEW j \in Incidents, episodes'[j] # NoEpisode
        PROVE  Dim[episodes'[j].by] = dim'["incidents_episodic"]
    <3>1. CASE j = i
      <4>1. episodes'[j] = e BY <2>1, <3>1 DEF Types, LoopType
      <4> QED BY <2>1, <4>1
    <3>2. CASE j # i
      <4>1. episodes'[j] = episodes[j] BY <2>1, <3>2 DEF Types, LoopType
      <4> QED BY <1>3, <2>2, <4>1
    <3> QED BY <3>1, <3>2
  <2> QED BY <1>2, <2>1, <2>2 DEF ByInv
<1>6. CASE UNCHANGED <<store, episodes>> BY <1>2, <1>3, <1>6 DEF ByInv
<1>7. \/ UNCHANGED <<store, episodes>>
      \/ \E r \in Requests : Upsert(r)
      \/ \E i \in Incidents : Embed(i)
  BY DEF Next, vars, loop, Post, Window, Fail, Resolve, EmbedFails, Start, Exists, Missing,
     Create, Conflict, Die
<1> QED BY <1>4, <1>5, <1>6, <1>7

LEMMA FitInit == Init => FitInv
<1> SUFFICES ASSUME Init PROVE FitInv
  OBVIOUS
<1>1. Types BY TypesInit
<1>2. EnsuredInv
  <2>1. \A p \in Processes : ensured[p] = 0 BY DEF Init
  <2> QED BY <2>1 DEF EnsuredInv
<1>3. DimsInv BY FS_EmptySet DEF Init, DimsInv
<1>4. ByInv
  <2>1. DOMAIN store = {} /\ \A i \in Incidents : episodes[i] = NoEpisode BY DEF Init
  <2> QED BY <2>1 DEF ByInv
<1> QED BY <1>1, <1>2, <1>3, <1>4 DEF FitInv

LEMMA FitHolds == Spec => []FitInv
<1>1. FitInv /\ [Next]_vars => FitInv'
  BY TypesStep, EnsuredStep, DimsStep, ByStep DEF FitInv
<1> QED BY <1>1, FitInit, PTL DEF Spec

LEMMA TwoMembers ==
  ASSUME NEW S, IsFiniteSet(S), NEW a \in S, NEW b \in S, a # b
  PROVE  Cardinality(S) > 1
<1>1. Cardinality(S) \in Nat BY FS_CardinalityType
<1>2. Cardinality(S) # 0 BY FS_EmptySet
<1>3. Cardinality(S) # 1 BY FS_Singleton
<1> QED BY <1>1, <1>2, <1>3

\* However the two services race for the collections, one that serves finds them all and
\* they take its vectors unless starts differed in size; what retrieval ranks has the size
\* of its own vectors, so it is the searcher's embedder's or its equal in size.
THEOREM ServicesFit == Spec => []CollectionsFit
<1>1. ASSUME FitInv PROVE CollectionsFit
  <2>1. Types /\ EnsuredInv /\ DimsInv /\ ByInv /\ StartupType BY <1>1 DEF FitInv, Types
  <2>2. ASSUME NEW p \in Processes, NEW c \in Named, Serves(p)
        PROVE  dim[c] # 0 /\ (Fits(p, c) \/ Cardinality(dims) > 1)
    <3>1. ensured[p] = 3 /\ phase[p] = "ensure" BY <2>2, CollectionFacts DEF Serves
    <3>2. PICK k \in 1 .. 3 : Collections[k] = c
      BY CollectionFacts DEF Collections
    <3>3. dim[c] # 0 BY <2>1, <3>1, <3>2 DEF EnsuredInv
    <3>4. dim[c] \in dims /\ Dim[embedder[p]] \in dims BY <2>1, <3>1, <3>3 DEF DimsInv
    <3>5. IsFiniteSet(dims) BY <2>1 DEF DimsInv
    <3>6. CASE dim[c] = Dim[embedder[p]] BY <3>3, <3>6 DEF Fits
    <3>7. CASE dim[c] # Dim[embedder[p]]
      <4>1. Cardinality(dims) > 1 BY <3>4, <3>5, <3>7, TwoMembers
      <4> QED BY <3>3, <4>1
    <3> QED BY <3>6, <3>7
  <2>3. ASSUME Answers,
               NEW b \in {store[k].by : k \in DOMAIN store}
                           \cup ({episodes[i].by : i \in Incidents} \ {NoEpisode.by})
        PROVE  b = embedder["rag"] \/ {b, embedder["rag"]} = {"fastembed", "hashing"}
    <3>1. /\ dim["runbooks"] = Dim[embedder["rag"]]
          /\ dim["incidents_episodic"] = Dim[embedder["rag"]]
          /\ embedder["rag"] \in Backends
      BY <2>1, <2>3 DEF Answers, Fits, StartupType, Processes
    <3>2. b \in Backends /\ Dim[b] = Dim[embedder["rag"]]
      <4>1. CASE b \in {store[k].by : k \in DOMAIN store}
        <5>1. PICK k \in DOMAIN store : b = store[k].by BY <4>1
        <5>2. store[k] \in Points BY <2>1 DEF Types, StoreType
        <5>3. store[k].by \in Backends BY <5>2 DEF Points
        <5> QED BY <2>1, <3>1, <5>1, <5>3 DEF ByInv
      <4>2. CASE b \in {episodes[i].by : i \in Incidents} \ {NoEpisode.by}
        <5>1. PICK i \in Incidents : b = episodes[i].by /\ b # NoEpisode.by BY <4>2
        <5>2. episodes[i] # NoEpisode BY <5>1
        <5>3. episodes[i] \in Episodes BY <2>1, <5>2 DEF Types, LoopType
        <5>4. episodes[i].by \in Backends BY <5>3 DEF Episodes
        <5> QED BY <2>1, <3>1, <5>1, <5>2, <5>4 DEF ByInv
      <4> QED BY <2>3, <4>1, <4>2
    <3> QED BY <3>1, <3>2, DimFacts
  <2> QED BY <2>2, <2>3 DEF CollectionsFit
<1> QED BY <1>1, FitHolds, PTL

=============================================================================
