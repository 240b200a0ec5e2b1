---------------------------- MODULE IndexProofs ----------------------------
(***************************************************************************)
(* Proofs of the safety properties of Index, from the invariants of        *)
(* IndexInv.  RaftLogProofs has the facts about Min and Max.               *)
(***************************************************************************)
EXTENDS IndexInv, RaftLogProofs

-----------------------------------------------------------------------------
(* Chunks and the corpus *)

\* The recursion of FlattenSeq defines a function: a smallest number of
\* sequences for which it does not would be one more than one for which it does.
LEMMA FlattenExists ==
    ASSUME NEW seqs, NEW n \in Nat
    PROVE  \E f : f = [i \in 1..n |-> IF i = 1 THEN seqs[i] ELSE f[i-1] \o seqs[i]]
<1> DEFINE Good(m) == \E f : f = [i \in 1..m |-> IF i = 1 THEN seqs[i]
                                                 ELSE f[i-1] \o seqs[i]]
           Bad == {m \in Nat : ~Good(m)}
<1>1. Good(0)
  <2>1. [i \in 1..0 |-> seqs[i]] =
            [i \in 1..0 |-> IF i = 1 THEN seqs[i]
                            ELSE [j \in 1..0 |-> seqs[j]][i-1] \o seqs[i]]
    OBVIOUS
  <2> QED
    BY <2>1
<1>2. ASSUME NEW m \in Nat, m > 0, Good(m - 1)
      PROVE  Good(m)
  <2>1. PICK f : f = [i \in 1..(m - 1) |-> IF i = 1 THEN seqs[i] ELSE f[i-1] \o seqs[i]]
    BY <1>2
  <2> DEFINE g == [i \in 1..m |-> IF i < m THEN f[i]
                                  ELSE IF m = 1 THEN seqs[m] ELSE f[m-1] \o seqs[m]]
  <2>2. ASSUME NEW i \in 1..m
        PROVE  g[i] = IF i = 1 THEN seqs[i] ELSE g[i-1] \o seqs[i]
    <3>1. CASE i < m
      <4>1. i \in 1..(m - 1) /\ g[i] = f[i] /\ (i # 1 => g[i - 1] = f[i - 1])
        BY <3>1
      <4>2. f[i] = IF i = 1 THEN seqs[i] ELSE f[i-1] \o seqs[i]
        BY <2>1, <4>1
      <4> QED
        BY <4>1, <4>2
    <3>2. CASE i = m
      BY <3>2
    <3> QED
      BY <3>1, <3>2
  <2>3. g = [i \in 1..m |-> g[i]]
    OBVIOUS
  <2> HIDE DEF g
  <2>4. g = [i \in 1..m |-> IF i = 1 THEN seqs[i] ELSE g[i-1] \o seqs[i]]
    BY <2>2, <2>3
  <2> QED
    BY <2>4
<1> HIDE DEF Good
<1>3. CASE Bad # {}
  <2>1. Min(Bad) \in Bad /\ \A y \in Bad : Min(Bad) <= y
    BY <1>3, MinOfNats
  <2>2. PICK m \in Bad : \A y \in Bad : m <= y
    BY <2>1
  <2>3. m \in Nat /\ m # 0
    BY <1>1
  <2>4. m - 1 \in Nat /\ m - 1 \notin Bad
    BY <2>2, <2>3
  <2> QED
    BY <1>2, <2>3, <2>4
<1>4. CASE Bad = {}
  BY <1>4 DEF Good
<1> QED
  BY <1>3, <1>4

\* Sequences put together are a sequence.
LEMMA FlattenType ==
    ASSUME NEW S, NEW seqs \in Seq(Seq(S))
    PROVE  FlattenSeq(seqs) \in Seq(S)
<1> DEFINE n == Len(seqs)
           flat == CHOOSE f : f = [i \in 1..n |-> IF i = 1 THEN seqs[i]
                                                  ELSE f[i-1] \o seqs[i]]
           Bad == {m \in 1..n : flat[m] \notin Seq(S)}
<1>0. n \in Nat /\ \A i \in 1..n : seqs[i] \in Seq(S)
  OBVIOUS
<1>1. flat = [i \in 1..n |-> IF i = 1 THEN seqs[i] ELSE flat[i-1] \o seqs[i]]
  BY <1>0, FlattenExists
<1>2. FlattenSeq(seqs) = IF n = 0 THEN seqs ELSE flat[n]
  BY DEF FlattenSeq
<1> HIDE DEF flat
<1>3. CASE Bad # {}
  <2>1. Min(Bad) \in Bad /\ \A y \in Bad : Min(Bad) <= y
    <3>1. Bad \subseteq Nat
      BY <1>0
    <3> QED
      BY <1>3, <3>1, MinOfNats
  <2>2. PICK m \in Bad : \A y \in Bad : m <= y
    BY <2>1
  <2>3. m \in 1..n /\ flat[m] \notin Seq(S)
    OBVIOUS
  <2>4. flat[m] = IF m = 1 THEN seqs[m] ELSE flat[m-1] \o seqs[m]
    BY <1>1, <2>3
  <2>5. CASE m = 1
    BY <1>0, <2>3, <2>4, <2>5
  <2>6. CASE m # 1
    <3>1. m - 1 \in 1..n /\ m - 1 \notin Bad
      BY <1>0, <2>2, <2>3, <2>6
    <3>2. flat[m - 1] \in Seq(S) /\ seqs[m] \in Seq(S)
      BY <1>0, <2>3, <3>1
    <3>3. flat[m - 1] \o seqs[m] \in Seq(S)
      BY <3>2
    <3> QED
      BY <2>3, <2>4, <2>6, <3>3
  <2> QED
    BY <2>5, <2>6
<1>4. CASE Bad = {}
  <2>1. CASE n = 0
    <3>1. seqs = <<>>
      BY <2>1
    <3> QED
      BY <1>2, <2>1, <3>1
  <2>2. CASE n # 0
    <3>1. n \in 1..n
      BY <1>0, <2>2
    <3>2. flat[n] \in Seq(S)
      BY <1>4, <3>1
    <3> QED
      BY <1>2, <2>2, <3>2
  <2> QED
    BY <2>1, <2>2
<1> QED
  BY <1>3, <1>4

\* Division rounds to a natural number.
LEMMA DivType ==
    ASSUME NEW a \in Nat, NEW b \in Nat, b > 0
    PROVE  a \div b \in Nat
<1>1. a \div b \in Int /\ a = b * (a \div b) + (a % b) /\ a % b \in 0..(b - 1)
  OBVIOUS
<1>2. PICK q \in Int : q = a \div b
  BY <1>1
<1>3. b * q > -b
  BY <1>1, <1>2
<1>4. q >= 0
  BY <1>3
<1> QED
  BY <1>2, <1>4

\* Cutting a text into passages numbers them from 0 and keeps the document.
LEMMA ChunksAre ==
    ASSUME NEW doc, NEW words, Len(words) \in Nat, NEW size \in Int
    PROVE  /\ Chunks(doc, words, size) \in Seq(Range(Chunks(doc, words, size)))
           /\ \A k \in DOMAIN Chunks(doc, words, size) :
                /\ Chunks(doc, words, size)[k].id = <<doc, k - 1>>
                /\ Chunks(doc, words, size)[k].doc = doc
<1> DEFINE n == Len(words)
           m == IF size <= 0 THEN n ELSE size
           q == (n + m - 1) \div m
           chunks == Chunks(doc, words, size)
<1>1. PICK N \in Nat : DOMAIN ChunkText(words, size) = 1..N
  <2>1. CASE n = 0
    <3>1. ChunkText(words, size) = <<>>
      BY <2>1 DEF ChunkText
    <3> QED
      BY <3>1
  <2>2. CASE n # 0
    <3>1. n \in Nat /\ m \in Nat /\ m > 0
      BY <2>2
    <3>2. q \in Nat
      <4>1. n + m - 1 \in Nat
        BY <3>1
      <4> HIDE DEF m
      <4> QED
        BY <3>1, <4>1, DivType
    <3>3. ChunkText(words, size) =
              [k \in 1..q |-> SubSeq(words, (k - 1) * m + 1, Min({k * m, n}))]
      BY <2>2 DEF ChunkText
    <3> QED
      BY <3>2, <3>3
  <2> QED
    BY <2>1, <2>2
<1> DEFINE chunk(k) == [id |-> ChunkID(doc, k), doc |-> doc,
                        text |-> ChunkText(words, size)[k]]
<1>2. chunks = [k \in 1..N |-> chunk(k)]
  BY <1>1 DEF Chunks
<1>3. \A k \in 1..N : chunks[k].id = <<doc, k - 1>> /\ chunks[k].doc = doc
  BY <1>2 DEF ChunkID
<1>4. DOMAIN chunks = 1..N
  BY <1>2
<1> HIDE DEF chunk
<1>5. chunks \in [1..N -> Range(chunks)]
  BY <1>2, <1>4 DEF Range
<1>6. chunks \in Seq(Range(chunks))
  BY <1>5
<1> QED
  BY <1>3, <1>4, <1>6

\* The chunks of the corpus are a sequence, with chunk ids of their documents.
LEMMA CorpusIs ==
    /\ CorpusChunks \in Seq(CorpusChunk)
    /\ \A c \in CorpusChunk : c.id \in ChunkId /\ InCorpus(c.id, c.text) /\ c.doc = c.id[1]
    /\ Len(CorpusChunks) \in Nat /\ DOMAIN CorpusChunks = 1..Len(CorpusChunks)
<1> DEFINE bad == {k \in DOMAIN Corpus : Corpus[k] = Malformed}
           last == IF bad = {} THEN Len(Corpus) ELSE Min(bad) - 1
           chunksOf(a) == Chunks(a.id, a.words, ChunkSize)
           seqs == [k \in 1..last |-> chunksOf(Corpus[k])]
           S == UNION {Range(seqs[k]) : k \in 1..last}
<1>1. Corpus \in Seq(Range(Corpus)) /\ ChunkSize \in Int
  BY CorpusAssumption
<1>2. DOMAIN Corpus = 1..Len(Corpus) /\ Len(Corpus) \in Nat
  BY <1>1
<1>3. last \in Nat /\ \A k \in 1..last : k \in DOMAIN Corpus /\ Corpus[k] # Malformed
  <2>1. CASE bad = {}
    BY <1>2, <2>1
  <2>2. CASE bad # {}
    <3>1. bad \subseteq Nat
      BY <1>2
    <3>2. Min(bad) \in bad /\ \A y \in bad : Min(bad) <= y
      BY <2>2, <3>1, MinOfNats
    <3>3. PICK b \in bad : b = Min(bad) /\ \A y \in bad : b <= y
      BY <3>2
    <3>4. last = b - 1 /\ b \in 1..Len(Corpus)
      BY <1>2, <2>2, <3>3
    <3> HIDE DEF last
    <3>5. ASSUME NEW k \in 1..last
          PROVE  k \in DOMAIN Corpus /\ Corpus[k] # Malformed
      <4>1. k \in DOMAIN Corpus /\ ~(b <= k)
        BY <1>2, <3>4
      <4> QED
        BY <3>3, <4>1
    <3> QED
      BY <1>2, <3>4, <3>5
  <2> QED
    BY <2>1, <2>2
<1> HIDE DEF last
<1>4. ASSUME NEW k \in 1..last
      PROVE  chunksOf(Corpus[k]) \in Seq(S)
  <2>1. Len(Corpus[k].words) \in Nat
    BY <1>3, CorpusAssumption
  <2>2. chunksOf(Corpus[k]) \in Seq(Range(chunksOf(Corpus[k])))
    BY <1>1, <2>1, ChunksAre
  <2>3. seqs[k] = chunksOf(Corpus[k])
    OBVIOUS
  <2> HIDE DEF chunksOf
  <2>4. Range(chunksOf(Corpus[k])) \subseteq S
    BY <2>3
  <2> HIDE DEF S, seqs
  <2> QED
    BY <2>2, <2>4
<1>5. seqs \in Seq(Seq(S))
  <2> HIDE DEF S, chunksOf
  <2>1. seqs \in [1..last -> Seq(S)]
    BY <1>4
  <2> QED
    BY <1>3, <2>1
<1>6. CorpusChunks = FlattenSeq(seqs)
  BY DEF CorpusChunks, last
<1>7. CorpusChunks \in Seq(S)
  <2> HIDE DEF S, seqs
  <2> QED
    BY <1>5, <1>6, FlattenType
<1>8. ASSUME NEW c \in S
      PROVE  c.doc = c.id[1]
  <2>1. PICK k \in 1..last : c \in Range(seqs[k])
    OBVIOUS
  <2>2. PICK size \in Int : size = ChunkSize
    BY <1>1
  <2>3. PICK doc, words : doc = Corpus[k].id /\ words = Corpus[k].words
    OBVIOUS
  <2>4. seqs[k] = Chunks(doc, words, size)
    BY <2>2, <2>3
  <2> HIDE DEF seqs
  <2>5. PICK j \in DOMAIN Chunks(doc, words, size) : c = Chunks(doc, words, size)[j]
    BY <2>1, <2>4 DEF Range
  <2>6. /\ Chunks(doc, words, size) \in Seq(Range(Chunks(doc, words, size)))
        /\ \A i \in DOMAIN Chunks(doc, words, size) :
             /\ Chunks(doc, words, size)[i].id = <<doc, i - 1>>
             /\ Chunks(doc, words, size)[i].doc = doc
    <3>1. Len(words) \in Nat
      BY <1>3, <2>3, CorpusAssumption
    <3> QED
      BY <3>1, ChunksAre DEF Chunks
  <2>7. c.id = <<doc, j - 1>> /\ c.doc = doc
    BY <2>5, <2>6
  <2> QED
    BY <2>7
<1> HIDE DEF S
<1>9. Len(CorpusChunks) \in Nat /\ DOMAIN CorpusChunks = 1..Len(CorpusChunks)
  BY <1>7
<1>10. CorpusChunks \in Seq(CorpusChunk)
  <2>1. CorpusChunks \in [1..Len(CorpusChunks) -> CorpusChunk]
    BY <1>7, <1>9 DEF CorpusChunk, Range
  <2> QED
    BY <1>9, <2>1
<1>11. ASSUME NEW c \in CorpusChunk
       PROVE  c.id \in ChunkId /\ InCorpus(c.id, c.text) /\ c.doc = c.id[1]
  <2>1. PICK k \in DOMAIN CorpusChunks : c = CorpusChunks[k]
    BY DEF CorpusChunk, Range
  <2>2. c.id \in ChunkId
    BY <2>1, CorpusAssumption
  <2>3. c \in S
    BY <1>7, <1>9, <2>1
  <2> QED
    BY <1>8, <2>1, <2>2, <2>3 DEF InCorpus
<1> QED
  BY <1>9, <1>10, <1>11

\* What a search and an ingest have to embed.
LEMMA EmbedIs ==
    ASSUME NEW in \in Input
    PROVE  /\ in.op = "search" =>
                ToEmbed(in) = <<[text |-> in.query]>> /\ in.topK \in Int
           /\ in.op = "ingest" =>
                /\ ToEmbed(in) \in Seq(Range(ToEmbed(in)))
                /\ \A k \in DOMAIN ToEmbed(in) :
                     /\ ToEmbed(in)[k].id = <<in.doc, k - 1>>
                     /\ ToEmbed(in)[k].doc = in.doc
                     /\ ToEmbed(in)[k].id \in ChunkId
<1>1. CASE in.op = "search"
  BY <1>1, InputAssumption DEF ToEmbed
<1>2. CASE in.op = "ingest"
  <2>1. Len(in.text) \in Nat /\ in.chunkSize \in Int
    BY <1>2, InputAssumption
  <2>2. PICK size \in Int : size = ChunkSizeOf(in.chunkSize)
    BY <2>1, ServerAssumption DEF ChunkSizeOf
  <2>3. PICK doc, words : doc = in.doc /\ words = in.text
    OBVIOUS
  <2>4. ToEmbed(in) = Chunks(doc, words, size)
    BY <1>2, <2>2, <2>3 DEF ToEmbed
  <2>5. \A k \in DOMAIN ToEmbed(in) : ToEmbed(in)[k].id \in ChunkId
    BY <1>2, InputAssumption
  <2>6. /\ Chunks(doc, words, size) \in Seq(Range(Chunks(doc, words, size)))
        /\ \A k \in DOMAIN Chunks(doc, words, size) :
             /\ Chunks(doc, words, size)[k].id = <<doc, k - 1>>
             /\ Chunks(doc, words, size)[k].doc = doc
    <3>1. Len(words) \in Nat
      BY <2>1, <2>3
    <3> QED
      BY <3>1, ChunksAre DEF Chunks
  <2> QED
    BY <1>2, <2>3, <2>4, <2>5, <2>6
<1> QED
  BY <1>1, <1>2

-----------------------------------------------------------------------------
(* The handlers *)

\* The handler of request h becomes the record with these fields.
Moved(h, p, i, c, n, s, v, x) ==
    handler' = [handler EXCEPT ![h] =
        [pc |-> p, in |-> i, chunks |-> c, k |-> n, status |-> s, vector |-> v,
         hits |-> x]]

\* What a step leaves alone: a request that has come in stays what it is, and
\* one that was answered is through.
Keeps ==
    /\ \A g \in Request : handler[g].pc = "answered" => handler'[g] = handler[g]
    /\ \A g \in Request : handler[g].pc # "new" =>
         /\ handler'[g].in = handler[g].in /\ handler'[g].chunks = handler[g].chunks
         /\ before'[g] = before[g] /\ handler'[g].pc # "new"

\* The handlers after a move.
LEMMA MovedIs ==
    ASSUME HandlerInv, NEW h \in Request, NEW p, NEW i, NEW c, NEW n, NEW s, NEW v, NEW x,
           Moved(h, p, i, c, n, s, v, x)
    PROVE  /\ DOMAIN handler' = Request
           /\ handler'[h].pc = p /\ handler'[h].in = i /\ handler'[h].chunks = c
           /\ handler'[h].k = n /\ handler'[h].status = s /\ handler'[h].vector = v
           /\ handler'[h].hits = x
           /\ handler'[h] = [pc |-> p, in |-> i, chunks |-> c, k |-> n, status |-> s,
                             vector |-> v, hits |-> x]
           /\ \A g \in Request \ {h} : handler'[g] = handler[g]
  BY DEF HandlerInv, Moved

\* A handler is a record with these fields, in one of three situations.
LEMMA HandlerIs ==
    ASSUME HandlerInv, NEW h \in Request
    PROVE  /\ handler[h] = [pc |-> handler[h].pc, in |-> handler[h].in,
                            chunks |-> handler[h].chunks, k |-> handler[h].k,
                            status |-> handler[h].status,
                            vector |-> handler[h].vector, hits |-> handler[h].hits]
           /\ \/ handler[h].pc = "new" /\ handler[h] = NewHandler
              \/ Busy(h) /\ handler[h].status = "none" /\ handler[h].k \in 1..Len(handler[h].chunks)
              \/ handler[h].pc = "answered" /\ handler[h].status \in {"ok", "error", "invalid"}
           /\ \A o \in {"search", "ingest"} : IsOp(h, o) =>
                handler[h].in \in Input /\ handler[h].chunks = ToEmbed(handler[h].in)
           /\ \A g \in before[h] : handler[g].pc = "answered"
  BY DEF HandlerInv

\* Changes of some fields of a handler, written out.
LEMMA FieldsMove ==
    ASSUME HandlerInv, NEW h \in Request, NEW a, NEW b
    PROVE  LET r == handler[h] IN
           /\ Answer(h, a) =>
                Moved(h, "answered", r.in, r.chunks, r.k, a, r.vector, r.hits)
           /\ handler' = [handler EXCEPT ![h].pc = a] =>
                Moved(h, a, r.in, r.chunks, r.k, r.status, r.vector, r.hits)
           /\ handler' = [handler EXCEPT ![h].pc = a, ![h].vector = b] =>
                Moved(h, a, r.in, r.chunks, r.k, r.status, b, r.hits)
           /\ handler' = [handler EXCEPT ![h].pc = "answered", ![h].status = "ok",
                                         ![h].hits = a] =>
                Moved(h, "answered", r.in, r.chunks, r.k, "ok", r.vector, a)
           /\ NextChunk(h) =>
                IF r.k < Len(r.chunks)
                THEN Moved(h, "embed", r.in, r.chunks, r.k + 1, r.status, r.vector, r.hits)
                ELSE Moved(h, "answered", r.in, r.chunks, r.k, "ok", r.vector, r.hits)
<1> DEFINE r == handler[h]
<1>1. r = [pc |-> r.pc, in |-> r.in, chunks |-> r.chunks, k |-> r.k,
           status |-> r.status, vector |-> r.vector, hits |-> r.hits]
  BY HandlerIs
<1>2. h \in DOMAIN handler
  BY DEF HandlerInv
<1> HIDE DEF r
<1>31. [r EXCEPT !.pc = "answered", !.status = a] =
          [pc |-> "answered", in |-> r.in, chunks |-> r.chunks, k |-> r.k,
           status |-> a, vector |-> r.vector, hits |-> r.hits]
  <2>1. PICK q : q = [r EXCEPT !.pc = "answered", !.status = a]
    OBVIOUS
  <2>2. /\ q.pc = "answered" /\ q.in = r.in /\ q.chunks = r.chunks /\ q.k = r.k
        /\ q.status = a /\ q.vector = r.vector /\ q.hits = r.hits
    BY <1>1, <2>1
  <2>3. q = [pc |-> q.pc, in |-> q.in, chunks |-> q.chunks, k |-> q.k,
             status |-> q.status, vector |-> q.vector, hits |-> q.hits]
    BY <1>1, <2>1
  <2> QED
    BY <2>1, <2>2, <2>3
<1>32. [r EXCEPT !.pc = a] =
          [pc |-> a, in |-> r.in, chunks |-> r.chunks, k |-> r.k,
           status |-> r.status, vector |-> r.vector, hits |-> r.hits]
  <2>1. PICK q : q = [r EXCEPT !.pc = a]
    OBVIOUS
  <2>2. /\ q.pc = a /\ q.in = r.in /\ q.chunks = r.chunks /\ q.k = r.k
        /\ q.status = r.status /\ q.vector = r.vector /\ q.hits = r.hits
    BY <1>1, <2>1
  <2>3. q = [pc |-> q.pc, in |-> q.in, chunks |-> q.chunks, k |-> q.k,
             status |-> q.status, vector |-> q.vector, hits |-> q.hits]
    BY <1>1, <2>1
  <2> QED
    BY <2>1, <2>2, <2>3
<1>33. [r EXCEPT !.pc = a, !.vector = b] =
          [pc |-> a, in |-> r.in, chunks |-> r.chunks, k |-> r.k,
           status |-> r.status, vector |-> b, hits |-> r.hits]
  <2>1. PICK q : q = [r EXCEPT !.pc = a, !.vector = b]
    OBVIOUS
  <2>2. /\ q.pc = a /\ q.in = r.in /\ q.chunks = r.chunks /\ q.k = r.k
        /\ q.status = r.status /\ q.vector = b /\ q.hits = r.hits
    BY <1>1, <2>1
  <2>3. q = [pc |-> q.pc, in |-> q.in, chunks |-> q.chunks, k |-> q.k,
             status |-> q.status, vector |-> q.vector, hits |-> q.hits]
    BY <1>1, <2>1
  <2> QED
    BY <2>1, <2>2, <2>3
<1>34. [r EXCEPT !.pc = "answered", !.status = "ok", !.hits = a] =
          [pc |-> "answered", in |-> r.in, chunks |-> r.chunks, k |-> r.k,
           status |-> "ok", vector |-> r.vector, hits |-> a]
  <2>1. PICK q : q = [r EXCEPT !.pc = "answered", !.status = "ok", !.hits = a]
    OBVIOUS
  <2>2. /\ q.pc = "answered" /\ q.in = r.in /\ q.chunks = r.chunks /\ q.k = r.k
        /\ q.status = "ok" /\ q.vector = r.vector /\ q.hits = a
    BY <1>1, <2>1
  <2>3. q = [pc |-> q.pc, in |-> q.in, chunks |-> q.chunks, k |-> q.k,
             status |-> q.status, vector |-> q.vector, hits |-> q.hits]
    BY <1>1, <2>1
  <2> QED
    BY <2>1, <2>2, <2>3
<1>35. [r EXCEPT !.pc = "embed", !.k = @ + 1] =
          [pc |-> "embed", in |-> r.in, chunks |-> r.chunks, k |-> r.k + 1,
           status |-> r.status, vector |-> r.vector, hits |-> r.hits]
  <2>1. PICK q : q = [r EXCEPT !.pc = "embed", !.k = @ + 1]
    OBVIOUS
  <2>2. /\ q.pc = "embed" /\ q.in = r.in /\ q.chunks = r.chunks /\ q.k = r.k + 1
        /\ q.status = r.status /\ q.vector = r.vector /\ q.hits = r.hits
    BY <1>1, <2>1
  <2>3. q = [pc |-> q.pc, in |-> q.in, chunks |-> q.chunks, k |-> q.k,
             status |-> q.status, vector |-> q.vector, hits |-> q.hits]
    BY <1>1, <2>1
  <2> QED
    BY <2>1, <2>2, <2>3
<1>36. [r EXCEPT !.pc = "answered", !.status = "ok"] =
          [pc |-> "answered", in |-> r.in, chunks |-> r.chunks, k |-> r.k,
           status |-> "ok", vector |-> r.vector, hits |-> r.hits]
  <2>1. PICK q : q = [r EXCEPT !.pc = "answered", !.status = "ok"]
    OBVIOUS
  <2>2. /\ q.pc = "answered" /\ q.in = r.in /\ q.chunks = r.chunks /\ q.k = r.k
        /\ q.status = "ok" /\ q.vector = r.vector /\ q.hits = r.hits
    BY <1>1, <2>1
  <2>3. q = [pc |-> q.pc, in |-> q.in, chunks |-> q.chunks, k |-> q.k,
             status |-> q.status, vector |-> q.vector, hits |-> q.hits]
    BY <1>1, <2>1
  <2> QED
    BY <2>1, <2>2, <2>3
<1> USE DEF r
<1>4. Answer(h, a) => Moved(h, "answered", r.in, r.chunks, r.k, a, r.vector, r.hits)
  BY <1>2, <1>31 DEF Answer, Moved
<1>5. handler' = [handler EXCEPT ![h].pc = a] =>
          Moved(h, a, r.in, r.chunks, r.k, r.status, r.vector, r.hits)
  BY <1>2, <1>32 DEF Moved
<1>6. handler' = [handler EXCEPT ![h].pc = a, ![h].vector = b] =>
          Moved(h, a, r.in, r.chunks, r.k, r.status, b, r.hits)
  BY <1>2, <1>33 DEF Moved
<1>7. handler' = [handler EXCEPT ![h].pc = "answered", ![h].status = "ok", ![h].hits = a] =>
          Moved(h, "answered", r.in, r.chunks, r.k, "ok", r.vector, a)
  BY <1>2, <1>34 DEF Moved
<1>8. NextChunk(h) =>
          IF r.k < Len(r.chunks)
          THEN Moved(h, "embed", r.in, r.chunks, r.k + 1, r.status, r.vector, r.hits)
          ELSE Moved(h, "answered", r.in, r.chunks, r.k, "ok", r.vector, r.hits)
  <2> DEFINE new == IF r.k < Len(r.chunks)
                    THEN [r EXCEPT !.pc = "embed", !.k = @ + 1]
                    ELSE [r EXCEPT !.pc = "answered", !.status = "ok"]
  <2>1. NextChunk(h) => handler' = [handler EXCEPT ![h] = new]
    BY DEF NextChunk
  <2> HIDE DEF r
  <2>2. CASE r.k < Len(r.chunks)
    BY <1>35, <2>1, <2>2 DEF Moved
  <2>3. CASE ~(r.k < Len(r.chunks))
    BY <1>36, <2>1, <2>3 DEF Moved
  <2> QED
    BY <2>2, <2>3
<1> QED
  BY <1>4, <1>5, <1>6, <1>7, <1>8

\* A handler that goes on with its request or answers it.
LEMMA HandlerGoesOn ==
    ASSUME HandlerInv, NEW h \in Request, Busy(h), UNCHANGED before,
           NEW p, NEW n, NEW s, NEW v, NEW x,
           Moved(h, p, handler[h].in, handler[h].chunks, n, s, v, x),
           \/ /\ p \in {"embed", "read", "embedded"} /\ s = "none"
              /\ n \in 1..Len(handler[h].chunks)
           \/ p = "answered" /\ s \in {"ok", "error"}
    PROVE  HandlerInv' /\ Keeps
<1>1. /\ DOMAIN handler' = Request
      /\ handler'[h].pc = p /\ handler'[h].in = handler[h].in
      /\ handler'[h].chunks = handler[h].chunks
      /\ handler'[h].k = n /\ handler'[h].status = s /\ handler'[h].vector = v
      /\ handler'[h].hits = x
      /\ handler'[h] = [pc |-> p, in |-> handler[h].in, chunks |-> handler[h].chunks,
                        k |-> n, status |-> s, vector |-> v, hits |-> x]
      /\ \A g \in Request \ {h} : handler'[g] = handler[g]
  BY MovedIs
<1>2. handler[h].pc \notin {"new", "answered"}
  BY DEF Busy
<1>3. Keeps
  BY <1>1, <1>2 DEF Keeps
<1>4. before' \in [Request -> SUBSET Request]
  BY DEF HandlerInv
<1>5. ASSUME NEW g \in Request
      PROVE  /\ handler'[g] = [pc |-> handler'[g].pc, in |-> handler'[g].in,
                               chunks |-> handler'[g].chunks, k |-> handler'[g].k,
                               status |-> handler'[g].status,
                               vector |-> handler'[g].vector, hits |-> handler'[g].hits]
             /\ \/ handler'[g].pc = "new" /\ handler'[g] = NewHandler
                \/ Busy(g)' /\ handler'[g].status = "none"
                   /\ handler'[g].k \in 1..Len(handler'[g].chunks)
                \/ handler'[g].pc = "answered" /\ handler'[g].status \in {"ok", "error", "invalid"}
             /\ \A o \in {"search", "ingest"} : IsOp(g, o)' =>
                  handler'[g].in \in Input /\ handler'[g].chunks = ToEmbed(handler'[g].in)
             /\ \A e \in before'[g] : handler'[e].pc = "answered"
  <2>1. \A e \in before'[g] : handler'[e].pc = "answered"
    <3>1. \A e \in before[g] : e \in Request /\ handler[e].pc = "answered"
      BY HandlerIs DEF HandlerInv
    <3> QED
      BY <1>3, <3>1 DEF Keeps
  <2>2. CASE g # h
    <3>1. handler'[g] = handler[g]
      BY <1>1, <2>2
    <3> QED
      BY <2>1, <3>1, HandlerIs DEF Busy, IsOp
  <2>3. CASE g = h
    <3>1. \A o \in {"search", "ingest"} : IsOp(h, o)' =>
              handler'[h].in \in Input /\ handler'[h].chunks = ToEmbed(handler'[h].in)
      <4>1. handler'[h].in = handler[h].in /\ handler'[h].chunks = handler[h].chunks
        BY <1>1
      <4>2. \A o : IsOp(h, o)' => IsOp(h, o)
        BY <4>1 DEF IsOp
      <4>3. \A o \in {"search", "ingest"} : IsOp(h, o) =>
              handler[h].in \in Input /\ handler[h].chunks = ToEmbed(handler[h].in)
        BY HandlerIs
      <4> QED
        BY <4>1, <4>2, <4>3
    <3>2. \/ Busy(h)' /\ handler'[h].status = "none"
             /\ handler'[h].k \in 1..Len(handler'[h].chunks)
          \/ handler'[h].pc = "answered" /\ handler'[h].status \in {"ok", "error", "invalid"}
      BY <1>1 DEF Busy
    <3> QED
      BY <1>1, <2>1, <2>3, <3>1, <3>2
  <2> QED
    BY <2>2, <2>3
<1>6. HandlerInv'
  BY <1>1, <1>4, <1>5 DEF HandlerInv
<1> QED
  BY <1>3, <1>6

\* A request comes in, and is answered at once or has something to embed.
Comes(h, p, i, c, s) ==
    /\ Moved(h, p, i, c, 1, s, <<>>, {})
    /\ \/ p = "embed" /\ s = "none" /\ 1 \in 1..Len(c)
       \/ p = "answered" /\ s \in {"ok", "error", "invalid"}
    /\ \/ i = Invalid
       \/ i \in Input /\ (i.op \in {"search", "ingest"} => c = ToEmbed(i) /\ s # "ok")

\* Such a request leaves the others alone.
LEMMA HandlerArrives ==
    ASSUME HandlerInv, NEW h \in Request, Arrive(h),
           NEW p, NEW i, NEW c, NEW s, Comes(h, p, i, c, s)
    PROVE  /\ HandlerInv' /\ Keeps
           /\ handler'[h].pc \in {"embed", "answered"} /\ handler'[h].k = 1
           /\ \A o \in {"search", "ingest"} : IsOp(h, o)' => handler'[h].status # "ok"
           /\ \A g \in Request \ {h} : handler'[g] = handler[g]
<1>1. /\ DOMAIN handler' = Request
      /\ handler'[h].pc = p /\ handler'[h].in = i
      /\ handler'[h].chunks = c
      /\ handler'[h].k = 1 /\ handler'[h].status = s /\ handler'[h].vector = <<>>
      /\ handler'[h].hits = {}
      /\ handler'[h] = [pc |-> p, in |-> i, chunks |-> c,
                        k |-> 1, status |-> s, vector |-> <<>>, hits |-> {}]
      /\ \A g \in Request \ {h} : handler'[g] = handler[g]
  BY DEF HandlerInv, Moved, Comes
<1>2. /\ handler[h].pc = "new"
      /\ before' = [before EXCEPT ![h] = {g \in Request : handler[g].pc = "answered"}]
  BY DEF Arrive
<1>3. before \in [Request -> SUBSET Request]
  BY DEF HandlerInv
<1>4. Keeps
  BY <1>1, <1>2, <1>3 DEF Keeps
<1>5. before' \in [Request -> SUBSET Request]
  BY <1>2, <1>3
<1>6. ASSUME NEW g \in Request
      PROVE  /\ handler'[g] = [pc |-> handler'[g].pc, in |-> handler'[g].in,
                               chunks |-> handler'[g].chunks, k |-> handler'[g].k,
                               status |-> handler'[g].status,
                               vector |-> handler'[g].vector, hits |-> handler'[g].hits]
             /\ \/ handler'[g].pc = "new" /\ handler'[g] = NewHandler
                \/ Busy(g)' /\ handler'[g].status = "none"
                   /\ handler'[g].k \in 1..Len(handler'[g].chunks)
                \/ handler'[g].pc = "answered" /\ handler'[g].status \in {"ok", "error", "invalid"}
             /\ \A o \in {"search", "ingest"} : IsOp(g, o)' =>
                  handler'[g].in \in Input /\ handler'[g].chunks = ToEmbed(handler'[g].in)
             /\ \A e \in before'[g] : handler'[e].pc = "answered"
  <2>1. \A e \in before'[g] : handler'[e].pc = "answered"
    <3>1. \A e \in before'[g] : e \in Request /\ handler[e].pc = "answered"
      BY <1>2, <1>3, HandlerIs
    <3> QED
      BY <1>4, <3>1 DEF Keeps
  <2>2. CASE g # h
    <3>1. handler'[g] = handler[g]
      BY <1>1, <2>2
    <3> QED
      BY <2>1, <3>1, HandlerIs DEF Busy, IsOp
  <2>3. CASE g = h
    <3>1. \A o \in {"search", "ingest"} : IsOp(h, o)' =>
              handler'[h].in \in Input /\ handler'[h].chunks = ToEmbed(handler'[h].in)
      BY <1>1 DEF IsOp, Comes
    <3>2. \/ Busy(h)' /\ handler'[h].status = "none"
             /\ handler'[h].k \in 1..Len(handler'[h].chunks)
          \/ handler'[h].pc = "answered" /\ handler'[h].status \in {"ok", "error", "invalid"}
      BY <1>1 DEF Busy, Comes
    <3> QED
      BY <1>1, <2>1, <2>3, <3>1, <3>2
  <2> QED
    BY <2>2, <2>3
<1>7. HandlerInv'
  BY <1>1, <1>5, <1>6 DEF HandlerInv
<1>8. /\ handler'[h].pc \in {"embed", "answered"}
      /\ \A o \in {"search", "ingest"} : IsOp(h, o)' => handler'[h].status # "ok"
  BY <1>1 DEF Comes, IsOp
<1> QED
  BY <1>1, <1>4, <1>7, <1>8

\* Nothing happens to the requests.
LEMMA HandlersRest ==
    ASSUME HandlerInv, UNCHANGED <<handler, before>>
    PROVE  HandlerInv' /\ Keeps
<1>1. Keeps
  BY DEF HandlerInv, Keeps
<1>2. HandlerInv'
  BY DEF HandlerInv, Busy, IsOp
<1> QED
  BY <1>1, <1>2

\* The ways a request comes in.
LEMMA ReceiveMoves ==
    ASSUME HandlerInv, NEW h \in Request, Receive(h)
    PROVE  Arrive(h) /\ \E p, i, c, s : Comes(h, p, i, c, s)
<1>0. Arrive(h)
  BY DEF Receive, Reject, handleHealthz, handleSearch, handleIngest
<1>1. handler[h] = NewHandler /\ h \in DOMAIN handler
  BY <1>0, HandlerIs DEF Arrive, Busy, HandlerInv
<1>2. CASE Reject(h)
  <2>1. Moved(h, "answered", Invalid, <<>>, 1, "invalid", <<>>, {})
    <3>1. LET r == handler[h] IN
          Moved(h, "answered", r.in, r.chunks, r.k, "invalid", r.vector, r.hits)
      BY <1>2, FieldsMove DEF Reject
    <3> QED
      BY <1>1, <3>1 DEF NewHandler
  <2>2. PICK p, c, s : p = "answered" /\ c = <<>> /\ s = "invalid"
    OBVIOUS
  <2>3. Comes(h, p, Invalid, c, s)
    BY <2>1, <2>2 DEF Comes
  <2> QED
    BY <1>0, <2>3
<1>3. ASSUME NEW in \in Input, handleHealthz(h, in)
      PROVE  \E p, i, c, s : Comes(h, p, i, c, s)
  <2>1. in.op = "healthz"
    BY <1>3 DEF handleHealthz
  <2>2. Moved(h, "answered", in, <<>>, 1, "ok", <<>>, {})
    <3>1. PICK q : q = [NewHandler EXCEPT !.pc = "answered", !.status = "ok", !.in = in]
      OBVIOUS
    <3>2. q = [pc |-> "answered", in |-> in, chunks |-> <<>>, k |-> 1, status |-> "ok",
               vector |-> <<>>, hits |-> {}]
      BY <3>1 DEF NewHandler
    <3>3. handler' = [handler EXCEPT ![h] = q]
      BY <1>1, <1>3, <3>1 DEF handleHealthz
    <3> QED
      BY <3>2, <3>3 DEF Moved
  <2> QED
    BY <2>1, <2>2 DEF Comes
<1>4. ASSUME NEW in \in Input, NEW p, NEW s, Accept(h, in, p, s)
      PROVE  Moved(h, p, in, ToEmbed(in), 1, s, <<>>, {})
  <2>1. PICK q : q = [NewHandler EXCEPT !.pc = p, !.status = s, !.in = in,
                                        !.chunks = ToEmbed(in)]
    OBVIOUS
  <2>2. q = [pc |-> p, in |-> in, chunks |-> ToEmbed(in), k |-> 1, status |-> s,
             vector |-> <<>>, hits |-> {}]
    BY <2>1 DEF NewHandler
  <2>3. handler' = [handler EXCEPT ![h] = q]
    BY <1>1, <1>4, <2>1 DEF Accept
  <2> QED
    BY <2>2, <2>3 DEF Moved
<1>5. ASSUME NEW in \in Input, handleSearch(h, in)
      PROVE  \E p, i, c, s : Comes(h, p, i, c, s)
  <2>1. in.op = "search"
    BY <1>5 DEF handleSearch
  <2>2. Moved(h, "embed", in, ToEmbed(in), 1, "none", <<>>, {})
    BY <1>4, <1>5 DEF handleSearch
  <2>3. 1 \in 1..Len(ToEmbed(in))
    <3>1. ToEmbed(in) = <<[text |-> in.query]>>
      BY <2>1, EmbedIs
    <3> QED
      BY <3>1
  <2> QED
    BY <2>1, <2>2, <2>3 DEF Comes
<1>6. ASSUME NEW in \in Input, handleIngest(h, in)
      PROVE  \E p, i, c, s : Comes(h, p, i, c, s)
  <2>1. in.op = "ingest"
    BY <1>6 DEF handleIngest
  <2>2. CASE ToEmbed(in) = <<>>
    <3>1. Moved(h, "answered", in, ToEmbed(in), 1, "error", <<>>, {})
      BY <1>4, <1>6, <2>2 DEF handleIngest
    <3> QED
      BY <2>1, <3>1 DEF Comes
  <2>3. CASE ToEmbed(in) # <<>>
    <3>1. Moved(h, "embed", in, ToEmbed(in), 1, "none", <<>>, {})
      BY <1>4, <1>6, <2>3 DEF handleIngest
    <3>2. PICK c : c = ToEmbed(in)
      OBVIOUS
    <3>3. c \in Seq(Range(c)) /\ c # <<>>
      BY <2>1, <2>3, <3>2, EmbedIs
    <3>4. 1 \in 1..Len(c)
      BY <3>3
    <3> QED
      BY <2>1, <3>1, <3>2, <3>4 DEF Comes
  <2> QED
    BY <2>2, <2>3
<1> QED
  BY <1>0, <1>2, <1>3, <1>5, <1>6 DEF Receive

\* What they have in common.
LEMMA ReceiveKeeps ==
    ASSUME HandlerInv, NEW h \in Request, Receive(h)
    PROVE  /\ HandlerInv' /\ Keeps /\ Arrive(h)
           /\ handler'[h].pc \in {"embed", "answered"} /\ handler'[h].k = 1
           /\ \A o \in {"search", "ingest"} : IsOp(h, o)' => handler'[h].status # "ok"
           /\ \A g \in Request \ {h} : handler'[g] = handler[g]
<1>1. Arrive(h)
  BY ReceiveMoves
<1>2. PICK p, i, c, s : Comes(h, p, i, c, s)
  BY ReceiveMoves
<1> QED
  BY <1>1, <1>2, HandlerArrives, Zenon

\* The steps of a handler, written out.
LEMMA HandleMoves ==
    ASSUME HandlerInv, NEW h \in Request
    PROVE  LET r == handler[h] IN
           /\ Write(h) => Moved(h, "read", r.in, r.chunks, r.k, r.status, r.vector, r.hits)
           /\ WriteFails(h) \/ ReadFails(h) \/ IngestFails(h) \/ SearchFails(h) =>
                Moved(h, "answered", r.in, r.chunks, r.k, "error", r.vector, r.hits)
           /\ Read(h) => Moved(h, "embedded", r.in, r.chunks, r.k, r.status,
                               Head(sub.stdout), r.hits)
           /\ IngestChunk(h) =>
                IF r.k < Len(r.chunks)
                THEN Moved(h, "embed", r.in, r.chunks, r.k + 1, r.status, r.vector, r.hits)
                ELSE Moved(h, "answered", r.in, r.chunks, r.k, "ok", r.vector, r.hits)
           /\ Search(h) =>
                \E S \in Nearest(handler[h].vector, TopK(handler[h].in.topK)) :
                    Moved(h, "answered", r.in, r.chunks, r.k, "ok", r.vector,
                          {points[p] : p \in S})
<1>1. WriteFails(h) \/ ReadFails(h) \/ IngestFails(h) \/ SearchFails(h) => Answer(h, "error")
  BY DEF WriteFails, ReadFails, IngestFails, SearchFails, AbandonIngest
<1>2. IngestChunk(h) => NextChunk(h)
  BY DEF IngestChunk
<1>3. Write(h) => handler' = [handler EXCEPT ![h].pc = "read"]
  BY DEF Write
<1>4. Read(h) => handler' = [handler EXCEPT ![h].pc = "embedded", ![h].vector = Head(sub.stdout)]
  BY DEF Read
<1>5. ASSUME Search(h)
      PROVE  \E S \in Nearest(handler[h].vector, TopK(handler[h].in.topK)) :
                 Moved(h, "answered", handler[h].in, handler[h].chunks, handler[h].k, "ok",
                       handler[h].vector, {points[p] : p \in S})
  <2>1. PICK S \in Nearest(handler[h].vector, TopK(handler[h].in.topK)) :
            handler' = [handler EXCEPT ![h].pc = "answered", ![h].status = "ok",
                                       ![h].hits = {points[p] : p \in S}]
    BY <1>5 DEF Search
  <2>2. PICK x : x = {points[p] : p \in S}
    OBVIOUS
  <2>3. Moved(h, "answered", handler[h].in, handler[h].chunks, handler[h].k, "ok",
              handler[h].vector, x)
    BY <2>1, <2>2, FieldsMove
  <2> QED
    BY <2>2, <2>3
<1> QED
  BY <1>1, <1>2, <1>3, <1>4, <1>5, FieldsMove

\* A handler that takes a step is busy and stays what it is.
LEMMA HandleKeeps ==
    ASSUME HandlerInv, NEW h \in Request, Handle(h)
    PROVE  HandlerInv' /\ Keeps /\ Busy(h) /\ UNCHANGED before
<1> DEFINE r == handler[h]
<1>1. Busy(h) /\ UNCHANGED before
  BY DEF Busy, Handle, Write, WriteFails, Read, ReadFails, IngestChunk, IngestFails,
         Search, SearchFails
<1>2. r.status = "none" /\ r.k \in 1..Len(r.chunks)
  BY <1>1, HandlerIs DEF Busy
<1>3. CASE Write(h)
  BY <1>1, <1>2, <1>3, HandleMoves, HandlerGoesOn
<1>4. CASE WriteFails(h) \/ ReadFails(h) \/ IngestFails(h) \/ SearchFails(h)
  BY <1>1, <1>2, <1>4, HandleMoves, HandlerGoesOn
<1>5. CASE Read(h)
  BY <1>1, <1>2, <1>5, HandleMoves, HandlerGoesOn
<1>6. CASE IngestChunk(h)
  <2>1. CASE r.k < Len(r.chunks)
    <3>1. r.k + 1 \in 1..Len(r.chunks)
      BY <1>2, <2>1
    <3> QED
      BY <1>1, <1>2, <1>6, <2>1, <3>1, HandleMoves, HandlerGoesOn
  <2>2. CASE ~(r.k < Len(r.chunks))
    BY <1>1, <1>2, <1>6, <2>2, HandleMoves, HandlerGoesOn
  <2> QED
    BY <2>1, <2>2
<1>7. CASE Search(h)
  <2>1. PICK S : Moved(h, "answered", r.in, r.chunks, r.k, "ok", r.vector,
                       {points[p] : p \in S})
    BY <1>7, HandleMoves
  <2> QED
    BY <1>1, <2>1, HandlerGoesOn
<1> QED
  BY <1>1, <1>3, <1>4, <1>5, <1>6, <1>7 DEF Handle

\* A step of a handler concerns no other, and which one it was can be seen.
LEMMA HandleKinds ==
    ASSUME HandlerInv, NEW h \in Request, Handle(h)
    PROVE  /\ \A g \in Request \ {h} : handler'[g] = handler[g]
           /\ handler'[h].in = handler[h].in /\ handler'[h].chunks = handler[h].chunks
           /\ handler'[h].k = handler[h].k \/ IngestChunk(h)
           /\ handler'[h].pc = "read" => Write(h)
           /\ handler'[h].pc = "embedded" => Read(h)
           /\ handler'[h].status = "ok" => IngestChunk(h) \/ Search(h)
<1> DEFINE r == handler[h]
<1>1. DOMAIN handler = Request
  BY DEF HandlerInv
<1>2. r.status = "none"
  BY HandleKeeps, HandlerIs DEF Busy
<1>3. CASE Write(h)
  <2>1. Moved(h, "read", r.in, r.chunks, r.k, r.status, r.vector, r.hits)
    BY <1>3, HandleMoves
  <2> QED
    BY <1>1, <1>2, <1>3, <2>1 DEF Moved
<1>4. CASE WriteFails(h) \/ ReadFails(h) \/ IngestFails(h) \/ SearchFails(h)
  <2>1. Moved(h, "answered", r.in, r.chunks, r.k, "error", r.vector, r.hits)
    BY <1>4, HandleMoves
  <2> QED
    BY <1>1, <2>1 DEF Moved
<1>5. CASE Read(h)
  <2>1. Moved(h, "embedded", r.in, r.chunks, r.k, r.status, Head(sub.stdout), r.hits)
    BY <1>5, HandleMoves
  <2> QED
    BY <1>1, <1>2, <1>5, <2>1 DEF Moved
<1>6. CASE IngestChunk(h)
  <2>1. \/ Moved(h, "embed", r.in, r.chunks, r.k + 1, r.status, r.vector, r.hits)
        \/ Moved(h, "answered", r.in, r.chunks, r.k, "ok", r.vector, r.hits)
    BY <1>6, HandleMoves
  <2> QED
    BY <1>1, <1>6, <2>1 DEF Moved
<1>7. CASE Search(h)
  <2>1. PICK S : Moved(h, "answered", r.in, r.chunks, r.k, "ok", r.vector,
                       {points[p] : p \in S})
    BY <1>7, HandleMoves
  <2> QED
    BY <1>1, <1>7, <2>1 DEF Moved
<1> QED
  BY <1>3, <1>4, <1>5, <1>6, <1>7 DEF Handle

-----------------------------------------------------------------------------
(* The mutex and the pipes *)

\* The pipes while nobody, or h, holds the mutex.
Pipes(h) ==
    \/ sub.alive /\ sub.stdin = <<Current(h).text>> /\ sub.stdout = <<>>
    \/ sub.stdin = <<>> /\ sub.stdout = <<Embedding(Current(h).text)>>
    \/ ~sub.alive /\ sub.stdin = <<>> /\ sub.stdout = <<>>

\* The invariant, by the holder of the mutex.
LEMMA PipesAre ==
    ASSUME PipeInv, NEW h \in Request
    PROVE  /\ mu = Free => sub.stdin = <<>> /\ sub.stdout = <<>> /\ handler[h].pc # "read"
           /\ handler[h].pc = "read" <=> mu = h
           /\ mu = h => Pipes(h)
<1>1. h # Free
  BY ServerAssumption
<1> QED
  BY <1>1 DEF PipeInv, Pipes

\* The other steps of requests: nobody takes or gives back the mutex.
LEMMA PipesRest ==
    ASSUME PipeInv, UNCHANGED <<mu, sub>>,
           \A g \in Request : \/ handler'[g] = handler[g]
                              \/ handler[g].pc # "read" /\ handler'[g].pc # "read"
    PROVE  PipeInv'
<1>1. \A g \in Request : handler'[g].pc = "read" <=> mu' = g
  BY DEF PipeInv
<1>2. CASE mu = Free
  BY <1>1, <1>2 DEF PipeInv
<1>3. CASE mu # Free
  <2>1. mu \in Request /\ handler[mu].pc = "read"
    BY <1>3 DEF PipeInv
  <2>2. Current(mu)' = Current(mu)
    BY <2>1 DEF Current
  <2> QED
    BY <1>1, <1>3, <2>2 DEF PipeInv
<1> QED
  BY <1>2, <1>3

\* The text of a handler that writes goes into empty pipes.
LEMMA PipesWrite ==
    ASSUME HandlerInv, PipeInv, NEW h \in Request, Write(h)
    PROVE  PipeInv'
<1>1. /\ mu = Free /\ mu' = h /\ sub.alive
      /\ sub' = [sub EXCEPT !.stdin = Append(@, Current(h).text)]
  BY DEF Write, LockedBy
<1>2. sub.stdin = <<>> /\ sub.stdout = <<>> /\ \A g \in Request : handler[g].pc # "read"
  BY <1>1, PipesAre DEF PipeInv
<1>3. sub = [alive |-> sub.alive, stdin |-> sub.stdin, stdout |-> sub.stdout]
  BY DEF PipeInv
<1>4. sub' = [alive |-> sub.alive, stdin |-> <<Current(h).text>>, stdout |-> <<>>]
  <2>1. PICK x : x = Current(h).text
    OBVIOUS
  <2>2. Append(sub.stdin, x) = <<x>>
    BY <1>2
  <2> QED
    BY <1>1, <1>2, <1>3, <2>1, <2>2
<1>5. /\ handler'[h].pc = "read" /\ handler'[h].chunks = handler[h].chunks
      /\ handler'[h].k = handler[h].k
      /\ \A g \in Request \ {h} : handler'[g] = handler[g]
  <2>1. LET r == handler[h] IN
        Moved(h, "read", r.in, r.chunks, r.k, r.status, r.vector, r.hits)
    BY HandleMoves
  <2>2. DOMAIN handler = Request
    BY DEF HandlerInv
  <2> QED
    BY <2>1, <2>2 DEF Moved
<1>6. Current(mu)' = Current(h)
  BY <1>1, <1>5 DEF Current
<1>7. \A g \in Request : handler'[g].pc = "read" <=> mu' = g
  BY <1>1, <1>2, <1>5
<1>8. h # Free
  BY ServerAssumption
<1>9. /\ sub'.alive = sub.alive /\ sub'.stdin = <<Current(h).text>> /\ sub'.stdout = <<>>
      /\ sub' = [alive |-> sub'.alive, stdin |-> sub'.stdin, stdout |-> sub'.stdout]
  BY <1>4
<1> QED
  BY <1>1, <1>6, <1>7, <1>8, <1>9 DEF PipeInv

\* The holder of the mutex gives it back, after it has taken the one line
\* there is, which it may not be able to decode, or found the pipe broken.
LEMMA PipesRead ==
    ASSUME HandlerInv, PipeInv, NEW h \in Request, Read(h) \/ ReadFails(h)
    PROVE  /\ PipeInv'
           /\ Read(h) => handler'[h].vector = Embedding(Current(h).text)
<1>1. handler[h].pc = "read" /\ mu' = Free
  BY DEF Read, ReadFails, Unlocked
<1>2. mu = h /\ Pipes(h)
  BY <1>1, PipesAre
<1>3. sub = [alive |-> sub.alive, stdin |-> sub.stdin, stdout |-> sub.stdout]
  BY DEF PipeInv
<1>4. /\ handler'[h].pc # "read" /\ \A g \in Request \ {h} : handler'[g] = handler[g]
      /\ Read(h) => handler'[h].vector = Head(sub.stdout)
  <2>1. DOMAIN handler = Request
    BY DEF HandlerInv
  <2>2. CASE Read(h)
    <3>1. LET r == handler[h] IN
          Moved(h, "embedded", r.in, r.chunks, r.k, r.status, Head(sub.stdout), r.hits)
      BY <2>2, HandleMoves
    <3> QED
      BY <2>1, <3>1 DEF Moved
  <2>3. CASE ReadFails(h) /\ ~Read(h)
    <3>1. LET r == handler[h] IN
          Moved(h, "answered", r.in, r.chunks, r.k, "error", r.vector, r.hits)
      BY <2>3, HandleMoves
    <3> QED
      BY <2>1, <2>3, <3>1 DEF Moved
  <2> QED
    BY <2>2, <2>3
<1>5. \A g \in Request : handler'[g].pc # "read"
  <2>1. \A g \in Request \ {h} : handler[g].pc # "read"
    BY <1>2, PipesAre
  <2> QED
    BY <1>4, <2>1
<1>6. \A g \in Request : g # Free
  BY ServerAssumption
<1>7. CASE sub.stdout # <<>>
  <2>1. sub.stdin = <<>> /\ sub.stdout = <<Embedding(Current(h).text)>>
    BY <1>2, <1>7 DEF Pipes
  <2>2. sub' = [alive |-> sub.alive, stdin |-> <<>>, stdout |-> <<>>]
    <3>1. sub' = [sub EXCEPT !.stdout = Tail(@)]
      BY <1>7 DEF Read, ReadFails
    <3>2. Tail(sub.stdout) = <<>>
      BY <2>1
    <3> QED
      BY <1>3, <2>1, <3>1, <3>2
  <2>3. Head(sub.stdout) = Embedding(Current(h).text)
    BY <2>1
  <2> QED
    BY <1>1, <1>4, <1>5, <1>6, <2>2, <2>3 DEF PipeInv
<1>8. CASE sub.stdout = <<>>
  <2>1. ~Read(h)
    BY <1>8 DEF Read
  <2>2. sub' = sub /\ sub.stdin = <<>>
    BY <1>2, <1>8, <2>1 DEF ReadFails, Pipes
  <2> QED
    BY <1>1, <1>3, <1>5, <1>6, <1>8, <2>1, <2>2 DEF PipeInv
<1> QED
  BY <1>7, <1>8

\* The subprocess answers or dies.
LEMMA PipesSub ==
    ASSUME PipeInv, Respond \/ Die
    PROVE  PipeInv'
<1>1. UNCHANGED <<mu, handler>>
  BY DEF Respond, Die
<1>2. sub = [alive |-> sub.alive, stdin |-> sub.stdin, stdout |-> sub.stdout] /\ sub.alive
  BY DEF PipeInv, Respond, Die
<1>3. CASE mu = Free
  <2>1. sub.stdin = <<>> /\ sub.stdout = <<>>
    BY <1>3 DEF PipeInv
  <2>2. sub' = [sub EXCEPT !.alive = FALSE, !.stdin = <<>>]
    BY <2>1 DEF Respond, Die
  <2>3. sub' = [alive |-> FALSE, stdin |-> <<>>, stdout |-> <<>>]
    BY <1>2, <2>1, <2>2
  <2> QED
    BY <1>1, <1>3, <2>3 DEF PipeInv
<1>4. CASE mu # Free
  <2>1. mu \in Request /\ Pipes(mu)
    BY <1>4 DEF PipeInv, Pipes
  <2>2. Current(mu)' = Current(mu)
    BY <1>1 DEF Current
  <2>3. CASE Respond
    <3>1. sub.stdin = <<Current(mu).text>> /\ sub.stdout = <<>>
      BY <2>1, <2>3 DEF Respond, Pipes
    <3>2. sub' = [sub EXCEPT !.stdin = Tail(@),
                             !.stdout = Append(@, Embedding(Head(sub.stdin)))]
      BY <2>3 DEF Respond
    <3>3. Tail(sub.stdin) = <<>> /\ Head(sub.stdin) = Current(mu).text
      BY <3>1
    <3>4. sub' = [alive |-> sub.alive, stdin |-> <<>>,
                  stdout |-> <<Embedding(Current(mu).text)>>]
      <4>1. PICK e : e = Embedding(Current(mu).text)
        OBVIOUS
      <4>2. Append(sub.stdout, e) = <<e>>
        BY <3>1
      <4>3. /\ sub'.alive = sub.alive /\ sub'.stdin = <<>> /\ sub'.stdout = <<e>>
            /\ sub' = [alive |-> sub'.alive, stdin |-> sub'.stdin, stdout |-> sub'.stdout]
        BY <1>2, <3>2, <3>3, <4>1, <4>2
      <4> QED
        BY <4>1, <4>3
    <3> QED
      BY <1>1, <1>4, <2>2, <3>4 DEF PipeInv
  <2>4. CASE Die
    <3>1. sub' = [sub EXCEPT !.alive = FALSE, !.stdin = <<>>]
      BY <2>4 DEF Die
    <3>2. sub' = [alive |-> FALSE, stdin |-> <<>>, stdout |-> sub.stdout]
      BY <1>2, <3>1
    <3>3. sub.stdout = <<>> \/ sub.stdout = <<Embedding(Current(mu).text)>>
      BY <2>1 DEF Pipes
    <3> QED
      BY <1>1, <1>4, <2>2, <3>2, <3>3 DEF PipeInv
  <2> QED
    BY <2>3, <2>4
<1> QED
  BY <1>3, <1>4

-----------------------------------------------------------------------------
(* What a step does to the server and to the collection *)

\* A step of the server is one of a handler, of a new request or of the
\* subprocess.
LEMMA ServerSteps ==
    ASSUME [Next]_vars
    PROVE  \/ UNCHANGED serverVars
           \/ \E h \in Request : Handle(h) \/ Receive(h)
           \/ Respond \/ Die
<1>1. CASE \E p \in Process : Start(p)
  BY <1>1 DEF Start
<1>2. CASE Land \/ Batch(BatchNext)
  BY <1>2 DEF Land, Batch
<1>3. CASE Serve(ServerNext)
  BY <1>3 DEF Serve, ServerNext
<1>4. CASE UNCHANGED vars
  BY <1>4 DEF vars
<1> QED
  BY <1>1, <1>2, <1>3, <1>4 DEF Next

\* Every step keeps the requests and the pipes in order.
LEMMA ServerKeeps ==
    ASSUME HandlerInv, PipeInv, [Next]_vars
    PROVE  HandlerInv' /\ PipeInv' /\ Keeps
<1>1. CASE UNCHANGED serverVars
  <2>1. UNCHANGED <<handler, before>> /\ UNCHANGED <<mu, sub>>
    BY <1>1 DEF serverVars
  <2> QED
    BY <2>1, HandlersRest, PipesRest
<1>2. ASSUME NEW h \in Request, Handle(h)
      PROVE  HandlerInv' /\ PipeInv' /\ Keeps
  <2>1. HandlerInv' /\ Keeps
    BY <1>2, HandleKeeps
  <2>2. CASE Write(h)
    BY <2>1, <2>2, PipesWrite
  <2>3. CASE Read(h) \/ ReadFails(h)
    BY <2>1, <2>3, PipesRead
  <2>4. CASE ~(Write(h) \/ Read(h) \/ ReadFails(h))
    <3>1. UNCHANGED <<mu, sub>> /\ handler[h].pc # "read"
      BY <1>2, <2>4 DEF Handle, WriteFails, IngestChunk, IngestFails, Search, SearchFails
    <3>2. handler'[h].pc # "read" /\ \A g \in Request \ {h} : handler'[g] = handler[g]
      BY <1>2, <2>4, HandleKinds
    <3> QED
      BY <2>1, <3>1, <3>2, PipesRest
  <2> QED
    BY <2>2, <2>3, <2>4
<1>3. ASSUME NEW h \in Request, Receive(h)
      PROVE  HandlerInv' /\ PipeInv' /\ Keeps
  <2>1. /\ HandlerInv' /\ Keeps /\ Arrive(h)
        /\ handler'[h].pc \in {"embed", "answered"}
        /\ \A g \in Request \ {h} : handler'[g] = handler[g]
    BY <1>3, ReceiveKeeps
  <2>2. UNCHANGED <<mu, sub>> /\ handler[h].pc # "read" /\ handler'[h].pc # "read"
    BY <2>1 DEF Arrive
  <2> QED
    BY <2>1, <2>2, PipesRest
<1>4. CASE Respond \/ Die
  <2>1. UNCHANGED <<handler, before>>
    BY <1>4 DEF Respond, Die
  <2> QED
    BY <1>4, <2>1, HandlersRest, PipesSub
<1> QED
  BY <1>1, <1>2, <1>3, <1>4, ServerSteps

\* A chunk that may be written: one of the corpus, or one of a request that
\* has just embedded it or was answered with an error.
Source(c) ==
    \/ c \in CorpusChunk
    \/ \E g \in Request : ChunkOf(c, g)
                          /\ (handler[g].pc = "embedded" \/ handler[g].status = "error")

\* The chunk of a busy worker, and of a handler that has embedded it.
LEMMA Sources ==
    /\ \A w \in Worker : QueueInv /\ WorkInv /\ work[w] # Idle => Chunk(w) \in CorpusChunk
    /\ \A h \in Request : HandlerInv /\ handler[h].pc = "embedded" /\ IsOp(h, "ingest") =>
         ChunkOf(Current(h), h)
<1>1. ASSUME NEW w \in Worker, QueueInv, WorkInv, work[w] # Idle
      PROVE  Chunk(w) \in CorpusChunk
  <2>1. lent[w] \in Submitted
    BY <1>1 DEF WorkInv
  <2>2. Submitted \subseteq DOMAIN payload
    BY <1>1 DEF QueueInv, Submitted, Range
  <2>3. payload \in Seq(CorpusChunk)
    BY <1>1 DEF QueueInv
  <2> QED
    BY <2>1, <2>2, <2>3 DEF Chunk
<1>2. ASSUME NEW h \in Request, HandlerInv, handler[h].pc = "embedded", IsOp(h, "ingest")
      PROVE  ChunkOf(Current(h), h)
  <2>1. /\ handler[h].k \in 1..Len(handler[h].chunks)
        /\ handler[h].in \in Input /\ handler[h].in.op = "ingest"
        /\ handler[h].chunks = ToEmbed(handler[h].in)
    BY <1>2, HandlerIs DEF IsOp
  <2>2. PICK c : c = handler[h].chunks
    OBVIOUS
  <2>3. c \in Seq(Range(c))
    BY <2>1, <2>2, EmbedIs
  <2>4. handler[h].k \in DOMAIN handler[h].chunks
    BY <2>1, <2>2, <2>3
  <2> QED
    BY <1>2, <2>4 DEF ChunkOf, Current
<1> QED
  BY <1>1, <1>2

\* A step that writes chunk c, and one that gives up the upsert u.
WritesNow(c) ==
    /\ Source(c) /\ points' = Stored(c, Embedding(c.text))
    /\ late' \subseteq late

GivesUp(u) ==
    /\ points' = points /\ late' = late \cup {u}
    /\ u.vector = Embedding(u.chunk.text)
    /\ \/ u.chunk \in CorpusChunk
       \/ \E g \in Request : ChunkOf(u.chunk, g) /\ handler'[g].status = "error"

\* The batch path writes through the upsert of a worker only.
LEMMA BatchStore ==
    ASSUME QueueInv, WorkInv, BatchNext
    PROVE  \/ UNCHANGED <<points, late>>
           \/ \E c : WritesNow(c)
           \/ \E u : GivesUp(u)
<1>1. CASE Produce
  <2>1. CASE SubmitHop
    BY <2>1 DEF SubmitHop
  <2>2. CASE SubmitOk \/ SubmitRefused
    BY <2>2 DEF SubmitOk, SubmitRefused, SubmitReturns
  <2>3. CASE SubmitFails
    BY <2>3 DEF SubmitFails
  <2>4. CASE AllSubmitted \/ \E id \in producer.pending : GetResult(id)
    BY <2>4 DEF AllSubmitted, GetResult, storeVars
  <2> QED
    BY <1>1, <2>1, <2>2, <2>3, <2>4 DEF Produce
<1>2. CASE \E cmd \in proposed : CommitStep(cmd)
  BY <1>2 DEF CommitStep, storeVars
<1>3. ASSUME NEW w \in Worker, Upsert(w)
      PROVE  (\E c : WritesNow(c)) \/ (\E u : GivesUp(u))
  <2>1. work[w] # Idle /\ work[w].pc = "upsert"
    BY <1>3 DEF Upsert, At, Idle
  <2>2. work[w].vector = Embedding(Chunk(w).text)
    BY <2>1, PipelineAssumption DEF WorkInv, Idle, Report
  <2>3. Chunk(w) \in CorpusChunk
    BY <2>1, Sources
  <2>4. CASE UpsertChunk(Chunk(w), work[w].vector)
    <3>1. WritesNow(Chunk(w))
      BY <2>2, <2>3, <2>4 DEF WritesNow, Source, UpsertChunk
    <3> QED
      BY <3>1
  <2>5. CASE UpsertFails(Chunk(w), work[w].vector)
    <3>1. PICK u : u = [chunk |-> Chunk(w), vector |-> work[w].vector]
      OBVIOUS
    <3>2. GivesUp(u)
      BY <2>2, <2>3, <2>5, <3>1 DEF GivesUp, UpsertFails
    <3> QED
      BY <3>2
  <2> QED
    BY <1>3, <2>4, <2>5 DEF Upsert
<1>4. ASSUME NEW w \in Worker, Work(w) \/ Crash(w) \/ \E t \in Task : Poll(w, t), ~Upsert(w)
      PROVE  UNCHANGED <<points, late>>
  <2>1. CASE Embed(w) \/ CompleteHop(w)
    BY <2>1 DEF Embed, CompleteHop, storeVars
  <2>2. CASE EmbedFails(w) \/ Completed(w) \/ Crash(w) \/ \E t \in Task : Poll(w, t)
    BY <2>2 DEF EmbedFails, Completed, Crash, Poll
  <2> QED
    BY <1>4, <2>1, <2>2 DEF Work
<1> QED
  BY <1>1, <1>2, <1>3, <1>4 DEF BatchNext

\* The server writes a chunk that a request has just embedded.
LEMMA ServerStore ==
    ASSUME HandlerInv, VectorInv, ServerNext
    PROVE  \/ UNCHANGED <<points, late>>
           \/ \E c : WritesNow(c)
           \/ \E u : GivesUp(u)
<1>1. CASE Respond \/ Die
  BY <1>1 DEF Respond, Die, storeVars
<1>2. ASSUME NEW h \in Request, Receive(h)
      PROVE  UNCHANGED <<points, late>>
  <2>1. Arrive(h)
    BY <1>2, ReceiveKeeps
  <2> QED
    BY <2>1 DEF Arrive, storeVars
<1>3. ASSUME NEW h \in Request, IngestChunk(h)
      PROVE  \E c : WritesNow(c)
  <2>1. PICK c : c = Current(h)
    OBVIOUS
  <2>2. handler[h].vector = Embedding(c.text)
    BY <1>3, <2>1 DEF IngestChunk, VectorInv
  <2>3. Source(c)
    BY <1>3, <2>1, Sources DEF IngestChunk, Source
  <2>4. WritesNow(c)
    BY <1>3, <2>1, <2>2, <2>3 DEF IngestChunk, UpsertChunk, WritesNow
  <2> QED
    BY <2>4
<1>4. ASSUME NEW h \in Request, IngestFails(h)
      PROVE  \E u : GivesUp(u)
  <2>1. PICK u : u = [chunk |-> Current(h), vector |-> handler[h].vector]
    OBVIOUS
  <2>2. u.vector = Embedding(u.chunk.text)
    BY <1>4, <2>1 DEF IngestFails, VectorInv
  <2>3. ChunkOf(u.chunk, h)
    BY <1>4, <2>1, Sources DEF IngestFails
  <2>4. handler'[h].status = "error"
    <3>1. LET r == handler[h] IN
          Moved(h, "answered", r.in, r.chunks, r.k, "error", r.vector, r.hits)
      BY <1>4, HandleMoves
    <3>2. DOMAIN handler = Request
      BY DEF HandlerInv
    <3> QED
      BY <3>1, <3>2 DEF Moved
  <2>5. points' = points /\ late' = late \cup {u}
    BY <1>4, <2>1 DEF IngestFails, UpsertFails
  <2>6. GivesUp(u)
    BY <2>2, <2>3, <2>4, <2>5 DEF GivesUp
  <2> QED
    BY <2>6
<1>5. ASSUME NEW h \in Request, Handle(h), ~IngestChunk(h), ~IngestFails(h)
      PROVE  UNCHANGED <<points, late>>
  BY <1>5 DEF Handle, Write, WriteFails, Read, ReadFails, Search, SearchFails, storeVars
<1> QED
  BY <1>1, <1>2, <1>3, <1>4, <1>5 DEF ServerNext

\* The collection changes by the upsert of a chunk with the vector of its text.
LEMMA StoreSteps ==
    ASSUME QueueInv, WorkInv, HandlerInv, VectorInv, LateInv, [Next]_vars
    PROVE  \/ UNCHANGED <<points, late>>
           \/ \E c : WritesNow(c)
           \/ \E u : GivesUp(u)
<1>1. ASSUME NEW p \in Process, Start(p)
      PROVE  UNCHANGED <<points, late>>
  BY <1>1 DEF Start, StartUp, GetCollection, CreateCollection, EmbedderStart, StartStep
<1>2. CASE Land
  <2>1. PICK u \in late : points' = Stored(u.chunk, u.vector) /\ late' = late \ {u}
    BY <1>2 DEF Land, LateUpsert
  <2>2. u.vector = Embedding(u.chunk.text)
    BY DEF VectorInv
  <2>3. Source(u.chunk)
    BY DEF LateInv, Source
  <2>4. WritesNow(u.chunk)
    BY <2>1, <2>2, <2>3 DEF WritesNow
  <2> QED
    BY <2>4
<1>3. CASE Batch(BatchNext)
  BY <1>3, BatchStore DEF Batch
<1>4. CASE Serve(ServerNext)
  BY <1>4, ServerStore DEF Serve
<1>5. CASE UNCHANGED vars
  BY <1>5 DEF vars, storeVars
<1> QED
  BY <1>1, <1>2, <1>3, <1>4, <1>5 DEF Next

-----------------------------------------------------------------------------
(* What stays true of texts and points *)

\* A request that is an ingest or a search has come in; it stays one.
LEMMA OpStays ==
    ASSUME HandlerInv, Keeps, NEW g \in Request, NEW o, IsOp(g, o)
    PROVE  /\ IsOp(g, o)' /\ handler[g].pc # "new"
           /\ handler'[g].in = handler[g].in /\ handler'[g].chunks = handler[g].chunks
           /\ before'[g] = before[g]
<1>1. ASSUME handler[g].pc = "new" PROVE FALSE
  <2>1. handler[g] = NewHandler
    BY <1>1, HandlerIs DEF Busy
  <2>2. handler[g].in = Invalid
    BY <2>1 DEF NewHandler
  <2> QED
    BY <2>2 DEF IsOp
<1> QED
  BY <1>1 DEF Keeps, IsOp

\* So it stays the request of its chunks,
LEMMA ChunkOfStays ==
    ASSUME HandlerInv, Keeps, NEW c, NEW g \in Request, ChunkOf(c, g)
    PROVE  ChunkOf(c, g)'
<1>1. IsOp(g, "ingest")
  BY DEF ChunkOf
<1>2. IsOp(g, "ingest")' /\ handler'[g].chunks = handler[g].chunks
  BY <1>1, OpStays
<1> QED
  BY <1>2 DEF ChunkOf

\* and the writer of their texts.
LEMMA WriterStays ==
    ASSUME HandlerInv, Keeps, NEW id, NEW t, NEW g \in WrittenBy(id, t)
    PROVE  g \in WrittenBy(id, t)'
<1>1. g \in Request /\ IsOp(g, "ingest") /\ Ingests(g, id, t)
  BY DEF WrittenBy, Ingests
<1>2. IsOp(g, "ingest")' /\ handler'[g].chunks = handler[g].chunks
  BY <1>1, OpStays
<1>3. Ingests(g, id, t)'
  BY <1>1, <1>2 DEF Ingests
<1> QED
  BY <1>1, <1>3 DEF WrittenBy

\* Where a text may come from.
Provided(id, t) == InCorpus(id, t) \/ WrittenBy(id, t) # {}

\* Where the text of a chunk of ingest h may come from.
After(h, id, t) ==
    \/ \E g \in WrittenBy(id, t) : g = h \/ MayFollow(g, h)
    \/ InCorpus(id, t)

\* These stay true, too.
LEMMA ProvidedStays ==
    ASSUME HandlerInv, Keeps, NEW id, NEW t, Provided(id, t)
    PROVE  Provided(id, t)'
<1>1. CASE InCorpus(id, t)
  BY <1>1 DEF Provided, InCorpus
<1>2. CASE WrittenBy(id, t) # {}
  <2>1. PICK g : g \in WrittenBy(id, t)
    BY <1>2
  <2>2. g \in WrittenBy(id, t)'
    BY <2>1, WriterStays
  <2> QED
    BY <2>2 DEF Provided
<1> QED
  BY <1>1, <1>2 DEF Provided

\* A request that was through before h came in stays through.
LEMMA FollowStays ==
    ASSUME HandlerInv, Keeps, NEW g \in Request, NEW h \in Request,
           handler[h].pc # "new", MayFollow(g, h)
    PROVE  MayFollow(g, h)'
<1>1. before'[h] = before[h]
  BY DEF Keeps
<1>2. CASE g \notin before[h]
  BY <1>1, <1>2 DEF MayFollow
<1>3. CASE g \in before[h]
  <2>1. handler[g].pc = "answered"
    BY <1>3, HandlerIs
  <2>2. handler'[g] = handler[g]
    BY <2>1 DEF Keeps
  <2> QED
    BY <1>1, <2>2 DEF MayFollow
<1> QED
  BY <1>2, <1>3

\* Hence a text that may follow h's stays one.
LEMMA AfterStays ==
    ASSUME HandlerInv, Keeps, NEW h \in Request, handler[h].pc # "new",
           NEW id, NEW t, After(h, id, t)
    PROVE  After(h, id, t)'
<1>1. CASE InCorpus(id, t)
  BY <1>1 DEF After, InCorpus
<1>2. CASE \E g \in WrittenBy(id, t) : g = h \/ MayFollow(g, h)
  <2>1. PICK g \in WrittenBy(id, t) : g = h \/ MayFollow(g, h)
    BY <1>2
  <2>2. g \in WrittenBy(id, t)' /\ g \in Request
    BY WriterStays DEF WrittenBy
  <2>3. g = h \/ MayFollow(g, h)'
    BY <2>1, <2>2, FollowStays
  <2> QED
    BY <2>2, <2>3 DEF After
<1> QED
  BY <1>1, <1>2 DEF After

\* A chunk that may be written has an id in use, of its document, a text that is
\* provided for it, and follows every ingest: its request is not through, or has failed.
LEMMA SourceIs ==
    ASSUME HandlerInv, NEW c, Source(c)
    PROVE  /\ c.id \in ChunkId /\ c.doc = c.id[1] /\ Provided(c.id, c.text)
           /\ \A h \in Request : After(h, c.id, c.text)
<1>1. CASE c \in CorpusChunk
  BY <1>1, CorpusIs DEF Provided, After
<1>2. ASSUME NEW g \in Request, ChunkOf(c, g),
             handler[g].pc = "embedded" \/ handler[g].status = "error"
      PROVE  /\ c.id \in ChunkId /\ c.doc = c.id[1] /\ Provided(c.id, c.text)
             /\ \A h \in Request : After(h, c.id, c.text)
  <2>1. PICK k \in DOMAIN handler[g].chunks : handler[g].chunks[k] = c
    BY <1>2 DEF ChunkOf
  <2>2. IsOp(g, "ingest")
    BY <1>2 DEF ChunkOf
  <2>3. /\ handler[g].in \in Input /\ handler[g].in.op = "ingest"
        /\ handler[g].chunks = ToEmbed(handler[g].in)
    BY <2>2, HandlerIs DEF IsOp
  <2>4. c.id \in ChunkId /\ c.doc = c.id[1]
    <3>1. PICK in : in = handler[g].in
      OBVIOUS
    <3>2. c.id = <<in.doc, k - 1>> /\ c.doc = in.doc /\ c.id \in ChunkId
      BY <2>1, <2>3, <3>1, EmbedIs
    <3> QED
      BY <3>2
  <2>5. g \in WrittenBy(c.id, c.text)
    BY <2>1, <2>2 DEF WrittenBy, Ingests
  <2>6. ASSUME NEW h \in Request
        PROVE  MayFollow(g, h)
    <3>1. g \in before[h] => handler[g].pc = "answered"
      BY HandlerIs
    <3> QED
      BY <1>2, <3>1 DEF MayFollow
  <2> QED
    BY <2>4, <2>5, <2>6 DEF Provided, After
<1> QED
  BY <1>1, <1>2 DEF Source

\* The text at a chunk id after a write: that of the chunk written, or as it
\* was, since ids in use do not collide.
LEMMA TextAfter ==
    ASSUME NEW c, c.id \in ChunkId, NEW v, points' = Stored(c, v), NEW id \in ChunkId
    PROVE  /\ DOMAIN points' = DOMAIN points \cup {ChunkIDToUUID(c.id)}
           /\ id = c.id => TextAt(id)' = c.text
           /\ id # c.id /\ ChunkIDToUUID(id) \in DOMAIN points => TextAt(id)' = TextAt(id)
<1>1. id # c.id => ChunkIDToUUID(id) # ChunkIDToUUID(c.id)
  BY IndexerAssumption DEF ChunkIDToUUID
<1>2. PICK p : p = ChunkIDToUUID(c.id)
  OBVIOUS
<1>3. points' = [q \in DOMAIN points \cup {p} |->
                    IF q = p THEN [doc |-> c.doc, text |-> c.text, vector |-> v]
                    ELSE points[q]]
  BY <1>2 DEF Stored
<1>4. DOMAIN points' = DOMAIN points \cup {p}
  BY <1>3
<1>5. points'[p].text = c.text
  BY <1>3
<1>6. \A q \in DOMAIN points \ {p} : points'[q] = points[q]
  BY <1>3
<1>7. TextAt(id)' = points'[ChunkIDToUUID(id)].text
  BY DEF TextAt, ChunkIDToUUID
<1> QED
  BY <1>1, <1>2, <1>4, <1>5, <1>6, <1>7 DEF TextAt

\* A chunk that is stored stays so.
LEMMA StoredStays ==
    ASSUME HandlerInv, Keeps, points' = points \/ \E c : WritesNow(c),
           NEW d, d.id \in ChunkId, IsStored(d)
    PROVE  IsStored(d)'
<1>0. ChunkIDToUUID(d.id) \in DOMAIN points /\ Provided(d.id, TextAt(d.id))
  BY DEF IsStored, Provided
<1>1. ASSUME ChunkIDToUUID(d.id) \in DOMAIN points', NEW t, t = TextAt(d.id)',
             Provided(d.id, t)'
      PROVE  IsStored(d)'
  BY <1>1 DEF IsStored, Provided, ChunkIDToUUID
<1>2. PICK s, t : s = TextAt(d.id) /\ t = TextAt(d.id)'
  OBVIOUS
<1>3. CASE points' = points
  <2>1. t = s
    BY <1>2, <1>3 DEF TextAt, ChunkIDToUUID
  <2>2. Provided(d.id, t)'
    BY <1>0, <1>2, <2>1, ProvidedStays
  <2> QED
    BY <1>0, <1>1, <1>2, <1>3, <2>2
<1>4. ASSUME NEW c, WritesNow(c)
      PROVE  IsStored(d)'
  <2>1. c.id \in ChunkId /\ Provided(c.id, c.text) /\ points' = Stored(c, Embedding(c.text))
    BY <1>4, SourceIs DEF WritesNow
  <2>2. /\ DOMAIN points' = DOMAIN points \cup {ChunkIDToUUID(c.id)}
        /\ d.id = c.id => t = c.text
        /\ d.id # c.id => t = s
    BY <1>0, <1>2, <2>1, TextAfter
  <2>3. Provided(d.id, t)
    BY <1>0, <1>2, <2>1, <2>2
  <2>4. Provided(d.id, t)'
    BY <2>3, ProvidedStays
  <2> QED
    BY <1>0, <1>1, <1>2, <2>2, <2>4
<1> QED
  BY <1>3, <1>4

\* The chunks of an ingest, and that its document has one id per chunk.
LEMMA IngestIs ==
    ASSUME HandlerInv, NEW h \in Request, IsOp(h, "ingest")
    PROVE  /\ handler[h].chunks \in Seq(Range(handler[h].chunks))
           /\ DOMAIN handler[h].chunks = 1..Len(handler[h].chunks)
           /\ Len(handler[h].chunks) \in Nat
           /\ \A k \in DOMAIN handler[h].chunks :
                /\ handler[h].chunks[k].id \in ChunkId
                /\ handler[h].chunks[k].id = <<handler[h].in.doc, k - 1>>
                /\ handler[h].chunks[k].doc = handler[h].in.doc
<1>1. PICK in, cs : in = handler[h].in /\ cs = handler[h].chunks
  OBVIOUS
<1>2. in \in Input /\ cs = ToEmbed(in) /\ in.op = "ingest"
  BY <1>1, HandlerIs DEF IsOp
<1>3. /\ cs \in Seq(Range(cs))
      /\ \A k \in DOMAIN cs : /\ cs[k].id = <<in.doc, k - 1>> /\ cs[k].doc = in.doc
                              /\ cs[k].id \in ChunkId
  BY <1>2, EmbedIs
<1>4. DOMAIN cs = 1..Len(cs) /\ Len(cs) \in Nat
  BY <1>3
<1> QED
  BY <1>1, <1>3, <1>4

\* Every point stays that of its chunk id.
LEMMA PointStep ==
    ASSUME QueueInv, WorkInv, HandlerInv, VectorInv, LateInv, PointInv, [Next]_vars
    PROVE  PointInv'
<1> DEFINE Good(f, q) ==
        \E id \in ChunkId : /\ q = ChunkIDToUUID(id)
                            /\ f[q] = [doc |-> id[1], text |-> f[q].text,
                                       vector |-> f[q].vector]
<1>1. CASE points' = points
  BY <1>1 DEF PointInv, ChunkIDToUUID
<1>2. ASSUME NEW c, WritesNow(c), NEW q \in DOMAIN points'
      PROVE  Good(points', q)
  <2>1. c.id \in ChunkId /\ c.doc = c.id[1] /\ points' = Stored(c, Embedding(c.text))
    BY <1>2, SourceIs DEF WritesNow
  <2>2. PICK p : p = ChunkIDToUUID(c.id)
    OBVIOUS
  <2>3. points' = [r \in DOMAIN points \cup {p} |->
                      IF r = p THEN [doc |-> c.doc, text |-> c.text,
                                     vector |-> Embedding(c.text)]
                      ELSE points[r]]
    BY <2>1, <2>2 DEF Stored
  <2>4. CASE q = p
    BY <2>1, <2>2, <2>3, <2>4
  <2>5. CASE q # p
    <3>1. q \in DOMAIN points /\ points'[q] = points[q]
      BY <2>3, <2>5
    <3>2. Good(points, q)
      BY <3>1 DEF PointInv
    <3> QED
      BY <3>1, <3>2
  <2> QED
    BY <2>4, <2>5
<1>3. CASE \E c : WritesNow(c)
  BY <1>2, <1>3 DEF PointInv, ChunkIDToUUID
<1> QED
  BY <1>1, <1>3, StoreSteps DEF GivesUp

\* What the upsert of a chunk writes.
PointOf(c) == [doc |-> c.doc, text |-> c.text, vector |-> Embedding(c.text)]

\* Only the chunk itself is ever written where an undisputed one belongs,
LEMMA OnlySource ==
    ASSUME HandlerInv, NEW d \in CorpusChunk, Undisputed(d), NEW c, Source(c), c.id = d.id
    PROVE  c = d
<1>1. CASE c \in CorpusChunk
  BY <1>1 DEF Undisputed, CorpusChunk, Range
<1>2. ASSUME NEW g \in Request, ChunkOf(c, g)
      PROVE  FALSE
  <2>1. IsOp(g, "ingest") /\ \E k \in DOMAIN handler[g].chunks : handler[g].chunks[k] = c
    BY <1>2 DEF ChunkOf
  <2>2. PICK k \in DOMAIN handler[g].chunks : handler[g].chunks[k] = c
    BY <2>1
  <2>3. d.id = <<handler[g].in.doc, k - 1>>
    BY <2>1, <2>2, IngestIs
  <2>4. d.doc = d.id[1]
    BY CorpusIs
  <2>5. handler[g].in.doc = d.doc
    BY <2>3, <2>4
  <2> QED
    BY <2>1, <2>5 DEF Undisputed
<1> QED
  BY <1>1, <1>2 DEF Source

\* and what is stored there is what its upsert writes.
LEMMA PointIs ==
    ASSUME HandlerInv, VectorInv, PointInv, NEW d \in CorpusChunk, Undisputed(d),
           IsStored(d), NEW p, p = ChunkIDToUUID(d.id)
    PROVE  p \in DOMAIN points /\ points[p] = PointOf(d)
<1>1. p \in DOMAIN points /\ Provided(d.id, TextAt(d.id))
  BY DEF IsStored, Provided
<1>2. PICK x : x = TextAt(d.id)
  OBVIOUS
<1>3. x = d.text
  <2>1. CASE InCorpus(d.id, x)
    BY <2>1 DEF InCorpus, Undisputed
  <2>2. ASSUME NEW g \in WrittenBy(d.id, x)
        PROVE  FALSE
    <3>1. g \in Request /\ IsOp(g, "ingest")
      BY DEF WrittenBy, Ingests
    <3>2. PICK k \in DOMAIN handler[g].chunks : handler[g].chunks[k].id = d.id
      BY DEF WrittenBy, Ingests
    <3>3. d.id = <<handler[g].in.doc, k - 1>>
      BY <3>1, <3>2, IngestIs
    <3>4. d.doc = d.id[1]
      BY CorpusIs
    <3>5. handler[g].in.doc = d.doc
      BY <3>3, <3>4
    <3> QED
      BY <3>1, <3>5 DEF Undisputed
  <2> QED
    BY <1>1, <1>2, <2>1, <2>2 DEF Provided
<1>4. PICK id \in ChunkId : /\ p = ChunkIDToUUID(id)
                            /\ points[p] = [doc |-> id[1], text |-> points[p].text,
                                            vector |-> points[p].vector]
  BY <1>1 DEF PointInv
<1>5. id = d.id /\ d.doc = d.id[1]
  BY <1>4, CorpusIs, IndexerAssumption DEF ChunkIDToUUID
<1>6. points[p].text = d.text
  BY <1>2, <1>3 DEF TextAt
<1>7. points[p].vector = Embedding(d.text)
  BY <1>1, <1>6 DEF VectorInv, OwnVector
<1> QED
  BY <1>1, <1>4, <1>5, <1>6, <1>7 DEF PointOf

-----------------------------------------------------------------------------
(* Vectors and late upserts *)

\* The vectors stay those of their texts.
LEMMA VectorStep ==
    ASSUME QueueInv, WorkInv, HandlerInv, PipeInv, VectorInv, LateInv, [Next]_vars
    PROVE  VectorInv' /\ LateInv'
<1>0. HandlerInv' /\ Keeps
  BY ServerKeeps
<1>1. IsFiniteSet(DOMAIN points)' /\ OwnVector'
  <2>1. CASE points' = points
    BY <2>1 DEF VectorInv, OwnVector
  <2>2. ASSUME NEW c, WritesNow(c)
        PROVE  IsFiniteSet(DOMAIN points)' /\ OwnVector'
    <3>1. PICK p : p = ChunkIDToUUID(c.id)
      OBVIOUS
    <3>2. points' = [q \in DOMAIN points \cup {p} |->
                        IF q = p THEN [doc |-> c.doc, text |-> c.text,
                                       vector |-> Embedding(c.text)]
                        ELSE points[q]]
      BY <2>2, <3>1 DEF WritesNow, Stored
    <3>3. DOMAIN points' = DOMAIN points \cup {p}
      BY <3>2
    <3>4. IsFiniteSet(DOMAIN points)'
      BY <3>3, FS_AddElement DEF VectorInv
    <3>5. ASSUME NEW q \in DOMAIN points'
          PROVE  points'[q].vector = Embedding(points'[q].text)
      <4>1. CASE q = p
        BY <3>2, <4>1
      <4>2. CASE q # p
        BY <3>2, <4>2 DEF VectorInv, OwnVector
      <4> QED
        BY <4>1, <4>2
    <3>6. OwnVector'
      BY <3>5 DEF OwnVector
    <3> QED
      BY <3>4, <3>6
  <2> QED
    BY <2>1, <2>2, StoreSteps DEF GivesUp
<1>2. ASSUME NEW u \in late'
      PROVE  /\ u.vector = Embedding(u.chunk.text)
             /\ \/ u.chunk \in CorpusChunk
                \/ \E g \in Request : ChunkOf(u.chunk, g)' /\ handler'[g].status = "error"
  <2>1. CASE u \in late
    <3>1. u.vector = Embedding(u.chunk.text)
      BY <2>1 DEF VectorInv
    <3>2. CASE u.chunk \in CorpusChunk
      BY <3>1, <3>2
    <3>3. ASSUME NEW g \in Request, ChunkOf(u.chunk, g), handler[g].status = "error"
          PROVE  ChunkOf(u.chunk, g)' /\ handler'[g].status = "error"
      <4>1. handler[g].pc = "answered"
        <5>1. handler[g].pc # "new"
          BY <1>0, <3>3, OpStays DEF ChunkOf
        <5> QED
          BY <3>3, <5>1, HandlerIs
      <4>2. handler'[g] = handler[g]
        BY <1>0, <4>1 DEF Keeps
      <4> QED
        BY <1>0, <3>3, <4>2, ChunkOfStays
    <3> QED
      BY <2>1, <3>1, <3>2, <3>3 DEF LateInv
  <2>2. CASE u \notin late
    <3>1. PICK e : GivesUp(e)
      BY <2>2, StoreSteps DEF WritesNow
    <3>2. u = e
      BY <2>2, <3>1 DEF GivesUp
    <3>3. \A g \in Request : ChunkOf(u.chunk, g) => ChunkOf(u.chunk, g)'
      BY <1>0, ChunkOfStays
    <3> QED
      BY <3>1, <3>2, <3>3 DEF GivesUp
  <2> QED
    BY <2>1, <2>2
<1>3. ASSUME NEW h \in Request, handler'[h].pc = "embedded"
      PROVE  handler'[h].vector = Embedding(Current(h)'.text)
  <2>1. CASE handler'[h] = handler[h]
    BY <1>3, <2>1 DEF VectorInv, Current
  <2>2. CASE handler'[h] # handler[h]
    <3>1. PICK g \in Request : Handle(g) \/ Receive(g)
      BY <2>2, ServerSteps DEF serverVars, Respond, Die
    <3>2. CASE Receive(g)
      BY <1>3, <2>2, <3>2, ReceiveKeeps
    <3>3. CASE Handle(g)
      <4>1. g = h /\ Read(h)
        BY <1>3, <2>2, <3>3, HandleKinds
      <4>2. handler'[h].vector = Embedding(Current(h).text)
        BY <4>1, PipesRead
      <4>3. handler'[h].chunks = handler[h].chunks /\ handler'[h].k = handler[h].k
        <5>1. ~IngestChunk(h)
          BY <4>1 DEF Read, IngestChunk
        <5> QED
          BY <3>3, <4>1, <5>1, HandleKinds
      <4> QED
        BY <4>2, <4>3 DEF Current
    <3> QED
      BY <3>1, <3>2, <3>3
  <2> QED
    BY <2>1, <2>2
<1>4. VectorInv'
  BY <1>1, <1>2, <1>3 DEF VectorInv
<1>5. LateInv'
  BY <1>2 DEF LateInv
<1> QED
  BY <1>4, <1>5

-----------------------------------------------------------------------------
(* The queue and the workers *)

\* The batch variables that a step which is none of these changes: none.
LEMMA BatchSteps ==
    ASSUME [Next]_vars
    PROVE  \/ UNCHANGED batchVars
           \/ Produce /\ UNCHANGED work
           \/ \E cmd \in proposed : CommitStep(cmd)
           \/ \E w \in Worker : /\ Work(w) \/ Crash(w) \/ \E t \in Task : Poll(w, t)
                                /\ UNCHANGED <<producer, payload, order, outcomes>>
<1>1. CASE (\E p \in Process : Start(p)) \/ Land \/ Serve(ServerNext)
  BY <1>1 DEF Start, Land, Serve
<1>2. CASE Batch(BatchNext)
  <2>1. CASE Produce
    <3>1. UNCHANGED work
      BY <2>1 DEF Produce, SubmitHop, SubmitOk, SubmitRefused, SubmitReturns, SubmitFails,
                  AllSubmitted, GetResult
    <3> QED
      BY <2>1, <3>1
  <2>2. ASSUME NEW w \in Worker, Work(w) \/ Crash(w) \/ \E t \in Task : Poll(w, t)
        PROVE  UNCHANGED <<producer, payload, order, outcomes>>
    <3>1. CASE Embed(w) \/ EmbedFails(w) \/ Upsert(w)
      BY <3>1 DEF Embed, EmbedFails, Upsert, queueVars
    <3>2. CASE CompleteHop(w) \/ Completed(w) \/ Crash(w)
      BY <3>2 DEF CompleteHop, Completed, Crash, Propose
    <3>3. CASE \E t \in Task : Poll(w, t)
      BY <3>3 DEF Poll, Lend
    <3> QED
      BY <2>2, <3>1, <3>2, <3>3 DEF Work
  <2> QED
    BY <1>2, <2>1, <2>2 DEF Batch, BatchNext
<1>3. CASE UNCHANGED vars
  BY <1>3 DEF vars
<1> QED
  BY <1>1, <1>2, <1>3 DEF Next

\* The queue changes when the producer submits, when a worker reports and when
\* a command is committed.
LEMMA QueueSteps ==
    ASSUME [Next]_vars
    PROVE  \/ UNCHANGED <<payload, proposed, order, outcomes>>
           \/ SubmitHop
           \/ \E cmd \in proposed : CommitStep(cmd)
           \/ \E w \in Worker : CompleteHop(w)
<1>1. CASE UNCHANGED batchVars
  BY <1>1 DEF batchVars, queueVars
<1>2. CASE Produce
  BY <1>2 DEF Produce, SubmitOk, SubmitRefused, SubmitReturns, SubmitFails, AllSubmitted,
              GetResult, queueVars
<1>3. ASSUME NEW w \in Worker, Work(w) \/ Crash(w) \/ \E t \in Task : Poll(w, t),
             UNCHANGED <<producer, payload, order, outcomes>>, ~CompleteHop(w)
      PROVE  UNCHANGED <<payload, proposed, order, outcomes>>
  <2>1. CASE Embed(w) \/ EmbedFails(w) \/ Upsert(w)
    BY <2>1 DEF Embed, EmbedFails, Upsert, queueVars
  <2>2. CASE Completed(w) \/ Crash(w)
    BY <2>2 DEF Completed, Crash
  <2>3. CASE \E t \in Task : Poll(w, t)
    BY <2>3 DEF Poll, Lend
  <2> QED
    BY <1>3, <2>1, <2>2, <2>3 DEF Work
<1> QED
  BY <1>1, <1>2, <1>3, BatchSteps

\* What was drawn, queued and recorded.
LEMMA QueueIs ==
    ASSUME QueueInv
    PROVE  /\ Submitted \subseteq DOMAIN payload /\ DOMAIN payload \subseteq Task
           /\ DOMAIN payload = 1..Len(payload) /\ Len(payload) \in Nat
           /\ \A t \in DOMAIN payload : payload[t] \in CorpusChunk /\ payload[t].id \in ChunkId
<1>1. payload \in Seq(CorpusChunk) /\ order \in Seq(DOMAIN payload)
  BY DEF QueueInv
<1>2. \A t \in DOMAIN payload : payload[t] \in CorpusChunk
  BY <1>1
<1>3. Submitted \subseteq DOMAIN payload
  BY <1>1 DEF Submitted, Range
<1> QED
  BY <1>1, <1>2, <1>3, CorpusIs DEF QueueInv

\* The commands of the two kinds differ.
LEMMA CommandsDiffer ==
    \A s, t, r : /\ SubmitCmd(s) # CompleteCmd(t, r)
                 /\ \A q : CompleteCmd(s, q) = CompleteCmd(t, r) => s = t /\ q = r
                 /\ SubmitCmd(s).op = "submit" /\ SubmitCmd(s).id = s
                 /\ CompleteCmd(t, r).op = "complete" /\ CompleteCmd(t, r).id = t
                 /\ CompleteCmd(t, r).data = r
  BY DEF SubmitCmd, CompleteCmd

\* The producer draws the next id for its next chunk.
LEMMA HopIs ==
    ASSUME QueueInv, ProducerInv, SubmitHop
    PROVE  LET t == Len(payload) + 1 IN
           /\ t \in Task /\ t \notin DOMAIN payload
           /\ payload' \in Seq(CorpusChunk)
           /\ DOMAIN payload' = DOMAIN payload \cup {t}
           /\ \A s \in DOMAIN payload : payload'[s] = payload[s]
           /\ payload'[t] = CorpusChunks[Len(producer.taskIDs) + 1]
           /\ proposed' = proposed \cup {SubmitCmd(t)}
           /\ UNCHANGED <<order, outcomes, lent, work>>
<1> DEFINE t == Len(payload) + 1
<1>1. PICK n \in Nat : n = Len(producer.taskIDs)
  <2>1. producer.taskIDs \in Seq(DOMAIN payload \cup {NoId})
    BY DEF ProducerInv
  <2> QED
    BY <2>1
<1>2. n + 1 \in DOMAIN CorpusChunks
  BY <1>1, CorpusIs DEF SubmitHop, Submitting
<1>3. PICK c \in CorpusChunk : c = CorpusChunks[n + 1]
  BY <1>2 DEF CorpusChunk, Range
<1>4. payload' = Append(payload, c) /\ payload \in Seq(CorpusChunk)
  BY <1>1, <1>3 DEF SubmitHop, QueueInv
<1>5. /\ payload' \in Seq(CorpusChunk) /\ DOMAIN payload' = DOMAIN payload \cup {t}
      /\ t \notin DOMAIN payload
      /\ \A s \in DOMAIN payload : payload'[s] = payload[s]
      /\ payload'[t] = c
  BY <1>4
<1>6. /\ t \in Task /\ proposed' = proposed \cup {SubmitCmd(t)}
      /\ UNCHANGED <<order, outcomes, lent, work>>
  BY DEF SubmitHop, Propose
<1> QED
  BY <1>1, <1>3, <1>5, <1>6

\* A command that is committed queues its task or records its result.
LEMMA CommitIs ==
    ASSUME QueueInv, NEW cmd \in proposed, CommitStep(cmd)
    PROVE  /\ UNCHANGED <<payload, lent, work, producer>> /\ proposed' = proposed \ {cmd}
           /\ cmd.id \in DOMAIN payload
           /\ \/ /\ cmd = SubmitCmd(cmd.id) /\ UNCHANGED outcomes
                 /\ order' \in Seq(DOMAIN payload) /\ Submitted' = Submitted \cup {cmd.id}
              \/ /\ cmd.data \in Result /\ cmd = CompleteCmd(cmd.id, cmd.data)
                 /\ UNCHANGED order /\ Submitted' = Submitted /\ cmd.id \in Submitted
                 /\ outcomes' \in [Task -> SUBSET Result]
                 /\ outcomes'[cmd.id] = outcomes[cmd.id] \cup {cmd.data}
                 /\ \A t \in Task \ {cmd.id} : outcomes'[t] = outcomes[t]
<1>1. UNCHANGED <<payload, lent, work, producer>> /\ proposed' = proposed \ {cmd}
  BY DEF CommitStep, Commit
<1>2. /\ cmd.id \in DOMAIN payload
      /\ \/ cmd = SubmitCmd(cmd.id)
         \/ cmd.data \in Result /\ cmd = CompleteCmd(cmd.id, cmd.data)
  BY DEF QueueInv
<1>3. order \in Seq(DOMAIN payload) /\ outcomes \in [Task -> SUBSET Result]
  BY DEF QueueInv
<1>4. CASE cmd = SubmitCmd(cmd.id)
  <2>1. cmd.op = "submit"
    BY <1>4 DEF SubmitCmd
  <2>2. order' = Append(order, cmd.id) /\ UNCHANGED outcomes
    BY <2>1 DEF CommitStep, Commit
  <2>3. PICK t \in DOMAIN payload : t = cmd.id
    BY <1>2
  <2>4. /\ order' \in Seq(DOMAIN payload)
        /\ DOMAIN order' = DOMAIN order \cup {Len(order) + 1}
        /\ Len(order) + 1 \notin DOMAIN order
        /\ \A k \in DOMAIN order : order'[k] = order[k]
        /\ order'[Len(order) + 1] = t
    BY <1>3, <2>2, <2>3
  <2>5. Submitted' = Submitted \cup {cmd.id}
    BY <2>3, <2>4 DEF Submitted, Range
  <2> QED
    BY <1>1, <1>2, <1>4, <2>2, <2>4, <2>5
<1>5. CASE cmd.data \in Result /\ cmd = CompleteCmd(cmd.id, cmd.data)
  <2>1. cmd.op = "complete"
    BY <1>5 DEF CompleteCmd
  <2>2. /\ UNCHANGED order /\ cmd.id \in Submitted
        /\ outcomes' = [outcomes EXCEPT ![cmd.id] = @ \cup {cmd.data}]
    BY <2>1 DEF CommitStep, Commit
  <2>3. PICK t \in Task, r \in Result : t = cmd.id /\ r = cmd.data
    BY <1>2, <1>5, QueueIs
  <2>4. outcomes' = [outcomes EXCEPT ![t] = @ \cup {r}]
    BY <2>2, <2>3
  <2>5. /\ outcomes' \in [Task -> SUBSET Result]
        /\ outcomes'[t] = outcomes[t] \cup {r}
        /\ \A s \in Task \ {t} : outcomes'[s] = outcomes[s]
    BY <1>3, <2>4
  <2>6. Submitted' = Submitted
    BY <2>2 DEF Submitted
  <2> QED
    BY <1>1, <1>2, <1>5, <2>2, <2>3, <2>5, <2>6
<1> QED
  BY <1>2, <1>4, <1>5

\* The result that a worker reports.
LEMMA ReportIs ==
    ASSUME WorkInv, NEW w \in Worker, CompleteHop(w)
    PROVE  /\ lent[w] \in Submitted
           /\ work[w].result \in Result /\ work[w] = Report(work[w].result)
           /\ proposed' = proposed \cup {CompleteCmd(lent[w], work[w].result)}
           /\ UNCHANGED <<producer, payload, work, order, outcomes, lent>>
<1>1. work[w].pc = "report"
  BY DEF CompleteHop, At
<1>2. work[w] # Idle
  BY <1>1 DEF Idle
<1>3. lent[w] \in Submitted
  BY <1>2 DEF WorkInv
<1>4. PICK r \in Result : work[w] = Report(r)
  BY <1>1, <1>2 DEF WorkInv
<1>5. work[w].result = r
  BY <1>4 DEF Report
<1> QED
  BY <1>3, <1>4, <1>5 DEF CompleteHop, Propose, Completion

\* The queue keeps its invariant, and only grows.
QueueGrows ==
    /\ DOMAIN payload \subseteq DOMAIN payload' /\ Submitted \subseteq Submitted'
    /\ \A t \in DOMAIN payload : payload'[t] = payload[t]
    /\ \A t \in Task : outcomes[t] \subseteq outcomes'[t]

\* Each kind of step.
LEMMA QueueStep ==
    ASSUME QueueInv, WorkInv, ProducerInv, [Next]_vars
    PROVE  QueueInv' /\ QueueGrows
<1>0. /\ payload \in Seq(CorpusChunk) /\ DOMAIN payload \subseteq Task
      /\ order \in Seq(DOMAIN payload)
      /\ outcomes \in [Task -> SUBSET Result]
      /\ \A t \in Task : Done(t) => t \in Submitted
      /\ \A cmd \in proposed :
           /\ cmd.id \in DOMAIN payload
           /\ \/ cmd = SubmitCmd(cmd.id)
              \/ cmd.data \in Result /\ cmd = CompleteCmd(cmd.id, cmd.data)
  BY DEF QueueInv
<1>1. CASE UNCHANGED <<payload, proposed, order, outcomes>>
  BY <1>0, <1>1 DEF QueueInv, QueueGrows, Submitted, Done
<1>2. CASE SubmitHop
  <2> DEFINE t == Len(payload) + 1
  <2>1. /\ t \in Task /\ payload' \in Seq(CorpusChunk)
        /\ DOMAIN payload' = DOMAIN payload \cup {t}
        /\ \A s \in DOMAIN payload : payload'[s] = payload[s]
        /\ proposed' = proposed \cup {SubmitCmd(t)}
        /\ UNCHANGED <<order, outcomes>>
    BY <1>2, HopIs
  <2> HIDE DEF t
  <2>2. order' \in Seq(DOMAIN payload')
    BY <1>0, <2>1
  <2>3. Submitted' = Submitted
    BY <2>1 DEF Submitted
  <2>4. ASSUME NEW cmd \in proposed'
        PROVE  /\ cmd.id \in DOMAIN payload'
               /\ \/ cmd = SubmitCmd(cmd.id)
                  \/ cmd.data \in Result /\ cmd = CompleteCmd(cmd.id, cmd.data)
    <3>1. CASE cmd \in proposed
      BY <1>0, <2>1, <3>1
    <3>2. CASE cmd = SubmitCmd(t)
      BY <2>1, <3>2, CommandsDiffer
    <3> QED
      BY <2>1, <3>1, <3>2
  <2>5. \A s \in Task : Done(s)' => s \in Submitted'
    BY <1>0, <2>1, <2>3 DEF Done
  <2> QED
    BY <1>0, <2>1, <2>2, <2>3, <2>4, <2>5 DEF QueueInv, QueueGrows, SubmitCmd, CompleteCmd
<1>3. ASSUME NEW cmd \in proposed, CommitStep(cmd)
      PROVE  QueueInv' /\ QueueGrows
  <2>1. UNCHANGED payload /\ proposed' \subseteq proposed
    BY <1>3, CommitIs
  <2>2. CASE /\ cmd = SubmitCmd(cmd.id) /\ UNCHANGED outcomes
             /\ order' \in Seq(DOMAIN payload) /\ Submitted' = Submitted \cup {cmd.id}
    BY <1>0, <2>1, <2>2 DEF QueueInv, QueueGrows, Done, SubmitCmd, CompleteCmd
  <2>3. CASE /\ cmd.data \in Result /\ cmd = CompleteCmd(cmd.id, cmd.data)
             /\ UNCHANGED order /\ Submitted' = Submitted /\ cmd.id \in Submitted
             /\ outcomes' \in [Task -> SUBSET Result]
             /\ outcomes'[cmd.id] = outcomes[cmd.id] \cup {cmd.data}
             /\ \A t \in Task \ {cmd.id} : outcomes'[t] = outcomes[t]
    <3>1. \A t \in Task : outcomes[t] \subseteq outcomes'[t]
      BY <2>3
    <3>2. ASSUME NEW t \in Task, Done(t)'
          PROVE  t \in Submitted'
      BY <1>0, <2>3, <3>2 DEF Done
    <3> QED
      BY <1>0, <2>1, <2>3, <3>1, <3>2 DEF QueueInv, QueueGrows, SubmitCmd, CompleteCmd
  <2> QED
    BY <1>3, <2>2, <2>3, CommitIs
<1>4. ASSUME NEW w \in Worker, CompleteHop(w)
      PROVE  QueueInv' /\ QueueGrows
  <2>1. PICK t \in Submitted, r \in Result :
            proposed' = proposed \cup {CompleteCmd(t, r)}
    BY <1>4, ReportIs
  <2>2. UNCHANGED <<payload, order, outcomes>> /\ t \in DOMAIN payload
    BY <1>4, ReportIs, QueueIs
  <2>3. ASSUME NEW cmd \in proposed'
        PROVE  /\ cmd.id \in DOMAIN payload'
               /\ \/ cmd = SubmitCmd(cmd.id)
                  \/ cmd.data \in Result /\ cmd = CompleteCmd(cmd.id, cmd.data)
    <3>1. CASE cmd \in proposed
      BY <1>0, <2>2, <3>1
    <3>2. CASE cmd = CompleteCmd(t, r)
      BY <2>2, <3>2, CommandsDiffer
    <3> QED
      BY <2>1, <3>1, <3>2
  <2> QED
    BY <1>0, <2>2, <2>3 DEF QueueInv, QueueGrows, Submitted, Done, SubmitCmd, CompleteCmd
<1> QED
  BY <1>1, <1>2, <1>3, <1>4, QueueSteps

-----------------------------------------------------------------------------
(* Workers *)

\* What WorkInv says of one worker.
Works(w) ==
    \/ work[w] = Idle
    \/ /\ lent[w] \in Submitted
       /\ \/ work[w] = [pc |-> "embed"]
          \/ work[w] = [pc |-> "upsert", vector |-> Embedding(Chunk(w).text)]
          \/ \E r \in Result : work[w] = Report(r)

\* It follows from what WorkInv says of its step and the task it holds.
LEMMA WorksThen ==
    ASSUME NEW w \in Worker, lent'[w] \in Submitted',
           \/ work'[w] = [pc |-> "embed"]
           \/ work'[w] = [pc |-> "upsert", vector |-> Embedding(Chunk(w)'.text)]
           \/ \E r \in Result : work'[w] = Report(r)
    PROVE  Works(w)'
  BY DEF Works, Report

\* A worker that does not move keeps its chunk and stays as it should be.
LEMMA WorkRests ==
    ASSUME QueueInv, WorkInv, QueueGrows, NEW w \in Worker,
           work'[w] = work[w], lent'[w] = lent[w]
    PROVE  Works(w)' /\ (work[w] # Idle => Chunk(w)' = Chunk(w))
<1>1. CASE work[w] = Idle
  <2>1. work'[w] = Idle
    BY <1>1
  <2> QED
    BY <1>1, <2>1 DEF Works, Idle
<1>2. CASE work[w] # Idle
  <2>1. lent[w] \in Submitted /\ lent[w] \in DOMAIN payload
    BY <1>2, QueueIs DEF WorkInv
  <2>2. Chunk(w)' = Chunk(w)
    BY <2>1 DEF Chunk, QueueGrows
  <2>3. lent'[w] \in Submitted'
    BY <2>1 DEF QueueGrows
  <2>4. \/ work'[w] = [pc |-> "embed"]
        \/ work'[w] = [pc |-> "upsert", vector |-> Embedding(Chunk(w)'.text)]
        \/ \E r \in Result : work'[w] = Report(r)
    BY <1>2, <2>2 DEF WorkInv
  <2> QED
    BY <2>2, <2>3, <2>4, WorksThen
<1> QED
  BY <1>1, <1>2

\* Worker w is at s now, and the others are where they were.
Placed(w, s) ==
    /\ DOMAIN work' = Worker /\ work'[w] = s
    /\ \A v \in Worker \ {w} : work'[v] = work[v]

\* A worker's step gives it task l and place s.
Goes(w, l, s) ==
    /\ l \in Submitted \cup {None}
    /\ lent' = [lent EXCEPT ![w] = l]
    /\ Placed(w, s)
    /\ \/ s = Idle
       \/ /\ l \in Submitted
          /\ \/ s = [pc |-> "embed"]
             \/ s = [pc |-> "upsert", vector |-> Embedding(payload[l].text)]
             \/ \E r \in Result : s = Report(r)
    /\ s = Report("success") =>
         \/ s = work[w] /\ l = lent[w]
         \/ At(w, "upsert") /\ l = lent[w] /\ UpsertChunk(Chunk(w), work[w].vector)

\* Each kind of step of a worker.
LEMMA WorkerMoves ==
    ASSUME QueueInv, WorkInv, NEW w \in Worker,
           Work(w) \/ Crash(w) \/ \E t \in Task : Poll(w, t)
    PROVE  \E l, s : Goes(w, l, s)
<1>1. /\ DOMAIN lent = Worker /\ DOMAIN work = Worker
      /\ lent[w] \in Submitted \cup {None}
  BY DEF WorkInv
<1>2. /\ UNCHANGED lent => lent' = [lent EXCEPT ![w] = lent[w]]
      /\ UNCHANGED work => Placed(w, work[w])
      /\ \A s : Goto(w, s) => Placed(w, s)
  BY <1>1 DEF WorkInv, Placed, Goto
<1>3. work[w].pc \in {"embed", "upsert", "report"} => lent[w] \in Submitted
  BY DEF WorkInv, Idle, Report
<1>4. /\ "success" \in Result /\ "error" \in Result
      /\ Report("error") # Report("success") /\ Idle # Report("success")
      /\ [pc |-> "embed"] # Report("success")
      /\ \A v : [pc |-> "upsert", vector |-> v] # Report("success")
  BY PipelineAssumption DEF Report, Idle
<1>5. CASE Embed(w)
  <2> DEFINE s == [pc |-> "upsert", vector |-> Embedding(Chunk(w).text)]
  <2>1. lent[w] \in Submitted /\ UNCHANGED lent /\ Goto(w, s)
    BY <1>3, <1>5 DEF Embed, At, queueVars
  <2>2. s # Report("success") /\ s = [pc |-> "upsert", vector |-> Embedding(payload[lent[w]].text)]
    BY <1>4 DEF Chunk
  <2> HIDE DEF s
  <2>3. Goes(w, lent[w], s)
    BY <1>2, <2>1, <2>2 DEF Goes
  <2> QED
    BY <2>3
<1>6. CASE EmbedFails(w)
  <2>1. lent[w] \in Submitted /\ UNCHANGED lent /\ Goto(w, Report("error"))
    BY <1>3, <1>6 DEF EmbedFails, At, queueVars
  <2>2. Goes(w, lent[w], Report("error"))
    BY <1>2, <1>4, <2>1, Zenon DEF Goes
  <2> QED
    BY <2>2
<1>7. CASE Upsert(w)
  <2>1. lent[w] \in Submitted /\ UNCHANGED lent /\ At(w, "upsert")
    BY <1>3, <1>7 DEF Upsert, At, queueVars
  <2>2. CASE UpsertChunk(Chunk(w), work[w].vector) /\ Goto(w, Report("success"))
    <3>1. Goes(w, lent[w], Report("success"))
      BY <1>2, <1>4, <2>1, <2>2, Zenon DEF Goes
    <3> QED
      BY <3>1
  <2>3. CASE Goto(w, Report("error"))
    <3>1. Goes(w, lent[w], Report("error"))
      BY <1>2, <1>4, <2>1, <2>3, Zenon DEF Goes
    <3> QED
      BY <3>1
  <2> QED
    BY <1>7, <2>2, <2>3 DEF Upsert, FailedUpsert
<1>8. CASE CompleteHop(w)
  <2>1. lent[w] \in Submitted /\ \E r \in Result : work[w] = Report(r)
    BY <1>8, ReportIs
  <2>2. UNCHANGED <<lent, work>>
    BY <1>8, ReportIs
  <2>3. Goes(w, lent[w], work[w])
    BY <1>2, <2>1, <2>2, Zenon DEF Goes
  <2> QED
    BY <2>3
<1>9. CASE Completed(w) \/ Crash(w)
  <2>1. Goes(w, None, Idle)
    BY <1>2, <1>4, <1>9 DEF Completed, Crash, Goes
  <2> QED
    BY <2>1
<1>10. CASE \E t \in Task : Poll(w, t)
  <2>1. PICK t \in Submitted : /\ lent' = [lent EXCEPT ![w] = t]
                               /\ Goto(w, [pc |-> "embed"])
    BY <1>10 DEF Poll, Lend
  <2>2. Goes(w, t, [pc |-> "embed"])
    BY <1>2, <1>4, <2>1, Zenon DEF Goes
  <2> QED
    BY <2>2
<1> QED
  BY <1>5, <1>6, <1>7, <1>8, <1>9, <1>10 DEF Work

\* WorkInv holds after every step.
LEMMA WorkStep ==
    ASSUME QueueInv, WorkInv, ProducerInv, QueueGrows, [Next]_vars
    PROVE  WorkInv'
<1>1. lent \in [Worker -> Submitted \cup {None}] /\ DOMAIN work = Worker
  BY DEF WorkInv
<1>2. Submitted \subseteq Submitted'
  BY DEF QueueGrows
<1>3. ASSUME UNCHANGED <<lent, work>>
      PROVE  WorkInv'
  <2>1. \A w \in Worker : Works(w)'
    BY <1>3, WorkRests
  <2>2. lent' \in [Worker -> Submitted' \cup {None}] /\ DOMAIN work' = Worker
    BY <1>1, <1>2, <1>3
  <2> QED
    BY <2>1, <2>2 DEF WorkInv, Works
<1>4. CASE UNCHANGED batchVars
  BY <1>3, <1>4 DEF batchVars, queueVars
<1>5. CASE Produce /\ UNCHANGED work
  <2>1. UNCHANGED lent
    BY <1>5 DEF Produce, SubmitHop, SubmitOk, SubmitRefused, SubmitReturns, SubmitFails,
                AllSubmitted, GetResult, queueVars, Propose
  <2> QED
    BY <1>3, <1>5, <2>1
<1>6. CASE \E cmd \in proposed : CommitStep(cmd)
  BY <1>3, <1>6, CommitIs
<1>7. ASSUME NEW w \in Worker, Work(w) \/ Crash(w) \/ \E t \in Task : Poll(w, t),
             UNCHANGED <<producer, payload, order, outcomes>>
      PROVE  WorkInv'
  <2>1. PICK l, s : Goes(w, l, s)
    BY <1>7, WorkerMoves
  <2>2. /\ l \in Submitted \cup {None}
        /\ lent' = [lent EXCEPT ![w] = l] /\ DOMAIN work' = Worker /\ work'[w] = s
        /\ \A v \in Worker \ {w} : work'[v] = work[v]
    BY <2>1 DEF Goes, Placed
  <2>3. lent' \in [Worker -> Submitted' \cup {None}] /\ DOMAIN work' = Worker
    BY <1>1, <1>2, <2>2
  <2>4. lent'[w] = l /\ work'[w] = s
    BY <1>1, <2>2
  <2>5. Chunk(w)' = payload[l]
    BY <1>7, <2>4 DEF Chunk
  <2>6. Works(w)'
    <3>1. CASE s = Idle
      BY <2>4, <3>1 DEF Works, Idle
    <3>2. CASE s # Idle
      <4>1. l \in Submitted'
        BY <1>2, <2>1, <3>2 DEF Goes
      <4>2. \/ s = [pc |-> "embed"]
            \/ s = [pc |-> "upsert", vector |-> Embedding(Chunk(w)'.text)]
            \/ \E r \in Result : s = Report(r)
        BY <2>1, <2>5, <3>2 DEF Goes
      <4> QED
        BY <2>4, <4>1, <4>2, WorksThen
    <3> QED
      BY <3>1, <3>2
  <2>7. \A v \in Worker \ {w} : lent'[v] = lent[v] /\ work'[v] = work[v]
    BY <1>1, <2>2
  <2>8. \A v \in Worker : Works(v)'
    BY <2>6, <2>7, WorkRests
  <2> QED
    BY <2>3, <2>8 DEF WorkInv, Works
<1> QED
  BY <1>4, <1>5, <1>6, <1>7, BatchSteps

\* A task whose success is recorded or proposed after a step was drawn before
\* it, and its chunk was stored before it.
LEMMA SuccessFrom ==
    ASSUME QueueInv, WorkInv, ProducerInv, SuccessInv, [Next]_vars,
           NEW t \in DOMAIN payload',
           "success" \in outcomes'[t] \/ CompleteCmd(t, "success") \in proposed'
    PROVE  t \in DOMAIN payload /\ IsStored(payload[t])
<1>1. ASSUME t \in Task, "success" \in outcomes[t] \/ CompleteCmd(t, "success") \in proposed
      PROVE  t \in DOMAIN payload /\ IsStored(payload[t])
  <2>1. t \in DOMAIN payload
    <3>1. CASE "success" \in outcomes[t]
      <4>1. Done(t)
        BY <3>1 DEF Done
      <4> QED
        BY <1>1, <4>1, QueueIs DEF QueueInv
    <3>2. CASE CompleteCmd(t, "success") \in proposed
      <4>1. CompleteCmd(t, "success").id = t
        BY CommandsDiffer
      <4>2. CompleteCmd(t, "success").id \in DOMAIN payload
        BY <3>2 DEF QueueInv
      <4> QED
        BY <4>1, <4>2
    <3> QED
      BY <1>1, <3>1, <3>2
  <2> QED
    BY <1>1, <2>1 DEF SuccessInv
<1>2. CASE UNCHANGED <<payload, proposed, order, outcomes>>
  BY <1>1, <1>2, QueueIs
<1>3. CASE SubmitHop
  <2>1. PICK n \in Task : /\ proposed' = proposed \cup {SubmitCmd(n)}
                          /\ DOMAIN payload' = DOMAIN payload \cup {n}
    BY <1>3, HopIs
  <2>2. UNCHANGED outcomes /\ t \in Task
    BY <1>3, <2>1, HopIs, QueueIs
  <2>3. CompleteCmd(t, "success") # SubmitCmd(n)
    BY CommandsDiffer
  <2> QED
    BY <1>1, <2>1, <2>2, <2>3
<1>4. ASSUME NEW cmd \in proposed, CommitStep(cmd)
      PROVE  t \in DOMAIN payload /\ IsStored(payload[t])
  <2>1. UNCHANGED payload /\ proposed' \subseteq proposed /\ t \in Task
    BY <1>4, CommitIs, QueueIs
  <2>2. "success" \in outcomes'[t] =>
            "success" \in outcomes[t] \/ cmd = CompleteCmd(t, "success")
    <3>1. CASE UNCHANGED outcomes
      BY <3>1
    <3>2. CASE /\ cmd = CompleteCmd(cmd.id, cmd.data)
               /\ outcomes'[cmd.id] = outcomes[cmd.id] \cup {cmd.data}
               /\ \A s \in Task \ {cmd.id} : outcomes'[s] = outcomes[s]
      BY <2>1, <3>2
    <3> QED
      BY <1>4, <3>1, <3>2, CommitIs
  <2> QED
    BY <1>1, <1>4, <2>1, <2>2
<1>5. ASSUME NEW w \in Worker, CompleteHop(w)
      PROVE  t \in DOMAIN payload /\ IsStored(payload[t])
  <2>1. PICK r \in Result : r = work[w].result /\ work[w] = Report(r)
    BY <1>5, ReportIs
  <2>2. /\ proposed' = proposed \cup {CompleteCmd(lent[w], r)}
        /\ UNCHANGED <<payload, outcomes>> /\ t \in Task
    BY <1>5, <2>1, ReportIs, QueueIs
  <2>3. CASE CompleteCmd(t, "success") = CompleteCmd(lent[w], r)
    <3>1. t = lent[w] /\ r = "success"
      BY <2>3, CommandsDiffer
    <3>2. IsStored(Chunk(w))
      BY <2>1, <3>1 DEF SuccessInv
    <3> QED
      BY <2>2, <3>1, <3>2 DEF Chunk
  <2> QED
    BY <1>1, <2>2, <2>3
<1> QED
  BY <1>2, <1>3, <1>4, <1>5, QueueSteps

\* The chunk that an upsert without an error has written is stored.
LEMMA UpsertStores ==
    ASSUME NEW c \in CorpusChunk, NEW v, UpsertChunk(c, v)
    PROVE  IsStored(c)'
<1>1. c.id \in ChunkId /\ InCorpus(c.id, c.text)
  BY CorpusIs
<1>2. points' = Stored(c, v)
  BY DEF UpsertChunk
<1>3. ChunkIDToUUID(c.id) \in DOMAIN points' /\ TextAt(c.id)' = c.text
  BY <1>1, <1>2, TextAfter
<1>4. InCorpus(c.id, TextAt(c.id)')
  BY <1>1, <1>3
<1> QED
  BY <1>3, <1>4 DEF IsStored, ChunkIDToUUID, InCorpus

\* What is stored before a step is stored after it.
LEMMA StillStored ==
    ASSUME QueueInv, WorkInv, HandlerInv, VectorInv, LateInv, Keeps, [Next]_vars,
           NEW d, d.id \in ChunkId, IsStored(d)
    PROVE  IsStored(d)'
<1>1. points' = points \/ \E c : WritesNow(c)
  BY StoreSteps DEF GivesUp
<1> QED
  BY <1>1, StoredStays

\* SuccessInv holds after every step.
LEMMA SuccessStep ==
    ASSUME QueueInv, WorkInv, ProducerInv, SuccessInv, HandlerInv, VectorInv, LateInv,
           QueueGrows, Keeps, [Next]_vars
    PROVE  SuccessInv'
<1>1. ASSUME NEW t \in DOMAIN payload',
             "success" \in outcomes'[t] \/ CompleteCmd(t, "success") \in proposed'
      PROVE  IsStored(payload[t])'
  <2>1. t \in DOMAIN payload /\ IsStored(payload[t])
    BY <1>1, SuccessFrom
  <2>2. PICK d : d = payload[t]
    OBVIOUS
  <2>3. d.id \in ChunkId /\ payload'[t] = d
    BY <2>1, <2>2, QueueIs DEF QueueGrows
  <2>4. IsStored(d)'
    BY <2>1, <2>2, <2>3, StillStored
  <2> QED
    BY <2>3, <2>4
<1>2. ASSUME NEW w \in Worker, work'[w] = Report("success")
      PROVE  IsStored(Chunk(w))'
  <2>1. Report("success") # Idle
    BY DEF Report, Idle
  <2>2. ASSUME work'[w] = work[w], lent'[w] = lent[w]
        PROVE  IsStored(Chunk(w))'
    <3>1. IsStored(Chunk(w)) /\ Chunk(w)' = Chunk(w) /\ Chunk(w) \in CorpusChunk
      BY <1>2, <2>1, <2>2, WorkRests, Sources DEF SuccessInv
    <3>2. PICK d : d = Chunk(w)
      OBVIOUS
    <3>3. d.id \in ChunkId
      BY <3>1, <3>2, CorpusIs
    <3>4. IsStored(d)'
      BY <3>1, <3>2, <3>3, StillStored
    <3> QED
      BY <3>1, <3>2, <3>4
  <2>3. CASE UNCHANGED batchVars
    BY <2>2, <2>3 DEF batchVars, queueVars
  <2>4. CASE Produce /\ UNCHANGED work
    <3>1. UNCHANGED lent
      BY <2>4 DEF Produce, SubmitHop, SubmitOk, SubmitRefused, SubmitReturns, SubmitFails,
                  AllSubmitted, GetResult, queueVars, Propose
    <3> QED
      BY <2>2, <2>4, <3>1
  <2>5. CASE \E cmd \in proposed : CommitStep(cmd)
    BY <2>2, <2>5, CommitIs
  <2>6. ASSUME NEW v \in Worker, Work(v) \/ Crash(v) \/ \E t \in Task : Poll(v, t),
               UNCHANGED <<producer, payload, order, outcomes>>
        PROVE  IsStored(Chunk(w))'
    <3>1. PICK l, s : Goes(v, l, s)
      BY <2>6, WorkerMoves
    <3>2. /\ \A u \in Worker \ {v} : work'[u] = work[u] /\ lent'[u] = lent[u]
          /\ work'[v] = s /\ lent'[v] = l
      BY <3>1 DEF Goes, Placed, WorkInv
    <3>3. CASE w # v
      BY <2>2, <3>2, <3>3
    <3>4. CASE w = v
      <4>1. \/ s = work[v] /\ l = lent[v]
            \/ At(v, "upsert") /\ l = lent[v] /\ UpsertChunk(Chunk(v), work[v].vector)
        BY <1>2, <3>1, <3>2, <3>4 DEF Goes
      <4>2. CASE s = work[v] /\ l = lent[v]
        BY <2>2, <3>2, <3>4, <4>2
      <4>3. CASE At(v, "upsert") /\ l = lent[v] /\ UpsertChunk(Chunk(v), work[v].vector)
        <5>1. PICK c, x : c = Chunk(v) /\ x = work[v].vector
          OBVIOUS
        <5>2. c \in CorpusChunk
          BY <4>3, <5>1, Sources DEF At, Idle
        <5>3. UpsertChunk(c, x)
          BY <4>3, <5>1
        <5>4. IsStored(c)'
          BY <5>2, <5>3, UpsertStores
        <5>5. Chunk(w)' = c
          BY <2>6, <3>2, <3>4, <4>3, <5>1 DEF Chunk
        <5> QED
          BY <5>4, <5>5
      <4> QED
        BY <4>1, <4>2, <4>3
    <3> QED
      BY <3>3, <3>4
  <2> QED
    BY <2>3, <2>4, <2>5, <2>6, BatchSteps
<1> QED
  BY <1>1, <1>2 DEF SuccessInv, Report, CompleteCmd

-----------------------------------------------------------------------------
(* The producer *)

\* The conjuncts of ProducerInv, about a queue that has grown: p is the
\* producer's state.
ProducerIs(p) ==
    LET id == DOMAIN payload \cup {NoId} IN
    /\ p \in [pc : {"submit", "failed", "wait", "done"}, taskIDs : Seq(id),
              pending : SUBSET id, hop : id]
    /\ Len(p.taskIDs) <= Len(CorpusChunks)
    /\ \A k \in DOMAIN p.taskIDs :
         p.taskIDs[k] # NoId => payload[p.taskIDs[k]] = CorpusChunks[k]
    /\ p.hop # NoId => payload[p.hop] = CorpusChunks[Len(p.taskIDs) + 1]
    /\ p.pc \in {"wait", "done"} =>
         /\ Len(p.taskIDs) = Len(CorpusChunks)
         /\ \A k \in DOMAIN p.taskIDs :
              p.taskIDs[k] \in p.pending \/ (p.taskIDs[k] \in Task /\ Done(p.taskIDs[k]))
    /\ p.pc = "done" => p.pending = {}

\* They are.
LEMMA ProducerHas == ProducerInv <=> ProducerIs(producer)
  BY DEF ProducerInv, ProducerIs

\* They survive the growth of the queue.
LEMMA ProducerRests ==
    ASSUME QueueInv, QueueInv', QueueGrows, NEW p, ProducerIs(p)
    PROVE  ProducerIs(p)'
<1> DEFINE I == DOMAIN payload \cup {NoId}
           J == DOMAIN payload' \cup {NoId}
<1>1. /\ p \in [pc : {"submit", "failed", "wait", "done"}, taskIDs : Seq(I),
                pending : SUBSET I, hop : I]
      /\ Len(p.taskIDs) <= Len(CorpusChunks)
      /\ \A k \in DOMAIN p.taskIDs :
           p.taskIDs[k] # NoId => payload[p.taskIDs[k]] = CorpusChunks[k]
      /\ p.hop # NoId => payload[p.hop] = CorpusChunks[Len(p.taskIDs) + 1]
      /\ p.pc \in {"wait", "done"} =>
           /\ Len(p.taskIDs) = Len(CorpusChunks)
           /\ \A k \in DOMAIN p.taskIDs :
                p.taskIDs[k] \in p.pending \/ (p.taskIDs[k] \in Task /\ Done(p.taskIDs[k]))
      /\ p.pc = "done" => p.pending = {}
  BY DEF ProducerIs
<1>2. I \subseteq J
  BY DEF QueueGrows
<1>3. \A t \in DOMAIN payload : payload'[t] = payload[t]
  BY DEF QueueGrows
<1>4. \A t \in Task : Done(t) => Done(t)'
  BY DEF QueueGrows, Done
<1> HIDE DEF I, J
<1>5. p \in [pc : {"submit", "failed", "wait", "done"}, taskIDs : Seq(J),
             pending : SUBSET J, hop : J]
  BY <1>1, <1>2
<1>6. /\ \A k \in DOMAIN p.taskIDs : p.taskIDs[k] \in DOMAIN payload \cup {NoId}
      /\ p.hop \in DOMAIN payload \cup {NoId}
  BY <1>1 DEF I
<1>7. /\ \A k \in DOMAIN p.taskIDs :
           p.taskIDs[k] # NoId => payload'[p.taskIDs[k]] = CorpusChunks[k]
      /\ p.hop # NoId => payload'[p.hop] = CorpusChunks[Len(p.taskIDs) + 1]
  BY <1>1, <1>3, <1>6
<1>8. p.pc \in {"wait", "done"} =>
        \A k \in DOMAIN p.taskIDs :
            p.taskIDs[k] \in p.pending \/ (p.taskIDs[k] \in Task /\ Done(p.taskIDs[k])')
  BY <1>1, <1>4
<1> QED
  BY <1>1, <1>5, <1>7, <1>8 DEF ProducerIs, J, Done, CorpusChunks

\* What a producer's step does to its state.
LEMMA ProducerMoves ==
    ASSUME Produce
    PROVE  \/ SubmitHop
           \/ /\ UNCHANGED payload /\ UNCHANGED outcomes /\ Submitting
              /\ \E id \in {producer.hop, NoId} :
                   producer' = [producer EXCEPT !.taskIDs = Append(@, id), !.hop = NoId]
           \/ /\ UNCHANGED payload /\ UNCHANGED outcomes /\ Submitting
              /\ producer' = [producer EXCEPT !.pc = "failed"]
           \/ /\ UNCHANGED payload /\ UNCHANGED outcomes
              /\ producer.pc = "submit" /\ ~Submitting /\ Waiting(Range(producer.taskIDs))
           \/ /\ UNCHANGED payload /\ UNCHANGED outcomes
              /\ producer.pc = "wait"
              /\ \E id \in producer.pending \cap Task : Done(id) /\ Waiting(producer.pending \ {id})
<1>1. CASE SubmitOk \/ SubmitRefused
  BY <1>1 DEF SubmitOk, SubmitRefused, SubmitReturns, queueVars
<1>2. CASE SubmitFails
  BY <1>2 DEF SubmitFails, queueVars
<1>3. CASE AllSubmitted
  BY <1>3 DEF AllSubmitted, queueVars
<1>4. CASE \E id \in producer.pending : GetResult(id)
  BY <1>4 DEF GetResult, ResultIsIn, queueVars
<1> QED
  BY <1>1, <1>2, <1>3, <1>4 DEF Produce

\* ProducerInv holds after every step.
LEMMA ProducerStep ==
    ASSUME QueueInv, QueueInv', QueueGrows, ProducerInv, [Next]_vars
    PROVE  ProducerInv'
<1>1. PICK q, p : q = producer /\ p = producer'
  OBVIOUS
<1>2. ProducerIs(q)'
  BY <1>1, ProducerHas, ProducerRests
<1>3. SUFFICES ProducerIs(p)'
  BY <1>1 DEF ProducerInv, ProducerIs
<1> DEFINE J == DOMAIN payload' \cup {NoId}
<1>4. /\ q \in [pc : {"submit", "failed", "wait", "done"}, taskIDs : Seq(J),
                pending : SUBSET J, hop : J]
      /\ Len(q.taskIDs) <= Len(CorpusChunks)
      /\ \A k \in DOMAIN q.taskIDs :
           q.taskIDs[k] # NoId => payload'[q.taskIDs[k]] = CorpusChunks[k]
      /\ q.hop # NoId => payload'[q.hop] = CorpusChunks[Len(q.taskIDs) + 1]
      /\ q.pc \in {"wait", "done"} =>
           /\ Len(q.taskIDs) = Len(CorpusChunks)
           /\ \A k \in DOMAIN q.taskIDs :
                q.taskIDs[k] \in q.pending \/ (q.taskIDs[k] \in Task /\ Done(q.taskIDs[k])')
      /\ q.pc = "done" => q.pending = {}
  BY <1>2 DEF ProducerIs, Done
<1>5. Len(CorpusChunks) \in Nat
  BY CorpusIs
<1> DEFINE ids == q.taskIDs
<1>6. ids \in Seq(J) /\ Len(ids) \in Nat
  BY <1>4
<1> HIDE DEF J
<1> DEFINE Fine ==
          /\ p \in [pc : {"submit", "failed", "wait", "done"}, taskIDs : Seq(J),
                    pending : SUBSET J, hop : J]
          /\ Len(p.taskIDs) <= Len(CorpusChunks)
          /\ \A k \in DOMAIN p.taskIDs :
               p.taskIDs[k] # NoId => payload'[p.taskIDs[k]] = CorpusChunks[k]
          /\ p.hop # NoId => payload'[p.hop] = CorpusChunks[Len(p.taskIDs) + 1]
          /\ p.pc \in {"wait", "done"} =>
               /\ Len(p.taskIDs) = Len(CorpusChunks)
               /\ \A k \in DOMAIN p.taskIDs :
                    \/ p.taskIDs[k] \in p.pending
                    \/ p.taskIDs[k] \in Task /\ Done(p.taskIDs[k])'
          /\ p.pc = "done" => p.pending = {}
<1>7. SUFFICES Fine
  BY DEF ProducerIs, J, Done
<1>8. CASE UNCHANGED producer
  BY <1>1, <1>4, <1>8
<1>9. CASE SubmitHop
  <2> DEFINE t == Len(payload) + 1
  <2>1. /\ t \in J /\ payload'[t] = CorpusChunks[Len(producer.taskIDs) + 1]
    BY <1>9, HopIs DEF J
  <2>2. producer' = [producer EXCEPT !.hop = t] /\ producer.pc = "submit"
    BY <1>9 DEF SubmitHop, Submitting
  <2> HIDE DEF t
  <2>3. p = [q EXCEPT !.hop = t] /\ q.pc = "submit"
    BY <1>1, <2>2
  <2>4. /\ p.pc = q.pc /\ p.taskIDs = ids /\ p.pending = q.pending /\ p.hop = t
        /\ p \in [pc : {"submit", "failed", "wait", "done"}, taskIDs : Seq(J),
                         pending : SUBSET J, hop : J]
    BY <1>4, <2>1, <2>3
  <2> QED
    BY <1>1, <1>4, <2>1, <2>3, <2>4
<1>10. ASSUME Submitting, NEW id \in {producer.hop, NoId}, UNCHANGED payload,
              producer' = [producer EXCEPT !.taskIDs = Append(@, id), !.hop = NoId]
       PROVE  Fine
  <2>1. /\ id \in J /\ (id # NoId => payload'[id] = CorpusChunks[Len(ids) + 1])
        /\ q.pc = "submit" /\ Len(ids) < Len(CorpusChunks)
    <3>1. q.hop \in J /\ NoId \in J /\ id \in {q.hop, NoId}
      BY <1>1, <1>4, <1>10 DEF J
    <3>2. q.pc = "submit" /\ Len(ids) < Len(CorpusChunks)
      BY <1>1, <1>10 DEF Submitting
    <3> QED
      BY <1>4, <3>1, <3>2
  <2>2. PICK new \in Seq(J) : new = Append(ids, id)
    <3>1. \A s \in Seq(J), e \in J : Append(s, e) \in Seq(J)
      OBVIOUS
    <3> QED
      BY <1>6, <2>1, <3>1, Zenon
  <2>3. /\ Len(new) = Len(ids) + 1 /\ new[Len(ids) + 1] = id
        /\ DOMAIN new = DOMAIN ids \cup {Len(ids) + 1}
        /\ \A k \in DOMAIN ids : new[k] = ids[k]
    BY <1>6, <2>1, <2>2
  <2>4. p = [q EXCEPT !.taskIDs = new, !.hop = NoId]
    BY <1>1, <1>10, <2>2
  <2>5. /\ p.pc = q.pc /\ p.taskIDs = new /\ p.pending = q.pending /\ p.hop = NoId
        /\ p \in [pc : {"submit", "failed", "wait", "done"}, taskIDs : Seq(J),
                         pending : SUBSET J, hop : J]
    BY <1>4, <2>4 DEF J
  <2>6. \A k \in DOMAIN new : new[k] # NoId => payload'[new[k]] = CorpusChunks[k]
    BY <1>4, <2>1, <2>3
  <2>7. Len(new) <= Len(CorpusChunks)
    BY <1>5, <1>6, <2>1, <2>3
  <2> QED
    BY <2>1, <2>5, <2>6, <2>7
<1>11. CASE Submitting /\ producer' = [producer EXCEPT !.pc = "failed"]
  <2>1. p = [q EXCEPT !.pc = "failed"]
    BY <1>1, <1>11
  <2> QED
    BY <1>4, <2>1
<1>12. ASSUME NEW pending \in SUBSET J, Waiting(pending), Len(ids) = Len(CorpusChunks),
              \A k \in DOMAIN ids : ids[k] \in pending \/ (ids[k] \in Task /\ Done(ids[k])'),
              q.hop # NoId => payload'[q.hop] = CorpusChunks[Len(ids) + 1]
       PROVE  /\ p \in [pc : {"submit", "failed", "wait", "done"}, taskIDs : Seq(J),
                         pending : SUBSET J, hop : J]
              /\ p.taskIDs = ids /\ p.hop = q.hop /\ p.pending = pending
              /\ p.pc = "done" => p.pending = {}
  <2>1. PICK c \in {"wait", "done"} : c = IF pending = {} THEN "done" ELSE "wait"
    OBVIOUS
  <2>2. p = [q EXCEPT !.pc = c, !.pending = pending]
    BY <1>1, <1>12, <2>1 DEF Waiting
  <2>3. /\ p.pc = c /\ p.taskIDs = ids /\ p.pending = pending /\ p.hop = q.hop
        /\ p \in [pc : {"submit", "failed", "wait", "done"}, taskIDs : Seq(J),
                         pending : SUBSET J, hop : J]
    BY <1>4, <2>1, <2>2
  <2> QED
    BY <2>1, <2>3
<1>13. CASE producer.pc = "submit" /\ ~Submitting /\ Waiting(Range(producer.taskIDs))
  <2>1. Len(ids) = Len(CorpusChunks)
    BY <1>1, <1>4, <1>5, <1>6, <1>13 DEF Submitting
  <2>2. PICK pending : pending = Range(ids)
    OBVIOUS
  <2>3. pending \in SUBSET J /\ \A k \in DOMAIN ids : ids[k] \in pending
    BY <1>6, <2>2 DEF Range
  <2>4. Waiting(pending)
    BY <1>1, <1>13, <2>2
  <2> QED
    BY <1>4, <1>12, <2>1, <2>3, <2>4
<1>14. ASSUME producer.pc = "wait", NEW id \in producer.pending \cap Task, Done(id),
              Waiting(producer.pending \ {id})
       PROVE  Fine
  <2>1. PICK pending : pending = producer.pending \ {id}
    OBVIOUS
  <2>2. pending \in SUBSET J /\ Waiting(pending)
    BY <1>1, <1>4, <1>14, <2>1
  <2>3. Done(id)'
    BY <1>14 DEF Done, QueueGrows
  <2>4. \A k \in DOMAIN ids : ids[k] \in pending \/ (ids[k] \in Task /\ Done(ids[k])')
    BY <1>1, <1>4, <1>14, <2>1, <2>3
  <2>5. Len(ids) = Len(CorpusChunks)
    BY <1>1, <1>4, <1>14
  <2>6. /\ p \in [pc : {"submit", "failed", "wait", "done"}, taskIDs : Seq(J),
                         pending : SUBSET J, hop : J]
        /\ p.taskIDs = ids /\ p.hop = q.hop /\ p.pending = pending
        /\ p.pc = "done" => p.pending = {}
    BY <1>4, <1>12, <2>2, <2>4, <2>5
  <2> QED
    BY <1>4, <2>4, <2>5, <2>6
<1>15. CASE UNCHANGED producer \/ Produce
  <2> HIDE DEF Fine
  <2>2. ASSUME \E id \in {producer.hop, NoId} :
                   producer' = [producer EXCEPT !.taskIDs = Append(@, id), !.hop = NoId],
               Submitting, UNCHANGED payload
        PROVE  Fine
    BY <1>10, <2>2, Zenon
  <2>3. ASSUME producer.pc = "wait",
               \E id \in producer.pending \cap Task : Done(id) /\ Waiting(producer.pending \ {id})
        PROVE  Fine
    BY <1>14, <2>3, Zenon
  <2> QED
    BY <1>8, <1>9, <1>11, <1>13, <1>15, <2>2, <2>3, ProducerMoves, Zenon
<1> QED
  BY <1>15, BatchSteps DEF batchVars, CommitStep

-----------------------------------------------------------------------------
(* Ingests *)

\* Where a chunk of an ingest stands, only a text that may stand there is put.
LEMMA StandsStays ==
    ASSUME HandlerInv, Keeps, points' = points \/ \E c : WritesNow(c),
           NEW h \in Request, handler[h].pc # "new", NEW id \in ChunkId, Stands(h, id)
    PROVE  Stands(h, id)'
<1>0. ChunkIDToUUID(id) \in DOMAIN points /\ After(h, id, TextAt(id))
  BY DEF Stands, After
<1>1. ASSUME ChunkIDToUUID(id) \in DOMAIN points', NEW t, t = TextAt(id)', After(h, id, t)'
      PROVE  Stands(h, id)'
  BY <1>1 DEF Stands, After, ChunkIDToUUID
<1>2. PICK s, t : s = TextAt(id) /\ t = TextAt(id)'
  OBVIOUS
<1>3. CASE points' = points
  <2>1. t = s
    BY <1>2, <1>3 DEF TextAt, ChunkIDToUUID
  <2>2. After(h, id, t)'
    BY <1>0, <1>2, <2>1, AfterStays
  <2> QED
    BY <1>0, <1>1, <1>2, <1>3, <2>2
<1>4. ASSUME NEW c, WritesNow(c)
      PROVE  Stands(h, id)'
  <2>1. c.id \in ChunkId /\ After(h, c.id, c.text) /\ points' = Stored(c, Embedding(c.text))
    BY <1>4, SourceIs DEF WritesNow
  <2>2. /\ DOMAIN points' = DOMAIN points \cup {ChunkIDToUUID(c.id)}
        /\ id = c.id => t = c.text
        /\ id # c.id => t = s
    BY <1>0, <1>2, <2>1, TextAfter
  <2>3. After(h, id, t)
    BY <1>0, <1>2, <2>1, <2>2
  <2>4. After(h, id, t)'
    BY <2>3, AfterStays
  <2> QED
    BY <1>0, <1>1, <1>2, <2>2, <2>4
<1> QED
  BY <1>3, <1>4

\* The chunk that an ingest has just written stands.
LEMMA ChunkWritten ==
    ASSUME HandlerInv, HandlerInv', Keeps, NEW h \in Request, IngestChunk(h),
           NEW k \in DOMAIN handler[h].chunks, k = handler[h].k
    PROVE  Stands(h, handler[h].chunks[k].id)'
<1>1. PICK c, v : c = handler[h].chunks[k] /\ v = handler[h].vector
  OBVIOUS
<1>2. points' = Stored(c, v) /\ IsOp(h, "ingest")
  BY <1>1 DEF IngestChunk, UpsertChunk, Current
<1>3. c.id \in ChunkId
  BY <1>1, <1>2, IngestIs
<1>4. ChunkIDToUUID(c.id) \in DOMAIN points' /\ TextAt(c.id)' = c.text
  BY <1>2, <1>3, TextAfter
<1>5. IsOp(h, "ingest")' /\ handler'[h].chunks = handler[h].chunks
  BY <1>2, OpStays
<1>6. h \in WrittenBy(c.id, c.text)'
  BY <1>1, <1>5 DEF WrittenBy, Ingests
<1>7. h \in WrittenBy(c.id, TextAt(c.id))'
  BY <1>4, <1>6
<1>8. Stands(h, c.id)'
  BY <1>4, <1>7 DEF Stands, ChunkIDToUUID
<1>9. handler'[h].chunks[k].id = c.id
  BY <1>1, <1>5
<1> QED
  BY <1>1, <1>5, <1>8, <1>9

\* When IngestInv asks for a chunk after a step, it asked for it before, or the
\* step has written it.
LEMMA IngestAsks ==
    ASSUME HandlerInv, [Next]_vars, NEW h \in Request, IsOp(h, "ingest")',
           NEW k \in DOMAIN handler'[h].chunks,
           handler'[h].status = "ok" \/ (Busy(h)' /\ k < handler'[h].k)
    PROVE  /\ IsOp(h, "ingest") /\ k \in DOMAIN handler[h].chunks
           /\ \/ handler[h].status = "ok" \/ (Busy(h) /\ k < handler[h].k)
              \/ IngestChunk(h) /\ k = handler[h].k
<1>1. CASE handler'[h] = handler[h]
  BY <1>1 DEF IsOp, Busy
<1>2. CASE Receive(h)
  <2>1. HandlerInv' /\ handler'[h].k = 1 /\ handler'[h].status # "ok"
    BY <1>2, ReceiveKeeps
  <2>2. PICK in, cs : in = handler'[h].in /\ cs = handler'[h].chunks
    OBVIOUS
  <2>3. in \in Input /\ cs = ToEmbed(in) /\ in.op = "ingest"
    BY <2>1, <2>2 DEF HandlerInv, IsOp
  <2>4. cs \in Seq(Range(cs))
    BY <2>3, EmbedIs
  <2>5. DOMAIN cs = 1..Len(cs) /\ Len(cs) \in Nat
    BY <2>4
  <2> QED
    BY <2>1, <2>2, <2>5
<1>3. CASE Handle(h)
  <2>1. /\ handler'[h].in = handler[h].in /\ handler'[h].chunks = handler[h].chunks
        /\ handler'[h].k = handler[h].k \/ IngestChunk(h)
        /\ handler'[h].status = "ok" => IngestChunk(h) \/ Search(h)
    BY <1>3, HandleKinds
  <2>2. IsOp(h, "ingest") /\ ~Search(h)
    BY <2>1 DEF IsOp, Search
  <2>3. Busy(h)
    BY <1>3, HandleKeeps
  <2>4. CASE IngestChunk(h)
    <3>1. PICK cs, n : cs = handler[h].chunks /\ n = handler[h].k
      OBVIOUS
    <3>2. Len(cs) \in Nat /\ DOMAIN cs = 1..Len(cs)
      BY <2>2, <3>1, IngestIs
    <3>3. n \in 1..Len(cs)
      BY <2>3, <3>1, HandlerIs DEF Busy, NewHandler
    <3>4. /\ n < Len(cs) => handler'[h].k = n + 1 /\ handler'[h].status = handler[h].status
          /\ ~(n < Len(cs)) => handler'[h].k = n
      BY <2>4, <3>1, HandleMoves DEF Moved, HandlerInv
    <3>5. handler[h].status = "none"
      BY <2>3, HandlerIs DEF Busy, NewHandler
    <3>6. k <= n
      BY <2>1, <3>1, <3>2, <3>3, <3>4, <3>5
    <3> QED
      BY <2>1, <2>2, <2>3, <2>4, <3>1, <3>2, <3>3, <3>6
  <2> QED
    BY <2>1, <2>2, <2>3, <2>4
<1>4. CASE UNCHANGED serverVars \/ Respond \/ Die
  BY <1>1, <1>4 DEF serverVars, Respond, Die
<1>5. ASSUME NEW g \in Request \ {h}, Handle(g) \/ Receive(g)
      PROVE  handler'[h] = handler[h]
  BY <1>5, HandleKinds, ReceiveKeeps
<1> QED
  BY <1>1, <1>2, <1>3, <1>4, <1>5, ServerSteps

\* IngestInv holds after every step.
LEMMA IngestStep ==
    ASSUME QueueInv, WorkInv, HandlerInv, HandlerInv', VectorInv, LateInv, IngestInv,
           Keeps, [Next]_vars
    PROVE  IngestInv'
<1>1. points' = points \/ \E c : WritesNow(c)
  BY StoreSteps DEF GivesUp
<1>2. ASSUME NEW h \in Request, IsOp(h, "ingest")', NEW k \in DOMAIN handler'[h].chunks,
             handler'[h].status = "ok" \/ (Busy(h)' /\ k < handler'[h].k)
      PROVE  Stands(h, handler[h].chunks[k].id)'
  <2>1. /\ IsOp(h, "ingest") /\ k \in DOMAIN handler[h].chunks
        /\ \/ handler[h].status = "ok" \/ (Busy(h) /\ k < handler[h].k)
           \/ IngestChunk(h) /\ k = handler[h].k
    BY <1>2, IngestAsks
  <2>2. CASE IngestChunk(h) /\ k = handler[h].k
    BY <2>1, <2>2, ChunkWritten
  <2>3. CASE handler[h].status = "ok" \/ (Busy(h) /\ k < handler[h].k)
    <3>1. PICK id : id = handler[h].chunks[k].id
      OBVIOUS
    <3>2. Stands(h, id)
      BY <2>1, <2>3, <3>1 DEF IngestInv
    <3>3. id \in ChunkId
      BY <2>1, <3>1, IngestIs
    <3>4. handler[h].pc # "new" /\ handler'[h].chunks = handler[h].chunks
      BY <2>1, OpStays
    <3>5. Stands(h, id)'
      BY <1>1, <3>2, <3>3, <3>4, StandsStays
    <3> QED
      BY <3>1, <3>4, <3>5
  <2> QED
    BY <2>1, <2>2, <2>3
<1> QED
  BY <1>2 DEF IngestInv, IsOp, Busy

-----------------------------------------------------------------------------
(* Searches *)

\* A limit is at least one, and so is the number of points found in a
\* collection that is not empty.
LEMMA NearestIs ==
    ASSUME NEW k \in Int, NEW v, IsFiniteSet(DOMAIN points), DOMAIN points # {},
           NEW S \in Nearest(v, TopK(k))
    PROVE  /\ S # {} /\ S \subseteq DOMAIN points
           /\ \/ {p \in DOMAIN points : points[p].vector = v} \subseteq S
              \/ S \subseteq {p \in DOMAIN points : points[p].vector = v}
<1>1. maxTopK \in Nat /\ defaultTopK \in Nat /\ 1 <= defaultTopK /\ 1 <= maxTopK
  BY ServerAssumption
<1>2. TopK(k) \in Nat /\ 1 <= TopK(k)
  <2>1. CASE k <= 0
    BY <1>1, <2>1 DEF TopK
  <2>2. CASE k > 0
    <3>1. Min({k, maxTopK}) \in {k, maxTopK}
      <4>1. maxTopK \in Int
        BY <1>1
      <4> QED
        BY <4>1, MinMaxPair, Zenon
    <3>2. Min({k, maxTopK}) \in Nat /\ 1 <= Min({k, maxTopK})
      BY <1>1, <2>2, <3>1
    <3> QED
      BY <2>2, <3>2 DEF TopK
  <2> QED
    BY <2>1, <2>2
<1>3. PICK m : m = Cardinality(DOMAIN points)
  OBVIOUS
<1>4. m \in Nat /\ 1 <= m
  <2>1. m \in Nat /\ m # 0
    BY <1>3, FS_CardinalityType, FS_EmptySet
  <2> QED
    BY <2>1
<1>5. PICK l : l = TopK(k)
  OBVIOUS
<1>6. Min({l, m}) \in {l, m}
  <2>1. l \in Int /\ m \in Int
    BY <1>2, <1>4, <1>5
  <2> QED
    BY <2>1, MinMaxPair, Zenon
<1>7. Min({l, m}) # 0
  BY <1>2, <1>4, <1>5, <1>6
<1>8. S \in SUBSET DOMAIN points /\ Cardinality(S) = Min({l, m})
  BY <1>3, <1>5 DEF Nearest
<1>9. S # {}
  BY <1>7, <1>8, FS_EmptySet
<1> QED
  BY <1>8, <1>9 DEF Nearest

\* What SearchSeesIngest asks for a chunk.
Sees(s, h, c) ==
    \/ Finds(handler[s].hits, c)
    \/ \E g \in Request \ {h} :
         IsOp(g, "ingest") /\ handler[g].in.doc = c.doc /\ MayFollow(g, h)
    \/ \E j \in DOMAIN CorpusChunks : CorpusChunks[j].id = c.id

\* Another ingest of the document that may have written later stays one.
LEMMA RivalStays ==
    ASSUME HandlerInv, Keeps, NEW h \in Request, handler[h].pc # "new", NEW d,
           NEW g \in Request \ {h}, IsOp(g, "ingest"), handler[g].in.doc = d, MayFollow(g, h)
    PROVE  IsOp(g, "ingest")' /\ handler'[g].in.doc = d /\ MayFollow(g, h)'
  BY OpStays, FollowStays

\* Once it sees, it sees.
LEMMA SeesStays ==
    ASSUME HandlerInv, Keeps, NEW s \in Request, NEW h \in Request,
           handler[h].pc # "new", handler'[s] = handler[s], NEW c, Sees(s, h, c)
    PROVE  Sees(s, h, c)'
<1>1. CASE Finds(handler[s].hits, c)
  BY <1>1 DEF Sees, Finds
<1>2. CASE \E g \in Request \ {h} :
             IsOp(g, "ingest") /\ handler[g].in.doc = c.doc /\ MayFollow(g, h)
  <2>1. PICK g \in Request \ {h} :
             IsOp(g, "ingest") /\ handler[g].in.doc = c.doc /\ MayFollow(g, h)
    BY <1>2
  <2>2. PICK d : d = c.doc
    OBVIOUS
  <2>3. IsOp(g, "ingest")' /\ handler'[g].in.doc = d /\ MayFollow(g, h)'
    BY <2>1, <2>2, RivalStays
  <2> QED
    BY <2>2, <2>3 DEF Sees
<1>3. CASE \E j \in DOMAIN CorpusChunks : CorpusChunks[j].id = c.id
  BY <1>3 DEF Sees, CorpusChunks
<1> QED
  BY <1>1, <1>2, <1>3 DEF Sees

\* Where a chunk of h stands, either its own text is there or another ingest of
\* the document may have written later, or the corpus has the chunk.
LEMMA StandsThen ==
    ASSUME HandlerInv, NEW h \in Request, IsOp(h, "ingest"),
           NEW k \in DOMAIN handler[h].chunks, NEW c, c = handler[h].chunks[k],
           Stands(h, c.id)
    PROVE  \/ TextAt(c.id) = c.text
           \/ \E g \in Request \ {h} :
                IsOp(g, "ingest") /\ handler[g].in.doc = c.doc /\ MayFollow(g, h)
           \/ \E j \in DOMAIN CorpusChunks : CorpusChunks[j].id = c.id
<1>1. PICK id, t : id = c.id /\ t = TextAt(c.id)
  OBVIOUS
<1>2. CASE InCorpus(id, t)
  BY <1>1, <1>2 DEF InCorpus
<1>3. ASSUME NEW g \in WrittenBy(id, t), g = h \/ MayFollow(g, h)
      PROVE  \/ TextAt(c.id) = c.text
             \/ /\ g \in Request \ {h} /\ IsOp(g, "ingest") /\ handler[g].in.doc = c.doc
                /\ MayFollow(g, h)
  <2>1. g \in Request /\ IsOp(g, "ingest")
    BY DEF WrittenBy, Ingests
  <2>2. PICK j \in DOMAIN handler[g].chunks :
            handler[g].chunks[j].id = id /\ handler[g].chunks[j].text = t
    BY DEF WrittenBy, Ingests
  <2>3. /\ id = <<handler[g].in.doc, j - 1>> /\ j \in Nat
        /\ id = <<handler[h].in.doc, k - 1>> /\ k \in Nat /\ c.doc = handler[h].in.doc
    <3>1. handler[g].chunks[j].id = <<handler[g].in.doc, j - 1>>
      BY <2>1, <2>2, IngestIs
    <3>2. /\ handler[h].chunks[k].id = <<handler[h].in.doc, k - 1>>
          /\ handler[h].chunks[k].doc = handler[h].in.doc
      BY IngestIs
    <3>3. j \in Nat /\ k \in Nat
      BY <2>1, <2>2, IngestIs
    <3>4. id = <<handler[g].in.doc, j - 1>>
      BY <2>2, <3>1
    <3>5. id = handler[h].chunks[k].id /\ c.doc = handler[h].chunks[k].doc
      BY <1>1
    <3> QED
      BY <3>2, <3>3, <3>4, <3>5, Zenon
  <2>4. handler[g].in.doc = handler[h].in.doc /\ j - 1 = k - 1
    BY <2>3
  <2>5. j = k
    BY <2>3, <2>4
  <2>6. CASE g = h
    BY <1>1, <2>2, <2>5, <2>6
  <2>7. CASE g # h
    BY <1>3, <2>1, <2>3, <2>4, <2>7
  <2> QED
    BY <2>6, <2>7
<1> QED
  BY <1>1, <1>2, <1>3 DEF Stands

\* A point with the text of the query is found, or only ones with its vector.
LEMMA SearchFinds ==
    ASSUME HandlerInv, VectorInv, NEW s \in Request, Search(s), NEW c,
           c.text = handler[s].in.query, NEW q \in DOMAIN points, points[q].text = c.text
    PROVE  \/ \E x \in handler'[s].hits : x.text = c.text
           \/ /\ handler'[s].hits # {}
              /\ \A x \in handler'[s].hits : x.vector = Embedding(c.text)
<1>1. PICK in, v : in = handler[s].in /\ v = handler[s].vector
  OBVIOUS
<1>2. /\ handler[s].pc = "embedded" /\ IsOp(s, "search")
      /\ in \in Input /\ in.op = "search" /\ handler[s].chunks = ToEmbed(in)
  BY <1>1, HandlerIs DEF Search, IsOp
<1>3. in.topK \in Int /\ handler[s].chunks = <<[text |-> in.query]>>
  BY <1>2, EmbedIs
<1>4. handler[s].k = 1
  <2>1. handler[s].k \in 1..Len(handler[s].chunks)
    BY <1>2, HandlerIs DEF NewHandler
  <2> QED
    BY <1>3, <2>1
<1>5. v = Embedding(in.query)
  <2>1. Current(s).text = in.query
    BY <1>3, <1>4 DEF Current
  <2> QED
    BY <1>1, <1>2, <2>1 DEF VectorInv
<1>6. points[q].vector = v /\ v = Embedding(c.text)
  BY <1>1, <1>5 DEF VectorInv, OwnVector
<1>7. PICK S \in Nearest(v, TopK(in.topK)) : handler'[s].hits = {points[p] : p \in S}
  <2>1. PICK S \in Nearest(v, TopK(in.topK)) :
            Moved(s, "answered", handler[s].in, handler[s].chunks, handler[s].k, "ok",
                  handler[s].vector, {points[p] : p \in S})
    BY <1>1, HandleMoves
  <2>2. handler'[s].hits = {points[p] : p \in S}
    BY <2>1 DEF Moved, HandlerInv
  <2> QED
    BY <2>2
<1>8. IsFiniteSet(DOMAIN points) /\ DOMAIN points # {}
  BY DEF VectorInv
<1>9. /\ S # {} /\ S \subseteq DOMAIN points
      /\ \/ {p \in DOMAIN points : points[p].vector = v} \subseteq S
         \/ S \subseteq {p \in DOMAIN points : points[p].vector = v}
  BY <1>3, <1>8, NearestIs
<1>10. CASE q \in S
  BY <1>7, <1>10
<1>11. CASE \A p \in S : points[p].vector = v
  BY <1>6, <1>7, <1>9, <1>11
<1> QED
  BY <1>6, <1>9, <1>10, <1>11

\* What an acknowledged search sees of an acknowledged ingest at its end.
LEMMA SearchEnds ==
    ASSUME HandlerInv, VectorInv, IngestInv, Keeps, NEW s \in Request, Search(s),
           NEW h \in Request, Acknowledged(h, "ingest"),
           NEW k \in DOMAIN handler[h].chunks, NEW c, c = handler[h].chunks[k],
           c.text = handler[s].in.query
    PROVE  Sees(s, h, c)'
<1>1. IsOp(h, "ingest") /\ handler[h].pc # "new"
  BY OpStays DEF Acknowledged
<1>2. Stands(h, c.id)
  BY <1>1 DEF Acknowledged, IngestInv
<1>3. ChunkIDToUUID(c.id) \in DOMAIN points
  BY <1>2 DEF Stands
<1>4. CASE TextAt(c.id) = c.text
  <2>1. PICK q \in DOMAIN points : points[q].text = c.text
    BY <1>3, <1>4 DEF TextAt
  <2>2. \/ \E x \in handler'[s].hits : x.text = c.text
        \/ /\ handler'[s].hits # {}
           /\ \A x \in handler'[s].hits : x.vector = Embedding(c.text)
    BY <2>1, SearchFinds
  <2> QED
    BY <2>2 DEF Sees, Finds
<1>5. CASE \E g \in Request \ {h} :
             IsOp(g, "ingest") /\ handler[g].in.doc = c.doc /\ MayFollow(g, h)
  <2>1. PICK g \in Request \ {h} :
             IsOp(g, "ingest") /\ handler[g].in.doc = c.doc /\ MayFollow(g, h)
    BY <1>5
  <2>2. PICK d : d = c.doc
    OBVIOUS
  <2>3. IsOp(g, "ingest")' /\ handler'[g].in.doc = d /\ MayFollow(g, h)'
    BY <1>1, <2>1, <2>2, RivalStays
  <2> QED
    BY <2>2, <2>3 DEF Sees
<1>6. CASE \E j \in DOMAIN CorpusChunks : CorpusChunks[j].id = c.id
  BY <1>6 DEF Sees, CorpusChunks
<1> QED
  BY <1>1, <1>2, <1>4, <1>5, <1>6, StandsThen

\* SearchSeesIngest holds after every step.
LEMMA SearchStep ==
    ASSUME HandlerInv, VectorInv, IngestInv, SearchSeesIngest, Keeps, [Next]_vars
    PROVE  SearchSeesIngest'
<1>1. ASSUME NEW s \in Request, NEW h \in Request,
             Acknowledged(s, "search")', Acknowledged(h, "ingest")', h \in before'[s],
             NEW k \in DOMAIN handler'[h].chunks, NEW c, c = handler'[h].chunks[k],
             c.text = handler'[s].in.query
      PROVE  Sees(s, h, c)'
  <2>1. ASSUME h \in before[s]
        PROVE  /\ handler'[h] = handler[h] /\ handler[h].pc # "new"
               /\ Acknowledged(h, "ingest")
    <3>1. handler[h].pc = "answered"
      BY <2>1, HandlerIs
    <3>2. handler'[h] = handler[h]
      BY <3>1 DEF Keeps
    <3> QED
      BY <1>1, <3>1, <3>2 DEF Acknowledged, IsOp
  <2>2. CASE handler'[s] = handler[s]
    <3>1. Acknowledged(s, "search")
      BY <1>1, <2>2 DEF Acknowledged, IsOp
    <3>2. before'[s] = before[s]
      BY <3>1, OpStays DEF Acknowledged
    <3>3. /\ handler'[h] = handler[h] /\ handler[h].pc # "new" /\ Acknowledged(h, "ingest")
          /\ h \in before[s]
      BY <1>1, <2>1, <3>2
    <3>4. Sees(s, h, c)
      BY <1>1, <2>2, <3>1, <3>3 DEF SearchSeesIngest, Sees
    <3> QED
      BY <2>2, <3>3, <3>4, SeesStays
  <2>3. CASE Receive(s)
    BY <1>1, <2>3, ReceiveKeeps DEF Acknowledged
  <2>4. CASE Handle(s)
    <3>1. /\ handler'[s].in = handler[s].in
          /\ handler'[s].status = "ok" => IngestChunk(s) \/ Search(s)
      BY <2>4, HandleKinds
    <3>2. Search(s)
      BY <1>1, <3>1 DEF Acknowledged, IsOp, IngestChunk
    <3>3. UNCHANGED before
      BY <2>4, HandleKeeps
    <3>4. handler'[h] = handler[h] /\ Acknowledged(h, "ingest")
      BY <1>1, <2>1, <3>3
    <3> QED
      BY <1>1, <3>1, <3>2, <3>4, SearchEnds
  <2>5. CASE UNCHANGED serverVars \/ Respond \/ Die
    BY <2>2, <2>5 DEF serverVars, Respond, Die
  <2>6. ASSUME NEW g \in Request \ {s}, Handle(g) \/ Receive(g)
        PROVE  handler'[s] = handler[s]
    BY <2>6, HandleKinds, ReceiveKeeps
  <2> QED
    BY <2>2, <2>3, <2>4, <2>5, <2>6, ServerSteps
<1>2. ASSUME NEW s \in Request, NEW h \in Request,
             Acknowledged(s, "search")', Acknowledged(h, "ingest")', h \in before'[s],
             NEW k \in DOMAIN handler'[h].chunks,
             handler'[h].chunks[k].text = handler'[s].in.query
      PROVE  Sees(s, h, handler[h].chunks[k])'
  <2>1. PICK c : c = handler'[h].chunks[k]
    OBVIOUS
  <2>2. Sees(s, h, c)'
    BY <1>1, <1>2, <2>1
  <2> QED
    BY <2>1, <2>2
<1> QED
  BY <1>2 DEF SearchSeesIngest, Sees, Finds, Acknowledged, IsOp, MayFollow

-----------------------------------------------------------------------------
(* The invariant and the properties *)

\* The first states satisfy the invariant.
LEMMA IndexInit ==
    ASSUME Init
    PROVE  IInv
<1>1. /\ payload = <<>> /\ order = <<>> /\ proposed = {}
      /\ outcomes = [t \in Task |-> {}] /\ lent = [w \in Worker |-> None]
      /\ work = [w \in Worker |-> Idle]
      /\ producer = [pc |-> "submit", taskIDs |-> <<>>, pending |-> {}, hop |-> NoId]
  BY DEF Init, BatchInit, QueueInit
<1>2. /\ points = <<>> /\ late = {} /\ mu = Free
      /\ sub = [alive |-> TRUE, stdin |-> <<>>, stdout |-> <<>>]
      /\ handler = [h \in Request |-> NewHandler] /\ before = [h \in Request |-> {}]
  BY DEF Init, StoreInit, ServerInit
<1>3. Submitted = {}
  BY <1>1 DEF Submitted, Range
<1>4. DOMAIN payload = {} /\ payload \in Seq(CorpusChunk) /\ order \in Seq(DOMAIN payload)
  BY <1>1
<1>5. QueueInv
  BY <1>1, <1>4 DEF QueueInv, Done
<1>6. WorkInv
  BY <1>1, <1>3 DEF WorkInv
<1>7. SuccessInv
  <2>1. Idle # Report("success")
    BY DEF Idle, Report
  <2> QED
    BY <1>1, <1>4, <2>1 DEF SuccessInv
<1>8. ProducerInv
  <2>1. Len(CorpusChunks) \in Nat
    BY CorpusIs
  <2>2. \A S : <<>> \in Seq(S) /\ Len(<<>>) = 0 /\ DOMAIN <<>> = {}
    OBVIOUS
  <2> QED
    BY <1>1, <2>1, <2>2 DEF ProducerInv
<1>9. \A h \in Request : handler[h] = NewHandler /\ before[h] = {} /\ handler[h].pc = "new"
                          /\ handler[h].in = Invalid
  BY <1>2 DEF NewHandler
<1>10. \A h \in Request : \A o : ~IsOp(h, o)
  BY <1>9 DEF IsOp
<1>11. HandlerInv
  <2>1. DOMAIN handler = Request /\ before \in [Request -> SUBSET Request]
    BY <1>2
  <2>2. \A r : r = NewHandler => r = [pc |-> r.pc, in |-> r.in, chunks |-> r.chunks, k |-> r.k,
                                      status |-> r.status, vector |-> r.vector, hits |-> r.hits]
    BY DEF NewHandler
  <2> QED
    BY <1>9, <1>10, <2>1, <2>2 DEF HandlerInv
<1>12. PipeInv
  BY <1>2, <1>9, ServerAssumption DEF PipeInv
<1>13. VectorInv
  <2>1. DOMAIN points = {}
    BY <1>2
  <2> QED
    BY <1>2, <1>9, <2>1, FS_EmptySet DEF VectorInv, OwnVector
<1>14. LateInv
  BY <1>2 DEF LateInv
<1>15. PointInv
  BY <1>2 DEF PointInv
<1>16. IngestInv /\ SearchSeesIngest
  BY <1>10 DEF IngestInv, SearchSeesIngest, Acknowledged
<1> QED
  BY <1>5, <1>6, <1>7, <1>8, <1>11, <1>12, <1>13, <1>14, <1>15, <1>16 DEF IInv

\* Every step of producer, workers, brokers, server and Qdrant preserves it.
LEMMA IndexStep ==
    ASSUME IInv, [Next]_vars
    PROVE  IInv'
<1>1. /\ QueueInv /\ WorkInv /\ SuccessInv /\ ProducerInv
      /\ HandlerInv /\ PipeInv /\ VectorInv /\ PointInv /\ LateInv /\ IngestInv
      /\ SearchSeesIngest
  BY DEF IInv
<1>2. HandlerInv' /\ PipeInv' /\ Keeps
  BY <1>1, ServerKeeps
<1>3. VectorInv' /\ LateInv'
  BY <1>1, VectorStep
<1>4. QueueInv' /\ QueueGrows
  BY <1>1, QueueStep
<1>5. WorkInv'
  BY <1>1, <1>4, WorkStep
<1>6. SuccessInv'
  BY <1>1, <1>2, <1>4, SuccessStep
<1>7. ProducerInv'
  BY <1>1, <1>4, ProducerStep
<1>8. IngestInv'
  BY <1>1, <1>2, IngestStep
<1>9. SearchSeesIngest'
  BY <1>1, <1>2, SearchStep
<1>10. PointInv'
  BY <1>1, PointStep
<1> QED
  BY <1>2, <1>3, <1>4, <1>5, <1>6, <1>7, <1>8, <1>9, <1>10 DEF IInv

\* The inductive invariant of the composition of batch path and query server.
THEOREM IndexInvariant == Spec => []IInv
<1>1. Init => IInv
  BY IndexInit
<1>2. IInv /\ [Next]_vars => IInv'
  BY IndexStep
<1> QED
  BY <1>1, <1>2, PTL DEF Spec

\* Whoever embeds and stores, in whatever interleaving with the others on the
\* subprocess and on the collection, also by an upsert that comes late: a text
\* is stored with its own vector.
THEOREM VectorsAreOwn == Spec => []OwnVector
<1>1. IInv => OwnVector
  BY DEF IInv, VectorInv
<1> QED
  BY <1>1, IndexInvariant, PTL

\* No broker records the success of a task whose chunk is not in the
\* collection, and none that it recorded is lost from it again.
THEOREM SuccessIsIndexed == Spec => []DoneIsIndexed
<1>1. ASSUME IInv
      PROVE  DoneIsIndexed
  <2>1. QueueInv /\ SuccessInv
    BY <1>1 DEF IInv
  <2> QED
    BY <2>1, QueueIs DEF DoneIsIndexed, SuccessInv
<1>2. IInv => DoneIsIndexed
  BY <1>1
<1> QED
  BY <1>2, IndexInvariant, PTL

\* A producer that comes to its end has every chunk of the corpus stored or a
\* failed task for it.
THEOREM CorpusIsAccounted == Spec => []AllAccounted
<1>1. ASSUME IInv, producer.pc = "done", NEW k \in DOMAIN CorpusChunks
      PROVE  \/ IsStored(CorpusChunks[k])
             \/ \E t \in Submitted : /\ payload[t] = CorpusChunks[k]
                                     /\ "error" \in outcomes[t]
  <2>1. QueueInv /\ SuccessInv /\ ProducerInv
    BY <1>1 DEF IInv
  <2>2. PICK ids : ids = producer.taskIDs
    OBVIOUS
  <2>3. /\ ids \in Seq(DOMAIN payload \cup {NoId}) /\ Len(ids) = Len(CorpusChunks)
        /\ \A j \in DOMAIN ids : ids[j] \in Task /\ Done(ids[j])
        /\ \A j \in DOMAIN ids : ids[j] # NoId => payload[ids[j]] = CorpusChunks[j]
    BY <1>1, <2>1, <2>2 DEF ProducerInv
  <2>4. k \in DOMAIN ids
    BY <2>3, CorpusIs
  <2>5. PICK t : t = ids[k]
    OBVIOUS
  <2>6. t \in Task /\ Done(t) /\ payload[t] = CorpusChunks[k]
    BY <2>3, <2>4, <2>5, PipelineAssumption
  <2>7. t \in Submitted /\ t \in DOMAIN payload
    BY <2>1, <2>6, QueueIs DEF QueueInv
  <2>8. "success" \in outcomes[t] \/ "error" \in outcomes[t]
    BY <2>1, <2>6, PipelineAssumption DEF Done, QueueInv
  <2>9. "success" \in outcomes[t] => IsStored(payload[t])
    BY <2>1, <2>7 DEF SuccessInv
  <2> QED
    BY <2>6, <2>7, <2>8, <2>9
<1>2. IInv => AllAccounted
  BY <1>1 DEF AllAccounted
<1> QED
  BY <1>2, IndexInvariant, PTL

\* What an acknowledged ingest wrote stands until a later or overlapping
\* request, or the batch path, writes the chunk again.
THEOREM IngestsStand == Spec => []IngestStands
<1>1. IInv => IngestStands
  BY DEF IInv, IngestInv, IngestStands, Acknowledged, Stands
<1> QED
  BY <1>1, IndexInvariant, PTL

\* A search that came in after an ingest was acknowledged finds its passages,
\* whatever the limit and the model, unless somebody else may have written them.
THEOREM SearchesSeeIngests == Spec => []SearchSeesIngest
<1>1. IInv => SearchSeesIngest
  BY DEF IInv
<1> QED
  BY <1>1, IndexInvariant, PTL

\* Once a task has succeeded, no step changes its point, in text, vector or
\* document, as long as nobody else has something to write there: executing it
\* again writes the identical point.
THEOREM TasksAreReexecutable == Spec => Reexecutable
<1>1. ASSUME IInv, [Next]_vars, NEW t \in Submitted, "success" \in outcomes[t],
             Undisputed(payload[t]), NEW p, p = ChunkIDToUUID(payload[t].id)
      PROVE  points'[p] = points[p]
  <2>1. /\ QueueInv /\ WorkInv /\ SuccessInv /\ HandlerInv /\ VectorInv /\ PointInv
        /\ LateInv
    BY <1>1 DEF IInv
  <2>2. PICK d : d = payload[t]
    OBVIOUS
  <2>3. d \in CorpusChunk /\ IsStored(d) /\ Undisputed(d) /\ p = ChunkIDToUUID(d.id)
    <3>1. t \in DOMAIN payload /\ payload \in Seq(CorpusChunk)
      BY <2>1, QueueIs DEF QueueInv
    <3> QED
      BY <1>1, <2>1, <2>2, <3>1 DEF SuccessInv
  <2>4. p \in DOMAIN points /\ points[p] = PointOf(d)
    BY <2>1, <2>3, PointIs
  <2>5. ASSUME NEW c, WritesNow(c)
        PROVE  points'[p] = points[p]
    <3>1. Source(c) /\ points' = Stored(c, Embedding(c.text))
      BY <2>5 DEF WritesNow
    <3>2. c.id \in ChunkId /\ d.id \in ChunkId
      BY <2>1, <2>3, <3>1, SourceIs, CorpusIs
    <3>3. CASE c.id = d.id
      <4>1. c = d
        BY <2>1, <2>3, <3>1, <3>3, OnlySource
      <4> QED
        BY <2>3, <2>4, <3>1, <4>1 DEF Stored, PointOf
    <3>4. CASE c.id # d.id
      <4>1. ChunkIDToUUID(c.id) # p
        BY <2>3, <3>2, <3>4, IndexerAssumption DEF ChunkIDToUUID
      <4> QED
        BY <2>4, <3>1, <4>1 DEF Stored
    <3> QED
      BY <3>3, <3>4
  <2> QED
    BY <1>1, <2>1, <2>5, StoreSteps DEF GivesUp
<1>2. IInv /\ [Next]_vars =>
        [\A t \in Submitted :
            LET p == ChunkIDToUUID(payload[t].id) IN
            "success" \in outcomes[t] /\ Undisputed(payload[t]) => points'[p] = points[p]]_vars
  BY <1>1
<1> QED
  BY <1>2, IndexInvariant, PTL DEF Spec, Reexecutable
=============================================================================
