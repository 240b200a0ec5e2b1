------------------------------- MODULE Index -------------------------------
(***************************************************************************)
(* The batch pipeline and the query server on one Qdrant collection.       *)
(***************************************************************************)
EXTENDS Pipeline, QueryServer

vars == <<storeVars, batchVars, serverVars>>

ASSUME ProcessAssumption == Process = Worker \cup {Server}

Init == StoreInit /\ BatchInit /\ ServerInit

Start(p) == StartUp(p) /\ UNCHANGED <<batchVars, serverVars>>

Land == LateUpsert /\ UNCHANGED <<batchVars, serverVars>>

Batch(A) == A /\ UNCHANGED serverVars

Serve(A) == A /\ UNCHANGED batchVars

Next ==
    \/ \E p \in Process : Start(p)
    \/ Land
    \/ Batch(BatchNext)
    \/ Serve(ServerNext)

(***************************************************************************)
(* Processes go on, the subprocess answers or dies, and faults are finite  *)
(* in number.  Then a waiting task is lent to a worker that polls          *)
(* (NeverStranded of Broker), and a Submit or Complete that has reached a  *)
(* leader is committed while its caller waits (FindsLeader of              *)
(* BrokerClient, Converges of Raft); what was given up may never be.       *)
(***************************************************************************)
Fairness ==
    /\ \A p \in Process : WF_vars(Start(p))
    /\ WF_vars(Batch(Produce))
    /\ WF_vars(Batch(CommitStep(SubmitCmd(producer.hop))))
    /\ \A w \in Worker :
         /\ WF_vars(Batch(Work(w)))
         /\ WF_vars(Batch(At(w, "report") /\ CommitStep(Completion(w))))
         /\ WF_vars(Batch(\E t \in Task : Pending(t) /\ Poll(w, t)))
    /\ WF_vars(Serve(Respond))
    /\ \A h \in Request : WF_vars(Serve(Handle(h)))

Spec == Init /\ [][Next]_vars /\ Fairness

-----------------------------------------------------------------------------
(* Properties                                                              *)

\* Who may have put this text where the chunk belongs.
WrittenBy(id, text) ==
    {g \in Request : Ingests(g, id, text)}

InCorpus(id, text) ==
    \E k \in DOMAIN CorpusChunks :
        CorpusChunks[k].id = id /\ CorpusChunks[k].text = text

TextAt(id) == points[ChunkIDToUUID(id)].text

\* The chunk is there, or what an article with the same id, or an ingest, put
\* in its place.
IsStored(c) ==
    /\ ChunkIDToUUID(c.id) \in DOMAIN points
    /\ InCorpus(c.id, TextAt(c.id)) \/ WrittenBy(c.id, TextAt(c.id)) # {}

\* A chunk is in the collection before any broker records the success of its
\* task, and it is never lost again, whoever crashes, is lent the task a
\* second time or reports twice; only an ingest of the same document, or an
\* article of the corpus with the same id, may replace its text.
DoneIsIndexed ==
    \A t \in Submitted : "success" \in outcomes[t] => IsStored(payload[t])

\* When the producer says that the corpus is indexed, every chunk it has read
\* is stored or has a failed task: none is lost to a refused or repeated
\* Submit, a crash or a failed GetResult.
AllAccounted ==
    producer.pc = "done" =>
        \A k \in DOMAIN CorpusChunks :
            \/ IsStored(CorpusChunks[k])
            \/ \E t \in Submitted : /\ payload[t] = CorpusChunks[k]
                                    /\ "error" \in outcomes[t]

\* No other article and no ingest has something to write where the chunk goes.
Undisputed(c) ==
    /\ \A k \in DOMAIN CorpusChunks : CorpusChunks[k].id = c.id => CorpusChunks[k] = c
    /\ \A h \in Request : IsOp(h, "ingest") => handler[h].in.doc # c.doc

\* "duplicate upserts to Qdrant write the identical point ID and vector": once
\* a task has succeeded its point stays as it is, document, text and vector,
\* through further executions of it, late upserts and every other writer, as
\* long as nobody else has a text for that chunk id.
Reexecutable ==
    [][\A t \in Submitted :
          LET p == ChunkIDToUUID(payload[t].id) IN
          "success" \in outcomes[t] /\ Undisputed(payload[t]) => points'[p] = points[p]]_vars

\* "so the collection ends up in the same state whether a chunk was embedded
\* once or twice": a worker that executes a task which has already succeeded
\* changes nothing in the collection, whatever was ingested in between.
SameStateTwice ==
    [][\A w \in Worker :
          /\ At(w, "upsert") /\ "success" \in outcomes[lent[w]]
          /\ work'[w] = Report("success")
          => points' = points]_vars

\* A document whose ingest was acknowledged stays as that request wrote it,
\* chunk by chunk, until a later, overlapping or failed one, or the batch path,
\* writes the chunk: no failed chunk is passed over, no earlier acknowledged
\* version comes back.  The text of a corpus chunk with the same id is let
\* through whenever it was written: SameStateTwice is about that.
IngestStands ==
    \A h \in Request : Acknowledged(h, "ingest") =>
        \A k \in DOMAIN handler[h].chunks :
            LET id == handler[h].chunks[k].id IN
            /\ ChunkIDToUUID(id) \in DOMAIN points
            /\ \/ \E g \in WrittenBy(id, TextAt(id)) : g = h \/ MayFollow(g, h)
               \/ InCorpus(id, TextAt(id))

\* The passage itself, or only passages with the very same vector.
Finds(hits, c) ==
    \/ \E x \in hits : x.text = c.text
    \/ hits # {} /\ \A x \in hits : x.vector = Embedding(c.text)

\* "immediately visible to /search": a search that comes in after an ingest
\* was acknowledged and asks for one of its passages finds it, or only
\* passages that the model does not tell from it.  Left out are
\* chunks whose id the corpus has as well, and documents that another request
\* ingests which may have written later, whether or not it has.
SearchSeesIngest ==
    \A s, h \in Request :
        Acknowledged(s, "search") /\ Acknowledged(h, "ingest") /\ h \in before[s] =>
            \A k \in DOMAIN handler[h].chunks :
                LET c == handler[h].chunks[k] IN
                c.text = handler[s].in.query =>
                    \/ Finds(handler[s].hits, c)
                    \/ \E g \in Request \ {h} :
                         IsOp(g, "ingest") /\ handler[g].in.doc = c.doc /\ MayFollow(g, h)
                    \/ \E j \in DOMAIN CorpusChunks : CorpusChunks[j].id = c.id

\* If every Submit returns an id and some worker keeps running, the producer
\* comes to an end, whatever is executed again.
ProducerEnds ==
    /\ []<>(\E w \in Worker : started[w] = "up")
    /\ [](NoId \notin Range(producer.taskIDs))
    => <>(producer.pc \in {"done", "failed"})
=============================================================================
