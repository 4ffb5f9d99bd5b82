----------------------------- MODULE Retrieval ------------------------------
(***************************************************************************)
(* From the documents of a user to the sources of an answer: search over   *)
(* the chunks that indexing stored (search_similar_chunks) and the part of *)
(* stream_rag_response that lists the sources, while files are indexed and *)
(* deleted.  The file service is the one of DocumentStore, here with the   *)
(* chunks themselves.  Between search and sources lies the whole answer of *)
(* the model, and an await per file whose name is looked up.               *)
(***************************************************************************)
EXTENDS DocumentParser, FiniteSets

CONSTANTS
  Files,      \* the uploads
  Owner,      \* the user of each upload
  Documents,  \* what may be uploaded: [slides, body]
  MaxChunks,  \* most chunks of a document
  Questions,
  Asker,      \* the user of each question
  Distances,  \* cosine distances between a query and a chunk
  Threshold,  \* rag_similarity_threshold
  Limit       \* most chunks given to the model (5)

ASSUME ParametersOK ==
  /\ Distances \subseteq Nat /\ Threshold \in Nat
  /\ Limit \in Nat \ {0} /\ MaxChunks \in Nat
  /\ \A doc \in Documents : IsDocument(doc)

VARIABLES
  document,  \* the document of each upload
  status,    \* index_status of each file, absent or removed
  chunks,    \* the rows of file_chunks of each file, by chunk_index
  stage,     \* where each stream stands
  hits,      \* chunk_results: the closest chunks, closest first
  seen,      \* how many hits the loop over top_chunks has looked at
  sources    \* what it collected

files == <<document, status, chunks>>
vars == <<document, status, chunks, stage, hits, seen, sources>>

Store == INSTANCE DocumentStore WITH
  content <- [f \in Files |-> {c.index : c \in Range(chunks[f])}]

Init ==
  /\ document \in [Files -> Documents]
  /\ chunks = [f \in Files |-> <<>>]
  /\ Store!Init
  /\ stage = [q \in Questions |-> "search"]
  /\ hits = [q \in Questions |-> <<>>]
  /\ seen = [q \in Questions |-> 0]
  /\ sources = [q \in Questions |-> <<>>]

-----------------------------------------------------------------------------
(* The file service. *)

AddFile(f) == UNCHANGED chunks /\ Store!Add(f)

IndexFile(f) ==
  \/ UNCHANGED chunks /\ (Store!StartIndexing(f) \/ Store!GiveUp(f))
  \/ /\ chunks' = [chunks EXCEPT ![f] = Chunks(document[f])]
     /\ Store!Publish(f)

DeleteFile(f) == chunks' = [chunks EXCEPT ![f] = <<>>] /\ Store!Remove(f)

FileStep ==
  /\ \E f \in Files : AddFile(f) \/ IndexFile(f) \/ DeleteFile(f)
  /\ UNCHANGED <<document, stage, hits, seen, sources>>

-----------------------------------------------------------------------------
(* Faulty variant: the query does not ask whose file it is. *)
RowsOfAll(q) ==
  UNION {{[file |-> f, chunk |-> c] : c \in Range(chunks[f])} : f \in Files}

(* The rows that the query of search_similar_chunks joins. *)
Rows(q) ==
  UNION {{[file |-> f, chunk |-> c] : c \in Range(chunks[f])} :
           f \in {g \in Files : Owner[g] = Asker[q]}}

(* Faulty variant: LIMIT is forgotten. *)
ClosestUnlimited(C) ==
  {s \in SetToSeqs(C) :
     \A i, j \in DOMAIN s : i < j => s[i].distance <= s[j].distance}

(* ORDER BY distance LIMIT: rows of equal distance come in any order.      *)
Closest(C) ==
  {s \in UNION {[1..k -> C] : k \in 0..Limit} :
     /\ \A i, j \in DOMAIN s :
          i < j => s[i] # s[j] /\ s[i].distance <= s[j].distance
     /\ \A h \in C \ Range(s) :
          Len(s) = Limit /\ \A i \in DOMAIN s : s[i].distance <= h.distance}

(* The query is embedded and the search run; without a hit the fallback    *)
(* answer has no sources.                                                  *)
Search(q) ==
  /\ stage[q] = "search"
  /\ \E distance \in [Rows(q) -> Distances] :
       LET near == {r \in Rows(q) : distance[r] < Threshold}
       IN  \E s \in Closest({[file |-> r.file, chunk |-> r.chunk,
                              distance |-> distance[r]] : r \in near}) :
             hits' = [hits EXCEPT ![q] = s]
  /\ stage' = [stage EXCEPT ![q] = IF hits'[q] = <<>> THEN "sent" ELSE "name"]
  /\ UNCHANGED <<files, seen, sources>>

Listed(q) == {s.file : s \in Range(sources[q])}

(* get_file of the asker *)
Known(q, f) == status[f] \in Store!Present /\ Owner[f] = Asker[q]

(* Faulty variant: a later hit of a file takes the place of the first. *)
NameLatestHit(q) ==
  LET h == hits[q][seen[q] + 1]
      others == SelectSeq(sources[q], LAMBDA s : s.file # h.file)
  IN  /\ stage[q] = "name" /\ seen[q] < Len(hits[q])
      /\ seen' = [seen EXCEPT ![q] = @ + 1]
      /\ sources' = [sources EXCEPT ![q] = Append(others,
           [file |-> h.file, named |-> Known(q, h.file),
            index |-> h.chunk.index, page |-> h.chunk.page,
            distance |-> h.distance])]
      /\ UNCHANGED <<files, stage, hits>>

(* Faulty variant: only files that are not yet indexed have a name. *)
NameUnindexed(q) ==
  LET h == hits[q][seen[q] + 1]
  IN  /\ stage[q] = "name" /\ seen[q] < Len(hits[q])
      /\ seen' = [seen EXCEPT ![q] = @ + 1]
      /\ sources' =
           IF h.file \in Listed(q) THEN sources
           ELSE [sources EXCEPT ![q] = Append(@,
                  [file |-> h.file, named |-> status[h.file] = "pending",
                   index |-> h.chunk.index, page |-> h.chunk.page,
                   distance |-> h.distance])]
      /\ UNCHANGED <<files, stage, hits>>

(* One round of the loop over top_chunks.  A file that is gone by now is   *)
(* listed without a name.                                                  *)
NameSource(q) ==
  LET h == hits[q][seen[q] + 1]
  IN  /\ stage[q] = "name" /\ seen[q] < Len(hits[q])
      /\ seen' = [seen EXCEPT ![q] = @ + 1]
      /\ sources' =
           IF h.file \in Listed(q) THEN sources
           ELSE [sources EXCEPT ![q] = Append(@,
                  [file |-> h.file, named |-> Known(q, h.file),
                   index |-> h.chunk.index, page |-> h.chunk.page,
                   distance |-> h.distance])]
      /\ UNCHANGED <<files, stage, hits>>

SendSources(q) ==
  /\ stage[q] = "name" /\ seen[q] = Len(hits[q])
  /\ stage' = [stage EXCEPT ![q] = "sent"]
  /\ UNCHANGED <<files, hits, seen, sources>>

Next ==
  \/ FileStep
  \/ \E q \in Questions : Search(q) \/ NameSource(q) \/ SendSources(q)

Spec == Init /\ [][Next]_vars
-----------------------------------------------------------------------------
TypeOK ==
  /\ document \in [Files -> Documents]
  /\ status \in [Files -> Store!Present \cup {"absent", "removed"}]
  /\ \A f \in Files : Len(chunks[f]) <= MaxChunks
  /\ stage \in [Questions -> {"search", "name", "sent"}]
  /\ \A q \in Questions :
       /\ Len(hits[q]) <= Limit
       /\ seen[q] \in 0..Len(hits[q])
       /\ \A h \in Range(hits[q]) : h.file \in Files /\ h.distance < Threshold

(* What is stored of an indexed file is the document: every text once, in  *)
(* reading order by chunk_index through all slides and pages, and never    *)
(* with the number of a page or slide it does not stand on                 *)
(* (file_parser.py:40-52, file_service.py:112-130).  Which formats have    *)
(* numbers is left open here: the code numbers slides, the specs ask for   *)
(* the pages of a PDF.                                                     *)
ChunksFollowDocument ==
  \A f \in Files :
    status[f] = "indexed" => Carries(chunks[f], document[f])

(* Every source of an answer is one of its hits, the closest come first,   *)
(* and no hit was closer than what is listed of its file                   *)
(* (rag_service.py:109-128).  Whether a file is listed once, as it is, or  *)
(* for every hit, as the specs have it, is left open.                      *)
SourcesAreClosest ==
  \A q \in Questions :
    stage[q] = "sent" =>
      /\ \A s \in Range(sources[q]) : \E h \in Range(hits[q]) :
           /\ s.file = h.file /\ s.distance = h.distance
           /\ s.index = h.chunk.index /\ s.page = h.chunk.page
      /\ \A i, j \in DOMAIN sources[q] :
           i < j => sources[q][i].distance <= sources[q][j].distance
      /\ \A h \in Range(hits[q]) : \E s \in Range(sources[q]) :
           s.file = h.file /\ s.distance <= h.distance

(* A search finds chunks of the asker's files only, and of none that is    *)
(* not indexed, or not any more (file_service.py:229-240).                 *)
HitsAreReadable ==
  [][\A q \in Questions : hits'[q] # hits[q] =>
       \A h \in Range(hits'[q]) :
         /\ Owner[h.file] = Asker[q]
         /\ status[h.file] = "indexed"
         /\ h.chunk \in Range(chunks[h.file])]_vars

(* A source without a file name is of a file that was deleted while the    *)
(* answer was written (rag_service.py:118-120).                            *)
NamelessIsDeleted ==
  \A q \in Questions : \A s \in Range(sources[q]) :
    ~s.named => status[s.file] = "removed"
=============================================================================
