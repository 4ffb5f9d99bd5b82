-------------------------- MODULE RetrievalProofs ---------------------------
(***************************************************************************)
(* Whose chunks a search finds and which sources an answer lists, for any  *)
(* files, documents, questions and distances, while files come and go.     *)
(***************************************************************************)
EXTENDS Retrieval, DocumentParserProofs

(* Only an indexed file has chunks. *)
ChunksAreIndexed ==
  /\ chunks = [f \in Files |-> chunks[f]]
  /\ status \in [Files -> Store!Present \cup {"absent", "removed"}]
  /\ \A f \in Files : status[f] # "indexed" => chunks[f] = <<>>

(* What is stored of an indexed file is its document, and all of it. *)
ChunksAreStored ==
  /\ document \in [Files -> Documents]
  /\ \A f \in Files : status[f] = "indexed" =>
       chunks[f] = Chunks(document[f]) /\ Len(chunks[f]) <= MaxChunks

StreamsTyped ==
  /\ stage \in [Questions -> {"search", "name", "sent"}]
  /\ hits = [q \in Questions |-> hits[q]]
  /\ seen \in [Questions -> Nat]
  /\ sources = [q \in Questions |-> sources[q]]

(* A hit is of a file that is indexed, or was, and belongs to the asker. *)
HitKnown(q, h) ==
  /\ h.file \in Files /\ h.distance \in Nat /\ h.distance < Threshold
  /\ status[h.file] \in {"indexed", "removed"}
  /\ Owner[h.file] = Asker[q]

(* Hits come closest first. *)
HitsKnown ==
  \A q \in Questions :
    /\ hits[q] \in Seq(Range(hits[q])) /\ seen[q] <= Len(hits[q])
    /\ Len(hits[q]) <= Limit
    /\ \A i \in DOMAIN hits[q] : HitKnown(q, hits[q][i])
    /\ \A i, j \in DOMAIN hits[q] :
         i < j => hits[q][i].distance <= hits[q][j].distance
    /\ stage[q] = "search" =>
         hits[q] = <<>> /\ seen[q] = 0 /\ sources[q] = <<>>
    /\ stage[q] = "sent" => seen[q] = Len(hits[q])

(* A source is the k-th hit, and no hit of its file is closer. *)
IsFrom(s, k, q) ==
  /\ s.file = hits[q][k].file /\ s.distance = hits[q][k].distance
  /\ s.index = hits[q][k].chunk.index /\ s.page = hits[q][k].chunk.page
  /\ \A j \in DOMAIN hits[q] :
       hits[q][j].file = s.file => s.distance <= hits[q][j].distance

(* What the loop over the hits has done so far. *)
SourcesOf(q) ==
  /\ sources[q] \in Seq(Range(sources[q]))
  /\ \A k \in 1..seen[q] :
       \E i \in DOMAIN sources[q] : sources[q][i].file = hits[q][k].file
  /\ \A i \in DOMAIN sources[q] :
       \E k \in 1..seen[q] : IsFrom(sources[q][i], k, q)
  /\ \A i, j \in DOMAIN sources[q] : i < j =>
       /\ sources[q][i].file # sources[q][j].file
       /\ sources[q][i].distance <= sources[q][j].distance

SourcesKnown == \A q \in Questions : SourcesOf(q)

IndInv ==
  /\ ChunksAreIndexed /\ ChunksAreStored
  /\ StreamsTyped /\ HitsKnown /\ SourcesKnown /\ NamelessIsDeleted

-----------------------------------------------------------------------------
(* A sequence with one element more. *)
LEMMA OneMore ==
  ASSUME NEW T, NEW s \in Seq(T), NEW x
  PROVE  /\ Append(s, x) \in Seq(T \cup {x})
         /\ Len(s) \in Nat /\ DOMAIN s = 1..Len(s)
         /\ DOMAIN Append(s, x) = 1..(Len(s) + 1)
         /\ Append(s, x)[Len(s) + 1] = x
         /\ \A i \in DOMAIN s : Append(s, x)[i] = s[i]
<1>1. T \subseteq T \cup {x} /\ x \in T \cup {x}
  OBVIOUS
<1>2. s \in Seq(T \cup {x})
  BY <1>1
<1> QED BY <1>1, <1>2

LEMMA OfItsRange == ASSUME NEW T, NEW s \in Seq(T) PROVE s \in Seq(Range(s))
BY DEF Range

(* The hits that the loop has looked at. *)
LEMMA LookedAt ==
  ASSUME StreamsTyped, HitsKnown, NEW q \in Questions
  PROVE  /\ Len(hits[q]) \in Nat /\ DOMAIN hits[q] = 1..Len(hits[q])
         /\ seen[q] \in Nat /\ 1..seen[q] \subseteq DOMAIN hits[q]
<1>1. hits[q] \in Seq(Range(hits[q])) /\ seen[q] <= Len(hits[q])
  BY DEF HitsKnown
<1>2. Len(hits[q]) \in Nat /\ DOMAIN hits[q] = 1..Len(hits[q])
  BY <1>1
<1>3. seen[q] \in Nat
  BY DEF StreamsTyped
<1> QED BY <1>1, <1>2, <1>3

(* What one stream collects does not touch the others. *)
LEMMA OthersKept ==
  ASSUME NEW r \in Questions, SourcesKnown,
         hits'[r] = hits[r], seen'[r] = seen[r], sources'[r] = sources[r]
  PROVE  SourcesOf(r)'
BY DEF SourcesKnown, SourcesOf, IsFrom

(* The result of the query: some of the rows, closest first. *)
LEMMA ClosestRows ==
  ASSUME NEW C, NEW s \in Closest(C)
  PROVE  /\ s \in Seq(Range(s)) /\ Len(s) <= Limit
         /\ \A i \in DOMAIN s : s[i] \in C
         /\ \A i, j \in DOMAIN s : i < j => s[i].distance <= s[j].distance
<1>1. PICK k \in 0..Limit : s \in [1..k -> C]
  BY DEF Closest
<1>2. k \in Nat
  BY ParametersOK
<1>3. s \in Seq(Range(s)) /\ Len(s) = k
  BY <1>1, <1>2 DEF Range
<1> QED BY <1>1, <1>3, ParametersOK DEF Closest

(* The file service: a file that was indexed stays so or is removed, and   *)
(* one that was removed stays removed.                                     *)
LEMMA FilesMove ==
  ASSUME ChunksAreIndexed, FileStep
  PROVE  /\ ChunksAreIndexed'
         /\ \A f \in Files :
              /\ status[f] = "removed" => status'[f] = "removed"
              /\ status[f] = "indexed" => status'[f] \in {"indexed", "removed"}
<1> USE DEF ChunksAreIndexed, Store!Present
<1>1. PICK f \in Files : AddFile(f) \/ IndexFile(f) \/ DeleteFile(f)
  BY DEF FileStep
<1>2. CASE AddFile(f)
  BY <1>2 DEF AddFile, Store!Add
<1>3. CASE UNCHANGED chunks /\ (Store!StartIndexing(f) \/ Store!GiveUp(f))
  BY <1>3 DEF Store!StartIndexing, Store!GiveUp
<1>4. CASE /\ chunks' = [chunks EXCEPT ![f] = Chunks(document[f])]
           /\ Store!Publish(f)
  BY <1>4 DEF Store!Publish
<1>5. CASE DeleteFile(f)
  BY <1>5 DEF DeleteFile, Store!Remove
<1> QED BY <1>1, <1>2, <1>3, <1>4, <1>5 DEF IndexFile

(* What is published is the document, whole, or there would be no content  *)
(* 0..(n - 1) (file_service.py:112-131).                                   *)
LEMMA Published ==
  ASSUME NEW doc, IsDocument(doc), NEW n \in Nat,
         {c.index : c \in Range(Chunks(doc))} = 0..(n - 1)
  PROVE  Len(Chunks(doc)) = n
<1> DEFINE rows == Chunks(doc)
<1>1. PICK m \in Nat : /\ DOMAIN rows = 1..m /\ Len(rows) = m
                       /\ \A i \in 1..m : rows[i].index = i - 1
  BY ChunksAreNumbered
<1> HIDE DEF rows
<1>2. \A i \in 1..m : i - 1 \in 0..(n - 1)
  BY <1>1 DEF Range, rows
<1>3. m <= n
  <2>1. m = 0 \/ m \in 1..m
    OBVIOUS
  <2> QED BY <1>2, <2>1
<1>4. n <= m
  <2>1. n = 0 \/ n - 1 \in 0..(n - 1)
    OBVIOUS
  <2>2. \A x \in 0..(n - 1) : \E c \in Range(rows) : x = c.index
    BY DEF rows
  <2>3. \A c \in Range(rows) : \E i \in 1..m : c.index = i - 1
    BY <1>1 DEF Range
  <2>4. CASE n # 0
    <3>1. PICK i \in 1..m : n - 1 = i - 1
      BY <2>1, <2>2, <2>3, <2>4
    <3> QED BY <3>1
  <2> QED BY <2>4
<1> QED BY <1>1, <1>3, <1>4 DEF rows

(* Indexing a file stores what its document is made of.                    *)
LEMMA DocumentsAreStored ==
  ASSUME ChunksAreIndexed, ChunksAreStored, FileStep
  PROVE  ChunksAreStored'
<1> USE DEF ChunksAreIndexed, Store!Present
<1>1. PICK f \in Files : AddFile(f) \/ IndexFile(f) \/ DeleteFile(f)
  BY DEF FileStep
<1>2. /\ document' = document /\ document \in [Files -> Documents]
      /\ \A g \in Files : status[g] = "indexed" =>
           chunks[g] = Chunks(document[g]) /\ Len(chunks[g]) <= MaxChunks
  BY DEF FileStep, ChunksAreStored
<1>3. CASE AddFile(f)
  BY <1>2, <1>3 DEF AddFile, Store!Add, ChunksAreStored
<1>4. CASE UNCHANGED chunks /\ (Store!StartIndexing(f) \/ Store!GiveUp(f))
  BY <1>2, <1>4 DEF Store!StartIndexing, Store!GiveUp, ChunksAreStored
<1>5. CASE /\ chunks' = [chunks EXCEPT ![f] = Chunks(document[f])]
           /\ Store!Publish(f)
  <2>1. /\ status' = [status EXCEPT ![f] = "indexed"]
        /\ chunks'[f] = Chunks(document[f])
        /\ \A g \in Files \ {f} : chunks'[g] = chunks[g]
    BY <1>5 DEF Store!Publish
  <2>2. PICK n \in 0..MaxChunks :
          {c.index : c \in Range(chunks'[f])} = 0..(n - 1)
    BY <1>5 DEF Store!Publish
  <2>3. IsDocument(document[f]) /\ n \in Nat /\ n <= MaxChunks
    BY <1>2, ParametersOK
  <2>4. Len(chunks'[f]) = n
    BY <2>1, <2>2, <2>3, Published
  <2> QED BY <1>2, <2>1, <2>3, <2>4 DEF ChunksAreStored
<1>6. CASE DeleteFile(f)
  BY <1>2, <1>6 DEF DeleteFile, Store!Remove, ChunksAreStored
<1> QED BY <1>1, <1>3, <1>4, <1>5, <1>6 DEF IndexFile

(* What a search finds (file_service.py:228-242). *)
LEMMA SearchFinds ==
  ASSUME ChunksAreIndexed, NEW q \in Questions, Search(q)
  PROVE  \E s : /\ hits' = [hits EXCEPT ![q] = s]
                /\ s \in Seq(Range(s)) /\ Len(s) <= Limit
                /\ \A i \in DOMAIN s :
                     /\ HitKnown(q, s[i]) /\ status[s[i].file] = "indexed"
                     /\ s[i].chunk \in Range(chunks[s[i].file])
                /\ \A i, j \in DOMAIN s : i < j => s[i].distance <= s[j].distance
<1>1. PICK distance \in [Rows(q) -> Distances] :
        LET near == {r \in Rows(q) : distance[r] < Threshold}
        IN  \E s \in Closest({[file |-> r.file, chunk |-> r.chunk,
                               distance |-> distance[r]] : r \in near}) :
              hits' = [hits EXCEPT ![q] = s]
  BY DEF Search
<1> DEFINE C == {[file |-> r.file, chunk |-> r.chunk, distance |-> distance[r]] :
                   r \in {o \in Rows(q) : distance[o] < Threshold}}
<1>2. PICK s \in Closest(C) : hits' = [hits EXCEPT ![q] = s]
  BY <1>1
<1>3. \A h \in C : /\ HitKnown(q, h) /\ status[h.file] = "indexed"
                   /\ h.chunk \in Range(chunks[h.file])
  <2>1. SUFFICES ASSUME NEW r \in Rows(q), distance[r] < Threshold
        PROVE  /\ r.file \in Files /\ distance[r] \in Nat
               /\ status[r.file] = "indexed" /\ Owner[r.file] = Asker[q]
               /\ r.chunk \in Range(chunks[r.file])
    BY DEF HitKnown
  <2>2. PICK f \in Files : /\ Owner[f] = Asker[q]
                           /\ \E c \in Range(chunks[f]) : r = [file |-> f, chunk |-> c]
    BY DEF Rows
  <2>3. r.file = f /\ r.chunk \in Range(chunks[f])
    BY <2>2
  <2>4. chunks[f] # <<>>
    BY <2>3 DEF Range
  <2> QED BY <2>2, <2>3, <2>4, <1>1, ParametersOK DEF ChunksAreIndexed
<1> HIDE DEF C
<1> QED BY <1>2, <1>3, ClosestRows

-----------------------------------------------------------------------------
(* One lemma per kind of step. *)
LEMMA FileStepKeeps == IndInv /\ FileStep => IndInv'
<1> SUFFICES ASSUME IndInv, FileStep PROVE IndInv'
  OBVIOUS
<1> USE DEF IndInv
<1>1. UNCHANGED <<stage, hits, seen, sources>>
  BY DEF FileStep
<1>2. \A q \in Questions : \A i \in DOMAIN hits[q] : HitKnown(q, hits[q][i])'
  BY <1>1, FilesMove DEF HitsKnown, HitKnown
<1>3. StreamsTyped' /\ HitsKnown' /\ SourcesKnown'
  BY <1>1, <1>2 DEF StreamsTyped, HitsKnown, SourcesOf, SourcesKnown, IsFrom
<1>4. NamelessIsDeleted'
  <2>1. \A q \in Questions : \A i \in DOMAIN sources[q] : sources[q][i].file \in Files
    <3>1. SUFFICES ASSUME NEW q \in Questions, NEW i \in DOMAIN sources[q]
                   PROVE  sources[q][i].file \in Files
      OBVIOUS
    <3>2. PICK k \in 1..seen[q] : IsFrom(sources[q][i], k, q)
      BY DEF SourcesOf, SourcesKnown
    <3>3. HitKnown(q, hits[q][k])
      BY LookedAt DEF HitsKnown
    <3> QED BY <3>2, <3>3 DEF IsFrom, HitKnown
  <2> QED BY <1>1, <2>1, FilesMove DEF NamelessIsDeleted, Range
<1> QED BY <1>3, <1>4, FilesMove, DocumentsAreStored

LEMMA SearchKeeps ==
  ASSUME IndInv, NEW q \in Questions, Search(q)
  PROVE  IndInv'
<1> USE DEF IndInv
<1>1. PICK s : /\ hits' = [hits EXCEPT ![q] = s]
               /\ s \in Seq(Range(s)) /\ Len(s) <= Limit
               /\ \A i \in DOMAIN s : HitKnown(q, s[i])
               /\ \A i, j \in DOMAIN s : i < j => s[i].distance <= s[j].distance
  BY SearchFinds
<1>2. /\ stage[q] = "search" /\ hits'[q] = s
      /\ stage' = [stage EXCEPT ![q] = IF s = <<>> THEN "sent" ELSE "name"]
      /\ UNCHANGED <<document, status, chunks, seen, sources>>
  BY <1>1 DEF Search, files, StreamsTyped
<1>3. seen[q] = 0 /\ sources[q] = <<>> /\ 0 <= Len(s)
  BY <1>1, <1>2 DEF HitsKnown
<1>4. \A r \in Questions \ {q} : hits'[r] = hits[r] /\ stage'[r] = stage[r]
  BY <1>1, <1>2 DEF StreamsTyped
<1>5. ChunksAreIndexed' /\ ChunksAreStored' /\ NamelessIsDeleted'
  BY <1>2 DEF ChunksAreIndexed, ChunksAreStored, NamelessIsDeleted
<1>6. StreamsTyped'
  BY <1>1, <1>2 DEF StreamsTyped
<1>7. HitsKnown'
  <2>1. stage'[q] # "search" /\ (stage'[q] = "sent" => s = <<>>)
    BY <1>2 DEF StreamsTyped
  <2>2. \A r \in Questions : \A h : HitKnown(r, h) => HitKnown(r, h)'
    BY <1>2 DEF HitKnown
  <2> QED BY <1>1, <1>2, <1>3, <1>4, <2>1, <2>2 DEF HitsKnown
<1>8. SourcesKnown'
  <2>1. sources'[q] = <<>> /\ seen'[q] = 0
    BY <1>2, <1>3
  <2>2. SourcesOf(q)'
    BY <2>1 DEF SourcesOf
  <2> QED BY <1>2, <1>4, <2>2, OthersKept DEF SourcesKnown
<1> QED BY <1>5, <1>6, <1>7, <1>8

(* A hit whose file is listed adds nothing: what is listed of it is closer *)
(* (rag_service.py:110-127).                                               *)
LEMMA NameSourceKeeps ==
  ASSUME IndInv, NEW q \in Questions, NameSource(q)
  PROVE  IndInv'
<1> USE DEF IndInv
<1> DEFINE n == seen[q] + 1
           h == hits[q][n]
           s == [file |-> h.file, named |-> Known(q, h.file),
                 index |-> h.chunk.index, page |-> h.chunk.page,
                 distance |-> h.distance]
<1>1. /\ stage[q] = "name" /\ seen' = [seen EXCEPT ![q] = n]
      /\ UNCHANGED <<document, status, chunks, stage, hits>>
  BY DEF NameSource, files
<1>2. n \in DOMAIN hits[q] /\ seen[q] \in Nat /\ n \in 1..Len(hits[q])
      /\ n \in Nat /\ n \in 1..n
      /\ DOMAIN hits[q] = 1..Len(hits[q])
  BY DEF NameSource, StreamsTyped, HitsKnown
<1>3. seen'[q] = n /\ \A r \in Questions \ {q} : seen'[r] = seen[r]
  BY <1>1 DEF StreamsTyped
<1>4. ChunksAreIndexed' /\ ChunksAreStored'
  BY <1>1 DEF ChunksAreIndexed, ChunksAreStored
<1>5. StreamsTyped'
  BY <1>1, <1>2 DEF StreamsTyped, NameSource
<1>6. HitsKnown'
  <2>1. \A r \in Questions : \A x : HitKnown(r, x) => HitKnown(r, x)'
    BY <1>1 DEF HitKnown
  <2>2. \A r \in Questions \ {q} : sources'[r] = sources[r]
    BY DEF NameSource, StreamsTyped
  <2> QED BY <1>1, <1>2, <1>3, <2>1, <2>2 DEF HitsKnown
<1>7. CASE h.file \in Listed(q)
  <2>1. UNCHANGED sources
    BY <1>7 DEF NameSource
  <2>2. \E i \in DOMAIN sources[q] : sources[q][i].file = h.file
    BY <1>7 DEF Listed, Range
  <2>3. \A k \in 1..n : k \in 1..seen[q] \/ k = n
    BY <1>2
  <2>4. 1..seen[q] \subseteq 1..n
    BY <1>2
  <2>5. SourcesKnown'
    <3>1. sources'[q] = sources[q] /\ hits'[q] = hits[q]
      BY <1>1, <2>1
    <3>2. SourcesOf(q)
      BY DEF SourcesKnown
    <3>3. \A k \in 1..n : \E i \in DOMAIN sources[q] :
            sources[q][i].file = hits[q][k].file
      BY <2>2, <2>3, <3>2 DEF SourcesOf
    <3> HIDE DEF n, h, s
    <3>4. SourcesOf(q)'
      <4>1. \A i \in DOMAIN sources[q] :
              \E k \in 1..n : IsFrom(sources[q][i], k, q)
        BY <2>4, <3>2 DEF SourcesOf
      <4> QED BY <1>3, <3>1, <3>2, <3>3, <4>1 DEF SourcesOf, IsFrom
    <3> QED BY <1>1, <1>3, <2>1, <3>4, OthersKept DEF SourcesKnown
  <2>6. NamelessIsDeleted'
    BY <1>1, <2>1 DEF NamelessIsDeleted
  <2> QED BY <1>4, <1>5, <1>6, <2>5, <2>6
<1>8. CASE h.file \notin Listed(q)
  <2> DEFINE old == sources[q]
             new == Append(old, s)
             m == Len(old) + 1
  <2>1. sources' = [sources EXCEPT ![q] = new]
    BY <1>8 DEF NameSource
  <2>2. sources'[q] = new /\ \A r \in Questions \ {q} : sources'[r] = sources[r]
    BY <2>1 DEF StreamsTyped
  <2>3. old \in Seq(Range(old))
    BY DEF SourcesOf, SourcesKnown
  <2>4. /\ new \in Seq(Range(new))
        /\ Len(old) \in Nat /\ DOMAIN old = 1..Len(old) /\ DOMAIN new = 1..m
        /\ new[m] = s
        /\ \A i \in DOMAIN old : new[i] = old[i]
    <3> HIDE DEF s, old
    <3>1. new \in Seq(Range(old) \cup {s})
      BY <2>3, OneMore
    <3>2. new \in Seq(Range(new))
      <4> HIDE DEF new
      <4> QED BY <3>1, OfItsRange
    <3> QED BY <2>3, <3>2, OneMore
  <2>5. \A i \in DOMAIN new : i \in DOMAIN old \/ i = m
    <3> HIDE DEF s, h, old, new
    <3> QED BY <2>4
  <2>6. \A i \in DOMAIN old : i \in DOMAIN new /\ i < m /\ ~(m < i)
    <3> HIDE DEF s, h, old, new
    <3> QED BY <2>4
  <2>7. m \in DOMAIN new /\ ~(m < m)
    <3> HIDE DEF s, h, old, new
    <3> QED BY <2>4
  <2>8. /\ s.file = h.file /\ s.distance = h.distance
        /\ s.index = h.chunk.index /\ s.page = h.chunk.page
        /\ s.named = Known(q, h.file)
    OBVIOUS
  <2>9. \A i \in DOMAIN old : old[i].file # h.file
    BY <1>8 DEF Listed, Range
  <2>10. \A k \in 1..n : k \in 1..seen[q] \/ k = n
    <3> HIDE DEF s, h, old, new, m
    <3> QED BY <1>2
  <2>11. \A k \in 1..seen[q] : k \in 1..n /\ k < n /\ k \in DOMAIN hits[q]
    <3> HIDE DEF s, h, old, new, m
    <3> QED BY <1>2
  <2>12. \A k \in 1..seen[q] : hits[q][k].file # h.file
    BY <2>9 DEF SourcesOf, SourcesKnown
  <2>13. IsFrom(s, n, q)
    <3>1. ASSUME NEW j \in DOMAIN hits[q], hits[q][j].file = h.file
          PROVE  h.distance <= hits[q][j].distance
      <4>1. j = n \/ n < j
        BY <1>2, <2>12, <3>1
      <4>2. h.distance \in Nat
        BY <1>2 DEF HitsKnown, HitKnown
      <4> QED BY <1>2, <4>1, <4>2 DEF HitsKnown
    <3> QED BY <2>8, <3>1 DEF IsFrom
  <2>14. \A i \in DOMAIN old : old[i].distance <= h.distance
    <3>1. SUFFICES ASSUME NEW i \in DOMAIN old PROVE old[i].distance <= h.distance
      OBVIOUS
    <3>2. PICK k \in 1..seen[q] : old[i].distance = hits[q][k].distance
      BY DEF SourcesOf, SourcesKnown, IsFrom
    <3>3. k < n /\ k \in DOMAIN hits[q]
      BY <2>11
    <3>4. hits[q][k].distance <= hits[q][n].distance
      BY <1>2, <3>3 DEF HitsKnown
    <3> QED BY <3>2, <3>4
  <2>15. SourcesKnown'
    <3>1. /\ \A k \in 1..seen[q] : \E i \in DOMAIN old : old[i].file = hits[q][k].file
          /\ \A i \in DOMAIN old : \E k \in 1..seen[q] : IsFrom(old[i], k, q)
          /\ \A i, j \in DOMAIN old : i < j =>
               old[i].file # old[j].file /\ old[i].distance <= old[j].distance
      BY DEF SourcesOf, SourcesKnown
    <3>2. h = hits[q][n]
      OBVIOUS
    <3> HIDE DEF s, new, old, m, h, n
    <3>3. \A k \in 1..n : \E i \in DOMAIN new : new[i].file = hits[q][k].file
      BY <2>4, <2>6, <2>7, <2>8, <2>10, <3>1, <3>2
    <3>4. \A i \in DOMAIN new : \E k \in 1..n : IsFrom(new[i], k, q)
      BY <1>2, <2>4, <2>5, <2>11, <2>13, <3>1
    <3>5. \A i, j \in DOMAIN new : i < j =>
            new[i].file # new[j].file /\ new[i].distance <= new[j].distance
      <4>1. SUFFICES ASSUME NEW i \in DOMAIN new, NEW j \in DOMAIN new, i < j
            PROVE  new[i].file # new[j].file /\ new[i].distance <= new[j].distance
        OBVIOUS
      <4>2. i \in DOMAIN old
        BY <4>1, <2>4, <2>5
      <4>3. CASE j \in DOMAIN old
        <5>1. new[i] = old[i] /\ new[j] = old[j]
          BY <4>2, <4>3, <2>4
        <5> QED BY <4>1, <4>2, <4>3, <5>1, <3>1
      <4>4. CASE j = m
        <5>1. new[i] = old[i] /\ new[j] = s
          BY <4>2, <4>4, <2>4
        <5>2. old[i].file # h.file /\ old[i].distance <= h.distance
          BY <4>2, <2>9, <2>14
        <5> QED BY <5>1, <5>2, <2>8
      <4> QED BY <2>5, <4>3, <4>4
    <3>6. sources'[q] = new /\ seen'[q] = n /\ hits'[q] = hits[q]
      BY <1>1, <1>3, <2>2
    <3>7. SourcesOf(q)'
      BY <2>4, <3>3, <3>4, <3>5, <3>6 DEF SourcesOf, IsFrom
    <3> QED BY <1>1, <1>3, <2>2, <3>7, OthersKept DEF SourcesKnown
  <2>16. NamelessIsDeleted'
    <3>1. ~s.named => status[h.file] = "removed"
      BY <1>2, <2>8 DEF HitsKnown, HitKnown, Known, Store!Present
    <3>2. \A x \in Range(new) : x \in Range(old) \/ x = s
      <4> HIDE DEF s, old, new, m
      <4> QED BY <2>4, <2>5 DEF Range
    <3> HIDE DEF s, new, old, h
    <3> QED BY <1>1, <2>2, <2>8, <3>1, <3>2 DEF NamelessIsDeleted, old
  <2> QED BY <1>4, <1>5, <1>6, <2>15, <2>16
<1> QED BY <1>7, <1>8

LEMMA SendSourcesKeeps ==
  ASSUME IndInv, NEW q \in Questions, SendSources(q)
  PROVE  IndInv'
<1> USE DEF IndInv, SendSources, files
<1>1. /\ stage[q] = "name" /\ stage'[q] = "sent" /\ seen[q] = Len(hits[q])
      /\ \A r \in Questions \ {q} : stage'[r] = stage[r]
  BY DEF StreamsTyped
<1>2. /\ ChunksAreIndexed' /\ ChunksAreStored' /\ NamelessIsDeleted'
      /\ StreamsTyped' /\ SourcesKnown'
  BY DEF ChunksAreIndexed, ChunksAreStored, NamelessIsDeleted, StreamsTyped,
         SourcesOf, SourcesKnown, IsFrom
<1>3. HitsKnown'
  BY <1>1 DEF HitsKnown, HitKnown
<1> QED BY <1>2, <1>3

LEMMA InitEstablishes == Init => IndInv
<1> SUFFICES ASSUME Init PROVE IndInv
  OBVIOUS
<1> USE DEF Init
<1>1. ChunksAreIndexed /\ ChunksAreStored /\ StreamsTyped
  BY DEF ChunksAreIndexed, ChunksAreStored, StreamsTyped, Store!Init, Store!Present
<1>2. \A q \in Questions : /\ hits[q] = <<>> /\ sources[q] = <<>> /\ seen[q] = 0
                           /\ stage[q] = "search"
  OBVIOUS
<1>3. HitsKnown
  BY <1>2, ParametersOK DEF HitsKnown
<1>4. SourcesKnown /\ NamelessIsDeleted
  BY <1>2 DEF SourcesOf, SourcesKnown, NamelessIsDeleted, Range
<1> QED BY <1>1, <1>3, <1>4 DEF IndInv

LEMMA Inductive == IndInv /\ [Next]_vars => IndInv'
<1> SUFFICES ASSUME IndInv, [Next]_vars PROVE IndInv'
  OBVIOUS
<1>1. CASE UNCHANGED vars
  <2> USE <1>1 DEF vars, files, IndInv
  <2>1. /\ ChunksAreIndexed' /\ ChunksAreStored'
        /\ StreamsTyped' /\ NamelessIsDeleted'
    BY DEF ChunksAreIndexed, ChunksAreStored, StreamsTyped, NamelessIsDeleted
  <2>2. HitsKnown' /\ SourcesKnown'
    BY DEF HitsKnown, HitKnown, SourcesOf, SourcesKnown, IsFrom
  <2> QED BY <2>1, <2>2
<1> QED
  BY <1>1, FileStepKeeps, SearchKeeps, NameSourceKeeps, SendSourcesKeeps DEF Next

-----------------------------------------------------------------------------
(* The conjuncts of IndInv hold together. *)
THEOREM Invariance == Spec => []IndInv
BY InitEstablishes, Inductive, PTL DEF Spec

(* The types of the state; above all, no document has more than MaxChunks  *)
(* chunks, no search more than Limit hits, none beyond the threshold       *)
(* (file_service.py:236-240).                                              *)
THEOREM TypeCorrect == Spec => []TypeOK
<1>1. IndInv => TypeOK
  <2> SUFFICES ASSUME IndInv PROVE TypeOK
    OBVIOUS
  <2>1. \A f \in Files : Len(chunks[f]) <= MaxChunks
    <3>1. MaxChunks \in Nat /\ Len(<<>>) = 0
      BY ParametersOK
    <3> QED BY <3>1 DEF IndInv, ChunksAreIndexed, ChunksAreStored
  <2>2. ASSUME NEW q \in Questions
        PROVE  /\ Len(hits[q]) <= Limit
               /\ seen[q] \in 0..Len(hits[q])
               /\ \A h \in Range(hits[q]) : h.file \in Files /\ h.distance < Threshold
    <3>1. /\ Len(hits[q]) \in Nat /\ seen[q] \in Nat
          /\ Len(hits[q]) <= Limit /\ seen[q] <= Len(hits[q])
      BY LookedAt DEF IndInv, HitsKnown
    <3>2. \A h \in Range(hits[q]) : h.file \in Files /\ h.distance < Threshold
      BY DEF IndInv, HitsKnown, HitKnown, Range
    <3> QED BY <3>1, <3>2
  <2> QED BY <2>1, <2>2
        DEF TypeOK, IndInv, ChunksAreIndexed, ChunksAreStored, StreamsTyped
<1> QED BY <1>1, Invariance, PTL

(* What is stored of an indexed file is its document, text by text, under  *)
(* no other page than its own (file_parser.py:21-52, file_service.py:112-  *)
(* 131).                                                                   *)
THEOREM DocumentsAreFollowed == Spec => []ChunksFollowDocument
<1>1. IndInv => ChunksFollowDocument
  <2> SUFFICES ASSUME IndInv, NEW f \in Files, status[f] = "indexed"
               PROVE  Carries(chunks[f], document[f])
    BY DEF ChunksFollowDocument
  <2>1. chunks[f] = Chunks(document[f]) /\ IsDocument(document[f])
    BY ParametersOK DEF IndInv, ChunksAreStored
  <2> QED BY <2>1, ChunksFollowTheDocument, FollowersCarry
<1> QED BY <1>1, Invariance, PTL

(* Nobody's search finds a chunk of another user, of a file that is not    *)
(* indexed yet, or of one that is deleted (file_service.py:228-240).       *)
THEOREM SearchesAreOwn == Spec => HitsAreReadable
<1>1. IndInv /\ [Next]_vars =>
        [\A q \in Questions : hits'[q] # hits[q] =>
           \A h \in Range(hits'[q]) :
             /\ Owner[h.file] = Asker[q]
             /\ status[h.file] = "indexed"
             /\ h.chunk \in Range(chunks[h.file])]_vars
  <2> SUFFICES ASSUME IndInv, Next, NEW q \in Questions, hits'[q] # hits[q],
                      NEW h \in Range(hits'[q])
               PROVE  /\ Owner[h.file] = Asker[q]
                      /\ status[h.file] = "indexed"
                      /\ h.chunk \in Range(chunks[h.file])
    OBVIOUS
  <2>1. Search(q)
    <3>1. PICK r \in Questions : Search(r)
      BY DEF Next, FileStep, NameSource, SendSources
    <3>2. \E s : hits' = [hits EXCEPT ![r] = s]
      BY <3>1, SearchFinds DEF IndInv
    <3>3. r = q
      BY <3>2 DEF IndInv, StreamsTyped
    <3> QED BY <3>1, <3>3
  <2>2. PICK s : /\ hits' = [hits EXCEPT ![q] = s]
                 /\ \A i \in DOMAIN s :
                      /\ HitKnown(q, s[i]) /\ status[s[i].file] = "indexed"
                      /\ s[i].chunk \in Range(chunks[s[i].file])
    BY <2>1, SearchFinds DEF IndInv
  <2>3. hits'[q] = s
    BY <2>2 DEF IndInv, StreamsTyped
  <2>4. PICK i \in DOMAIN s : h = s[i]
    BY <2>3 DEF Range
  <2> QED BY <2>2, <2>4 DEF HitKnown
<1> QED BY <1>1, Invariance, PTL DEF Spec, HitsAreReadable

(* A source is without a name only if its file was deleted while the       *)
(* answer was written (rag_service.py:118-120).                            *)
THEOREM NamelessAreDeleted == Spec => []NamelessIsDeleted
BY Invariance, PTL DEF IndInv

(* An answer lists hits, the closest first, and of every file that was     *)
(* found the closest (rag_service.py:109-128).                             *)
THEOREM SourcesAreBest == Spec => []SourcesAreClosest
<1>1. IndInv => SourcesAreClosest
  <2> SUFFICES ASSUME IndInv, NEW q \in Questions, stage[q] = "sent"
      PROVE  /\ \A s \in Range(sources[q]) : \E h \in Range(hits[q]) :
                  /\ s.file = h.file /\ s.distance = h.distance
                  /\ s.index = h.chunk.index /\ s.page = h.chunk.page
             /\ \A i, j \in DOMAIN sources[q] :
                  i < j => sources[q][i].distance <= sources[q][j].distance
             /\ \A h \in Range(hits[q]) : \E s \in Range(sources[q]) :
                  s.file = h.file /\ s.distance <= h.distance
    BY DEF SourcesAreClosest
  <2>1. DOMAIN hits[q] = 1..seen[q]
    BY LookedAt DEF IndInv, HitsKnown
  <2>2. \A i \in DOMAIN sources[q] :
          \E k \in DOMAIN hits[q] : IsFrom(sources[q][i], k, q)
    BY <2>1 DEF IndInv, SourcesOf, SourcesKnown
  <2>3. \A k \in DOMAIN hits[q] :
          \E i \in DOMAIN sources[q] : sources[q][i].file = hits[q][k].file
    BY <2>1 DEF IndInv, SourcesOf, SourcesKnown
  <2>4. \A s \in Range(sources[q]) : \E h \in Range(hits[q]) :
          /\ s.file = h.file /\ s.distance = h.distance
          /\ s.index = h.chunk.index /\ s.page = h.chunk.page
    BY <2>2 DEF IsFrom, Range
  <2>5. \A k \in DOMAIN hits[q] : \E i \in DOMAIN sources[q] :
          /\ sources[q][i].file = hits[q][k].file
          /\ sources[q][i].distance <= hits[q][k].distance
    BY <2>2, <2>3 DEF IsFrom
  <2>6. \A h \in Range(hits[q]) : \E s \in Range(sources[q]) :
          s.file = h.file /\ s.distance <= h.distance
    BY <2>5 DEF Range
  <2> QED BY <2>4, <2>6 DEF IndInv, SourcesOf, SourcesKnown
<1> QED BY <1>1, Invariance, PTL
=============================================================================
