----------------------------- MODULE Documents ------------------------------
(* Uploaded documents and indexed conversations (gateway/routes/rag.py and   *)
(* files.py, rag/index.py, rag/vectorstore.py, documents/parse.py,           *)
(* multimodal/store.py): jobs on any replica, file by file and commit by     *)
(* commit, over the blob directory and the document and vector tables.       *)
(*                                                                           *)
(* A chunk is the interval [from, to) of the text it was cut from, whose     *)
(* surrounding blanks are not stored; an embedding is its dimension.         *)
EXTENDS Integers, Sequences, FiniteSets

CONSTANTS Job,            \* uploads and re-indexings that may overlap
          CharsPerToken,  \* CHARS_PER_TOKEN
          Dimension       \* of the remote embedder's vectors and of the local fallback's

VARIABLES plan,      \* what each job does: [kind, user, source, text, tokens, overlap]
          at,        \* where each job is
          bin, meta, \* the two files of a blob, named by the upload that writes it
          docs,      \* uploads with a row in the document table
          rows,      \* the vector table: [user, source, job, from, to, dim]
          doomed,    \* rows a job has selected to delete
          dim,       \* dimension of a job's embeddings
          raced,     \* conversations that were re-indexed by jobs that overlapped
          cut        \* jobs that failed or were cut short

vars == <<plan, at, bin, meta, docs, rows, doomed, dim, raced, cut>>

Largest(S) == CHOOSE x \in S : \A y \in S : y <= x
Least(S) == CHOOSE x \in S : \A y \in S : x <= y

-----------------------------------------------------------------------------
(* chunk_text: windows that slide over the text, cut at a blank.            *)

Blank == " "
AllBlank(text, from, to) == \A i \in from + 1 .. to : text[i] = Blank

Strip(text) ==
    LET inked == {i \in 1 .. Len(text) : text[i] # Blank}
    IN  IF inked = {} THEN <<>> ELSE SubSeq(text, Least(inked), Largest(inked))

\* The window ends at its last blank, unless that is in its first half.
CutAtBlank(text, from, to, size) ==
    LET blanks == {i \in 0 .. to - from - 1 : text[from + i + 1] = Blank}
    IN  IF to < Len(text) /\ blanks # {} /\ Largest(blanks) > size \div 2
        THEN from + Largest(blanks) ELSE to

\* Mutated form of NextStart: the overlap is forgotten.
NextStartAtEnd(from, to, over) == Largest({to, from + 1})

NextStart(from, to, over) == Largest({to - over, from + 1})

Chunks(text, size, over) ==
    LET n == Len(text)
        From[start \in 0 .. n] ==
            LET to == CutAtBlank(text, start, Least({start + size, n}), size)
                window == IF AllBlank(text, start, to) THEN {} ELSE {[from |-> start, to |-> to]}
            IN  CASE start >= n -> {}
                  [] start < n /\ to >= n -> window
                  [] OTHER -> window \cup From[NextStart(start, to, over)]
    IN  From[0]

SizeOf(p) == Largest({1, p.tokens * CharsPerToken})
OverOf(p) == Least({Largest({0, p.overlap * CharsPerToken}), SizeOf(p) - 1})
ChunksOf(p) == Chunks(Strip(p.text), SizeOf(p), OverOf(p))

-----------------------------------------------------------------------------
InitIn(plans) ==
    /\ plan \in plans
    /\ at = [j \in Job |-> "begin"]
    /\ bin = [j \in Job |-> "none"]
    /\ meta = [j \in Job |-> "none"]
    /\ docs = {}
    /\ rows = {}
    /\ doomed = [j \in Job |-> {}]
    /\ dim = [j \in Job |-> Least(Dimension)]
    /\ raced = {}
    /\ cut = {}

Uploads(j) == plan[j].kind = "document"
Goto(j, there) == at' = [at EXCEPT ![j] = there]

\* upload_document: a text that cannot be extracted, or is blank, is refused.
Parse(j) ==
    /\ at[j] = "begin" /\ Uploads(j)
    /\ \/ Goto(j, "refused")
       \/ ChunksOf(plan[j]) # {} /\ Goto(j, "bin")
    /\ UNCHANGED <<plan, bin, meta, docs, rows, doomed, dim, raced, cut>>

\* LocalBlobStore.put: two files, neither of them written at once.
WriteBin(j) ==
    /\ at[j] = "bin"
    /\ bin' = [bin EXCEPT ![j] = IF @ = "none" THEN "partial" ELSE "whole"]
    /\ Goto(j, IF bin[j] = "none" THEN "bin" ELSE "meta")
    /\ UNCHANGED <<plan, meta, docs, rows, doomed, dim, raced, cut>>

AfterMeta(j) == IF meta[j] = "none" THEN "meta" ELSE "row"

WriteMeta(j) ==
    /\ at[j] = "meta"
    /\ meta' = [meta EXCEPT ![j] = IF @ = "none" THEN "partial" ELSE "whole"]
    /\ Goto(j, AfterMeta(j))
    /\ UNCHANGED <<plan, bin, docs, rows, doomed, dim, raced, cut>>

\* LocalBlobStore.get: the record and the bytes, if both files are there.
Readable(j) == bin[j] = "whole" /\ meta[j] = "whole"

AddDocument(j) ==
    /\ at[j] = "row"
    /\ docs' = docs \cup {j}
    /\ Goto(j, "select")
    /\ UNCHANGED <<plan, bin, meta, rows, doomed, dim, raced, cut>>

-----------------------------------------------------------------------------
(* index_document_chunks and index_conversation: the chunks of the source   *)
(* are dropped, the new ones are embedded and added.                        *)

Same(i, j) == plan[i].source = plan[j].source /\ plan[i].user = plan[j].user
Indexing(j) == {i \in Job \ {j} : Same(i, j) /\ at[i] \in {"delete", "embed", "add"}}

\* Mutated form of OldRows: those a search with the job's embedder ranks.
OldRowsRanked(j) == {r \in rows : r.user = plan[j].user /\ r.source = plan[j].source /\ r.dim = dim[j]}

OldRows(j) == {r \in rows : r.user = plan[j].user /\ r.source = plan[j].source}

DeleteSelect(j) ==
    /\ at[j] = IF Uploads(j) THEN "select" ELSE "begin"
    /\ doomed' = [doomed EXCEPT ![j] = OldRows(j)]
    /\ raced' = IF Indexing(j) = {} THEN raced ELSE raced \cup {plan[j].source}
    /\ Goto(j, "delete")
    /\ UNCHANGED <<plan, bin, meta, docs, rows, dim, cut>>

\* Rows that another job has deleted since are no error.
DeleteCommit(j) ==
    /\ at[j] = "delete"
    /\ rows' = rows \ doomed[j]
    /\ doomed' = [doomed EXCEPT ![j] = {}]
    /\ Goto(j, IF ChunksOf(plan[j]) = {} THEN "done" ELSE "embed")
    /\ UNCHANGED <<plan, bin, meta, docs, dim, raced, cut>>

\* Embedder.embed: of the remote model, or of the local one when that fails.
Embed(j) ==
    /\ at[j] = "embed"
    /\ \E d \in Dimension : dim' = [dim EXCEPT ![j] = d]
    /\ Goto(j, "add")
    /\ UNCHANGED <<plan, bin, meta, docs, rows, doomed, raced, cut>>

RowsOf(j) == {[user |-> plan[j].user, source |-> plan[j].source, job |-> j, from |-> c.from,
               to |-> c.to, dim |-> dim[j]] : c \in ChunksOf(plan[j])}

Add(j) ==
    /\ at[j] = "add"
    /\ rows' = rows \cup RowsOf(j)
    /\ Goto(j, "done")
    /\ UNCHANGED <<plan, bin, meta, docs, doomed, dim, raced, cut>>

InJob == {"bin", "meta", "row", "select", "delete", "embed", "add"}

\* The disk or the database fails, or the replica stops.
Fail(j) ==
    /\ at[j] \in InJob
    /\ Goto(j, "failed")
    /\ cut' = cut \cup {j}
    /\ UNCHANGED <<plan, bin, meta, docs, rows, doomed, dim, raced>>

Next == \E j \in Job : \/ Parse(j) \/ WriteBin(j) \/ WriteMeta(j) \/ AddDocument(j) \/ DeleteSelect(j)
                       \/ DeleteCommit(j) \/ Embed(j) \/ Add(j) \/ Fail(j)

-----------------------------------------------------------------------------
\* LocalVectorStore.query: the rows a search by an embedder of dimension d
\* ranks; rows of another dimension are passed over.
Ranked(user, d) == {r \in rows : r.user = user /\ r.dim = d}

\* The passages of the text that begin and end with ink and are short enough
\* to be in one chunk.
Passages(j) ==
    LET text == Strip(plan[j].text)
        longest == Least({OverOf(plan[j]) + 1, SizeOf(plan[j]) \div 2 + 1})
    IN  {p \in [from : 0 .. Len(text) - 1, to : 1 .. Len(text)] :
           /\ p.to - p.from \in 1 .. longest
           /\ text[p.from + 1] # Blank /\ text[p.to] # Blank}

Holds(r, passage) == r.from <= passage.from /\ passage.to <= r.to

\* upload_document and index_document_chunks: a listed document has its file,
\* and unless its upload is under way or was cut short it has rows that a
\* search with the embedder of its upload ranks, and in which every passage up
\* to a character longer than the overlap, or to half a chunk, is whole.
DocumentsAreKept ==
    /\ \A j \in docs : Readable(j)
    /\ \A j \in Job : Uploads(j) /\ at[j] = "done" => j \in docs
    /\ \A j \in docs : at[j] \notin InJob /\ j \notin cut =>
         \A passage \in Passages(j) :
           \E r \in Ranked(plan[j].user, dim[j]) : r.source = plan[j].source /\ Holds(r, passage)

Conversations == {j \in Job : ~Uploads(j)}

\* index_conversation, "idempotent" in its own words: while re-indexings of a
\* conversation do not overlap and none is under way, the rows of it are
\* exactly those of the last one that ran to its end, or none when the last
\* one was cut short after it had dropped them.
MemoryIsOfOneRun ==
    \A j \in Conversations :
      LET mine == {r \in rows : r.source = plan[j].source /\ r.user = plan[j].user}
      IN  plan[j].source \notin raced /\ Indexing(j) = {} /\ at[j] \notin InJob =>
            mine = {} \/ \E i \in Conversations : Same(i, j) /\ at[i] = "done" /\ mine = RowsOf(i)

=============================================================================
