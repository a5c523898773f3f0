------------------------------- MODULE Blobs -------------------------------
(***************************************************************************)
(* pqxx::blob: a large object that several handles read and write within   *)
(* one transaction, and the functions that store and fetch whole objects.  *)
(***************************************************************************)
EXTENDS Integers, Sequences, SequencesExt

CONSTANTS Blob,        \* the program's blob variables
          Byte,        \* what an object is made of; 0 fills gaps
          MaxSize,     \* bound on the size of an object
          ChunkLimit,  \* chunk_limit: the most that one call may transfer
          None         \* no such object

VARIABLES content,   \* what the object holds, or None
          failed,    \* a call went wrong on the server, and the transaction with it
          blob,      \* m_fd by its mode, or "closed", and where it stands
          buf,       \* the caller's buffer
          job        \* what is stored or fetched whole, and the data to be stored

vars == <<content, failed, blob, buf, job>>

Datas == BoundedSeq(Byte, MaxSize)

Closed == [mode |-> "closed", pos |-> 0]

NoJob == [kind |-> "none", data |-> <<>>]

Init ==
  /\ content = None /\ failed = FALSE /\ buf = <<>> /\ job = NoJob
  /\ blob = [b \in Blob |-> Closed]

-----------------------------------------------------------------------------
(* The server: a read stops at the end, a write leaves what follows it.    *)

ReadAt(c, pos, n) == SubSeq(c, pos + 1, Min({pos + n, Len(c)}))

Stretch(c, n) == c \o [i \in 1..(n - Len(c)) |-> 0]

WriteAt(c, pos, data) ==
  IF data = <<>> THEN c
  ELSE SubSeq(Stretch(c, pos), 1, pos) \o data \o SubSeq(c, pos + Len(data) + 1, Len(c))

\* The object is there, and the transaction answers.
Usable == content # None /\ ~failed

Becomes(c) == content' = c /\ UNCHANGED failed

\* A call the server refuses takes the transaction with it.
Refused == failed' = TRUE /\ UNCHANGED content

-----------------------------------------------------------------------------
(* Handles.                                                                *)

\* create, of an oid that is the caller's.
Create ==
  /\ IF content = None /\ ~failed THEN Becomes(<<>>) ELSE Refused
  /\ job' = NoJob /\ UNCHANGED <<blob, buf>>

\* remove.
Unlink ==
  /\ IF Usable THEN Becomes(None) ELSE Refused
  /\ job' = NoJob /\ UNCHANGED <<blob, buf>>

\* open_r, open_w and open_rw: a temporary that is moved into the variable, which
\* closes what that held.
Open(b, mode) ==
  /\ IF Usable THEN blob' = [blob EXCEPT ![b] = [mode |-> mode, pos |-> 0]] /\ Becomes(content)
     ELSE Refused /\ UNCHANGED blob
  /\ UNCHANGED <<buf, job>>

\* operator=, of another blob.
Move(b, c) ==
  /\ blob' = [blob EXCEPT ![b] = blob[c], ![c] = Closed]
  /\ UNCHANGED <<content, failed, buf, job>>

CloseBlob(b) ==
  /\ blob' = [blob EXCEPT ![b] = Closed]
  /\ UNCHANGED <<content, failed, buf, job>>

\* A closed blob is refused without a call.
MayCall(b) == blob[b] # Closed

\* raw_write; more than the limit is refused without a call.
Write(b, data) ==
  /\ MayCall(b) /\ Len(data) <= ChunkLimit /\ blob[b].pos + Len(data) <= MaxSize
  /\ IF Usable /\ blob[b].mode \in {"w", "rw"}
     THEN /\ Becomes(WriteAt(content, blob[b].pos, data))
          /\ blob' = [blob EXCEPT ![b].pos = @ + Len(data)]
     ELSE Refused /\ UNCHANGED blob
  /\ job' = NoJob /\ UNCHANGED buf

\* read: raw_read into a buffer that is made to fit, before and after.
Read(b, n) ==
  /\ MayCall(b) /\ n <= ChunkLimit
  /\ IF Usable /\ blob[b].mode \in {"r", "rw"}
     THEN /\ buf' = ReadAt(content, blob[b].pos, n)
          /\ blob' = [blob EXCEPT ![b].pos = @ + Len(buf')]
          /\ Becomes(content)
     ELSE Refused /\ buf' = SubSeq(Stretch(buf, n), 1, n) /\ UNCHANGED blob
  /\ job' = NoJob

\* resize.
Resize(b, n) ==
  /\ MayCall(b)
  /\ IF Usable /\ blob[b].mode \in {"w", "rw"}
     THEN Becomes(SubSeq(Stretch(content, n), 1, n)) ELSE Refused
  /\ job' = NoJob /\ UNCHANGED <<blob, buf>>

\* seek_abs, seek_rel and seek_end come to a position, behind the end too.
Seek(b, pos) ==
  /\ MayCall(b)
  /\ IF Usable THEN blob' = [blob EXCEPT ![b].pos = pos] /\ Becomes(content)
     ELSE Refused /\ UNCHANGED blob
  /\ UNCHANGED <<buf, job>>

-----------------------------------------------------------------------------
(* Whole objects.                                                          *)

\* from_buf: an object that cannot be filled is removed again, by the oid that the
\* caller gave.  Its data may be more than one call takes, or the server fails the
\* write and, as the transaction is gone, the removal.
FromBuf(data) ==
  /\ \/ (content # None \/ failed) /\ Refused
     \/ content = None /\ ~failed /\ Len(data) <= ChunkLimit /\ Becomes(data)
     \/ content = None /\ ~failed /\ Len(data) <= ChunkLimit /\ content' = <<>> /\ failed' = TRUE
     \/ content = None /\ ~failed /\ Len(data) > ChunkLimit /\ Becomes(None)
  /\ job' = [kind |-> "store", data |-> data]
  /\ UNCHANGED <<blob, buf>>

\* from_buf without an oid, which is 0 by default: the server gives the new object
\* one, on which no handle is open.  The removal is refused for that 0.
FromBufNew(data) ==
  /\ content = None /\ \A b \in Blob : blob[b] = Closed
  /\ \/ failed /\ Refused
     \/ ~failed /\ Len(data) <= ChunkLimit /\ Becomes(data)
     \/ ~failed /\ Len(data) <= ChunkLimit /\ content' = <<>> /\ failed' = TRUE
     \/ ~failed /\ Len(data) > ChunkLimit /\ Becomes(<<>>)
  /\ job' = [kind |-> "new", data |-> data]
  /\ UNCHANGED <<blob, buf>>

\* append_from_buf.
AppendFromBuf(data) ==
  /\ Len(data) <= ChunkLimit
  /\ IF Usable THEN Len(content \o data) <= MaxSize /\ Becomes(content \o data) ELSE Refused
  /\ job' = NoJob /\ UNCHANGED <<blob, buf>>

\* to_buf, which starts a buffer that append_to_buf then goes on with.  A read that
\* fails leaves the buffer as it was made to fit.
ToBuf(n) ==
  /\ n <= ChunkLimit
  /\ \/ /\ Usable /\ buf' = ReadAt(content, 0, n) /\ Becomes(content)
        /\ job' = [kind |-> "fetch", data |-> <<>>]
     \/ Usable /\ Refused /\ buf' = SubSeq(Stretch(buf, n), 1, n) /\ job' = NoJob
     \/ ~Usable /\ Refused /\ UNCHANGED buf /\ job' = NoJob
  /\ UNCHANGED blob

\* A read that fails returns -1, and the buffer is made that much longer: it loses
\* its last byte, and an empty one stays.
ReadFails ==
  /\ buf' = (IF buf = <<>> THEN buf ELSE Front(buf))
  /\ failed' = TRUE /\ UNCHANGED content

\* Mutant: the buffer keeps the room that was made for the read.
AppendToBufRoom(n) ==
  /\ n <= ChunkLimit /\ job.kind = "fetch" /\ Usable
  /\ LET got == ReadAt(content, Len(buf), n) IN
     buf' = buf \o got \o [i \in 1..(n - Len(got)) |-> 0]
  /\ Len(buf') <= MaxSize + 1
  /\ Becomes(content) /\ UNCHANGED <<blob, job>>

\* append_to_buf, from the offset the buffer has come to.
AppendToBuf(n) ==
  /\ n <= ChunkLimit /\ job.kind = "fetch"
  /\ \/ Usable /\ buf' = buf \o ReadAt(content, Len(buf), n) /\ Becomes(content)
     \/ Usable /\ ReadFails
     \/ ~Usable /\ Refused /\ UNCHANGED buf
  /\ UNCHANGED <<blob, job>>

-----------------------------------------------------------------------------
Next ==
  \/ Create
  \/ Unlink
  \/ \E b \in Blob :
       \/ \E mode \in {"r", "w", "rw"} : Open(b, mode)
       \/ \E c \in Blob \ {b} : Move(b, c)
       \/ CloseBlob(b)
       \/ \E data \in Datas : Write(b, data)
       \/ \E n \in 0..MaxSize : Read(b, n) \/ Resize(b, n) \/ Seek(b, n)
  \/ \E data \in Datas : FromBuf(data) \/ FromBufNew(data) \/ AppendFromBuf(data)
  \/ \E n \in 0..MaxSize : ToBuf(n) \/ AppendToBuf(n)

Spec == Init /\ [][Next]_vars

-----------------------------------------------------------------------------
\* blob.cxx:230-302 - whoever stores an object finds all of it or none, while the
\* transaction stands; but under an oid that the server gave there may be an empty
\* object in its place.  Whoever fetches one in pieces has what it begins with, a
\* piece that could not be read included.
BlobsWhole ==
  /\ job.kind = "store" /\ ~failed => content \in {job.data, None}
  /\ job.kind = "new" /\ ~failed =>
       content = job.data \/ (content = <<>> /\ Len(job.data) > ChunkLimit)
  /\ job.kind = "fetch" => content # None /\ IsPrefix(buf, content)
=============================================================================
