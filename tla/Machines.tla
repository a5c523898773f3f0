------------------------------ MODULE Machines ------------------------------
(***************************************************************************)
(* The state machines of libpqxx that are proved about for every size:     *)
(* pipelines, cursors and the streams of blocks over them, the large       *)
(* objects and the streams over those, and the receivers of notifications  *)
(* of a connection.  They share no state; MCParts lets a behaviour be one  *)
(* of a single one.                                                        *)
(***************************************************************************)
EXTENDS Integers

CONSTANTS
  MaxQueries, MaxRetain,                      \* pipelines
  MaxRows, MaxStride,                         \* cursors
  StreamRows, MaxStep, MaxPos, Iter,          \* streams of blocks over them
  Blob, Byte, MaxSize, ChunkLimit, MaxFile, BufSize, None,  \* large objects
  Channel, Receiver, Handler, MaxSent         \* notifications and notices

VARIABLES
  pipe, inWork, fault, got,
  rows, at, m_pos, m_endpos, m_at_end, asked, given, thrown,
  m_stride, m_realpos, m_reqpos, m_done, m_iterators, it,
  content, broken, blob, buf, job,
  file, failed, out, in,
  open, m_trans, channel, handlers, home, processor, listening, wanted, inbox, sent, heard, due, lost

pipelineVars    == <<pipe, inWork, fault, got>>
cursorVars      == <<rows, at, m_pos, m_endpos, m_at_end, asked, given, thrown>>
streamVars      == <<m_stride, m_realpos, m_reqpos, m_done, m_iterators, it>>
blobVars        == <<content, broken, blob, buf, job>>
objectVars      == <<file, failed, out, in>>
connectionVars  == <<open, m_trans, channel, handlers, home, processor, listening, wanted, inbox,
                     sent, heard, due, lost>>

P  == INSTANCE Pipeline
C  == INSTANCE Cursor
S  == INSTANCE CursorStream WITH Rows <- StreamRows, MaxStride <- MaxStep
B  == INSTANCE Blobs WITH failed <- broken
O  == INSTANCE ObjectStreams WITH MaxSize <- MaxFile
K  == INSTANCE Connection WITH trans <- m_trans

\* Sizes are numbers, a buffer holds something, and no address of an iterator is that
\* of none, no channel the name of none.
ASSUME MachinesAssumption ==
  /\ {MaxQueries, MaxRetain, MaxRows, MaxStride, StreamRows, MaxStep, MaxSize, MaxFile} \subseteq Nat
  /\ BufSize \in Nat \ {0}
  /\ S!Nullptr \notin Iter
  /\ None \notin Channel
=============================================================================
