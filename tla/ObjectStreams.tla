--------------------------- MODULE ObjectStreams ---------------------------
(***************************************************************************)
(* The deprecated streams over a large object: largeobject_streambuf puts  *)
(* one buffer in front of what is written and one behind what is read.     *)
(* One stream at a time, and none is moved from its place.                 *)
(***************************************************************************)
EXTENDS Integers, Sequences, SequencesExt

CONSTANTS Byte, MaxSize, BufSize

VARIABLES file,      \* what the object holds
          failed,    \* a call went wrong on the server, and the transaction with it
          out, in    \* the olostream and the ilostream

vars == <<file, failed, out, in>>

\* "pos" is where the object's handle stands, "area" what waits in the buffer, "back"
\* what was got from that buffer, "done" what was put or got since the stream was
\* opened, when the object held "base".
Stream(state) ==
  [state |-> state, pos |-> 0, area |-> <<>>, back |-> <<>>, done |-> <<>>, base |-> file]

NoStream ==
  [state |-> "none", pos |-> 0, area |-> <<>>, back |-> <<>>, done |-> <<>>, base |-> <<>>]

Init ==
  /\ file \in BoundedSeq(Byte, MaxSize) /\ failed = FALSE
  /\ out = NoStream /\ in = NoStream

\* The server.
ReadAt(c, pos, n) == SubSeq(c, pos + 1, Min({pos + n, Len(c)}))

WriteAt(c, pos, data) == SubSeq(c, 1, pos) \o data \o SubSeq(c, pos + Len(data) + 1, Len(c))

-----------------------------------------------------------------------------
\* basic_olostream, on an object that is there already.
OpenOut ==
  /\ out.state = "none" /\ in.state = "none" /\ ~failed
  /\ out' = Stream("open")
  /\ UNCHANGED <<file, failed, in>>

\* overflow up to its writing the buffer out.  A short write throws, which marks the
\* stream as bad and leaves the buffer as it is.
WriteOut(o, wrote) ==
  [o EXCEPT !.pos = @ + wrote,
            !.area = IF wrote = Len(o.area) THEN <<>> ELSE @,
            !.state = IF wrote = Len(o.area) THEN @ ELSE "bad"]

Writes(wrote) ==
  /\ failed => wrote = 0
  /\ out.pos + wrote <= MaxSize
  /\ file' = WriteAt(file, out.pos, SubSeq(out.area, 1, wrote))
  /\ failed' = (failed \/ wrote < Len(out.area))

\* Mutant: overflow starts a new buffer without the character it was called for.
PutForgets(c) ==
  /\ out.state = "open" /\ Len(out.done) < MaxSize
  /\ \/ /\ Len(out.area) < BufSize
        /\ out' = [out EXCEPT !.area = Append(@, c), !.done = Append(@, c)]
        /\ UNCHANGED <<file, failed>>
     \/ /\ Len(out.area) = BufSize
        /\ \E wrote \in 0..BufSize :
             Writes(wrote) /\ out' = [WriteOut(out, wrote) EXCEPT !.done = Append(@, c)]
  /\ UNCHANGED in

\* sputc: the buffer takes the character, or overflow writes it out and starts anew.
Put(c) ==
  /\ out.state = "open" /\ Len(out.done) < MaxSize
  /\ \/ /\ Len(out.area) < BufSize
        /\ out' = [out EXCEPT !.area = Append(@, c), !.done = Append(@, c)]
        /\ UNCHANGED <<file, failed>>
     \/ /\ Len(out.area) = BufSize
        /\ \E wrote \in 0..BufSize :
             /\ Writes(wrote)
             /\ out' = IF wrote < BufSize THEN WriteOut(out, wrote)
                       ELSE [WriteOut(out, wrote) EXCEPT !.area = <<c>>, !.done = Append(@, c)]
  /\ UNCHANGED in

\* sync, of what is written.
Flush ==
  /\ out.state = "open"
  /\ \E wrote \in 0..Len(out.area) : Writes(wrote) /\ out' = WriteOut(out, wrote)
  /\ UNCHANGED in

\* ~basic_olostream syncs a stream that went bad too, and only reports what goes
\* wrong.  A handle that is there for its whole transaction stays open.
EndOut ==
  /\ out.state \in {"open", "bad"}
  /\ \E wrote \in 0..Len(out.area) :
       /\ Writes(wrote)
       /\ out' = LET o == WriteOut(out, wrote) IN
                 [o EXCEPT !.state = IF o.state = "open" THEN "ended" ELSE "broken"]
  /\ UNCHANGED in

-----------------------------------------------------------------------------
\* basic_ilostream.
OpenIn ==
  /\ in.state = "none" /\ out.state \in {"none", "ended"} /\ ~failed
  /\ in' = Stream("open")
  /\ UNCHANGED <<file, failed, out>>

\* sbumpc, with underflow when the buffer is used up: a read that brings nothing is
\* the end of the object, and so is one that fails.
Get ==
  /\ in.state = "open"
  /\ \/ /\ in.area # <<>>
        /\ in' = [in EXCEPT !.area = Tail(@), !.back = Append(@, Head(in.area)),
                            !.done = Append(@, Head(in.area))]
        /\ UNCHANGED failed
     \/ /\ in.area = <<>> /\ ~failed
        /\ LET got == ReadAt(file, in.pos, BufSize) IN
           in' = IF got = <<>> THEN [in EXCEPT !.state = "eof", !.back = <<>>]
                 ELSE [in EXCEPT !.pos = @ + Len(got), !.area = Tail(got),
                                 !.back = <<Head(got)>>, !.done = Append(@, Head(got))]
        /\ UNCHANGED failed
     \/ /\ in.area = <<>>
        /\ in' = [in EXCEPT !.state = "eof", !.back = <<>>] /\ failed' = TRUE
  /\ UNCHANGED <<file, out>>

\* sync, of what is read: the buffer starts again from its front, with what was got
\* from it, and the result is an error, which marks the stream as bad.
SyncIn ==
  /\ in.state = "open"
  /\ in' = [in EXCEPT !.state = "bad", !.area = in.back \o @, !.back = <<>>]
  /\ UNCHANGED <<file, failed, out>>

-----------------------------------------------------------------------------
Next ==
  \/ OpenOut \/ (\E c \in Byte : Put(c)) \/ Flush \/ EndOut
  \/ OpenIn \/ Get \/ SyncIn

Spec == Init /\ [][Next]_vars

-----------------------------------------------------------------------------
\* largeobject.hxx:418-491 - what was put is in the object or still in the buffer, and
\* all in the object once a stream ends without an error; what was got is what the
\* object begins with, and all of it at the end unless the transaction failed; what
\* waits in the buffer goes on from there, until sync starts that again.
StreamsFaithful ==
  /\ out.state \in {"open", "ended"} =>
       WriteAt(out.base, 0, out.done) = WriteAt(file, out.pos, out.area)
  /\ out.state = "ended" => out.area = <<>>
  /\ IsPrefix(in.done, file)
  /\ in.state # "bad" => IsPrefix(in.done \o in.area, file)
  /\ in.state = "eof" /\ ~failed => in.done = file
=============================================================================
