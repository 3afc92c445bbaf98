------------------------------ MODULE SocketIo -----------------------------
(***************************************************************************)
(* common/socket_io.cpp, the robust I/O package: rio_writen at one end of  *)
(* a stream, and at the other either rio_readn or the buffered rio_readnb  *)
(* and rio_readlineb.  The kernel splits what is written as it likes and   *)
(* may interrupt any call (EINTR: the loops call again, which is a         *)
(* stuttering step here) or fail it.                                       *)
(*                                                                         *)
(* The writer is the container's server, which sends a new client the      *)
(* header it has read from the terminal: header_len bytes of it, or -1     *)
(* when that read failed.  A size_t has one bit more than SSIZE_MAX.       *)
(***************************************************************************)
EXTENDS Integers, SequencesExt

CONSTANTS
    Bytes,      \* what a byte can be
    Newline,    \* one of them
    MaxBytes,   \* bound: bytes of the header
    RioBufSize, \* sizeof(rio_buf)
    Lengths,    \* the n and maxlen that callers give
    SSIZE_MAX   \* the largest ssize_t

ASSUME IoAssumption ==
    /\ Newline \in Bytes
    /\ MaxBytes \in Nat /\ RioBufSize \in Nat \ {0}
    /\ Lengths \subseteq Nat \ {0}
    /\ SSIZE_MAX \in Nat /\ MaxBytes <= SSIZE_MAX

VARIABLES
    header,    \* what the writer has to send
    header_len,\* how much of it, or -1
    nleft,     \* bytes that rio_writen has still to write
    bufp,      \* bytes it has written
    wdone,     \* the writer is through and its end is closed
    wire,      \* bytes that were written and nobody read
    op,        \* the reader's call: "none", "readn", "readnb" or "readlineb"
    rpc,       \* "idle", "loop", "returned" or "failed"
    want,      \* its n or maxlen
    n,         \* the counter of rio_readlineb
    usrbuf,    \* what the call has stored
    rio,       \* the bytes of rio_buf from rio_bufptr on, rio_cnt of them
    taken      \* what the reader got from earlier calls

writerVars == <<header, header_len, nleft, bufp, wdone>>
readerVars == <<op, rpc, want, n, usrbuf, rio, taken>>
ioVars == <<writerVars, wire, readerVars>>

Lesser(a, b) == IF a < b THEN a ELSE b

\* The conversion of an ssize_t to the size_t that rio_writen takes.
ToSize(len) == len % (2 * SSIZE_MAX + 2)

IoInit ==
    /\ header \in BoundedSeq(Bytes, MaxBytes)
    /\ header_len \in {Len(header), -1}
    /\ nleft = ToSize(header_len)
    /\ bufp = 0 /\ wdone = FALSE
    /\ wire = <<>>
    /\ op \in {"readn", "readnb"}
    /\ rpc = "idle" /\ want = 0 /\ n = 0 /\ usrbuf = <<>> /\ rio = <<>> /\ taken = <<>>

-----------------------------------------------------------------------------
(* rio_writen *)

\* What is in memory at the caller's pointer, and behind the header.
Memory(i) == IF i <= Len(header) THEN header[i] ELSE "beyond"

\* write takes some of the bytes.  The kernel refuses a count that is negative
\* as an ssize_t.
Writen ==
    /\ ~wdone /\ nleft > 0 /\ nleft <= SSIZE_MAX
    /\ \E k \in 1..nleft :
        /\ wire' = wire \o [i \in 1..k |-> Memory(bufp + i)]
        /\ bufp' = bufp + k /\ nleft' = nleft - k
    /\ UNCHANGED <<header, header_len, wdone, readerVars>>

\* All is written, or a write failed; either way the client is dropped later.
WritenEnds ==
    /\ ~wdone
    /\ wdone' = TRUE
    /\ UNCHANGED <<header, header_len, nleft, bufp, wire, readerVars>>

-----------------------------------------------------------------------------
(* The reader *)

\* Callers do not mix the buffered calls with the other one.
Calls ==
    /\ rpc = "idle"
    /\ op' \in IF op = "readn" THEN {"readn"} ELSE {"readnb", "readlineb"}
    /\ want' \in Lengths
    /\ rpc' = "loop" /\ n' = 1 /\ usrbuf' = <<>>
    /\ UNCHANGED <<writerVars, wire, rio, taken>>

AtEof == wire = <<>> /\ wdone

\* One round of rio_readn.
Readn ==
    /\ op = "readn" /\ rpc = "loop" /\ wire # <<>>
    /\ \E k \in 1..Lesser(want - Len(usrbuf), Len(wire)) :
        /\ usrbuf' = usrbuf \o SubSeq(wire, 1, k)
        /\ wire' = SubSeq(wire, k + 1, Len(wire))
    /\ rpc' = IF Len(usrbuf') = want THEN "returned" ELSE "loop"
    /\ UNCHANGED <<writerVars, op, want, n, rio, taken>>

\* rio_read refills its empty buffer.
Refill ==
    /\ op # "readn" /\ rpc = "loop" /\ rio = <<>> /\ wire # <<>>
    /\ \E k \in 1..Lesser(RioBufSize, Len(wire)) :
        /\ rio' = SubSeq(wire, 1, k)
        /\ wire' = SubSeq(wire, k + 1, Len(wire))
    /\ UNCHANGED <<writerVars, op, rpc, want, n, usrbuf, taken>>

\* Mutant: rio_cnt is reduced but rio_bufptr stays.
CopyOut_Again(k) ==
    /\ usrbuf' = usrbuf \o SubSeq(rio, 1, k)
    /\ rio' = SubSeq(rio, 1, Len(rio) - k)

\* rio_read copies k bytes out of its buffer.
CopyOut(k) ==
    /\ usrbuf' = usrbuf \o SubSeq(rio, 1, k)
    /\ rio' = SubSeq(rio, k + 1, Len(rio))

\* One round of rio_readnb.
Readnb ==
    /\ op = "readnb" /\ rpc = "loop" /\ rio # <<>>
    /\ CopyOut(Lesser(want - Len(usrbuf), Len(rio)))
    /\ rpc' = IF Len(usrbuf') = want THEN "returned" ELSE "loop"
    /\ UNCHANGED <<writerVars, wire, op, want, n, taken>>

\* Mutant: the newline is not counted.
Readlineb_Uncounted ==
    /\ op = "readlineb" /\ rpc = "loop" /\ n < want /\ rio # <<>>
    /\ CopyOut(1)
    /\ n' = IF Head(rio) = Newline THEN n ELSE n + 1
    /\ rpc' = IF Head(rio) = Newline THEN "returned" ELSE "loop"
    /\ UNCHANGED <<writerVars, wire, op, want, taken>>

\* One round of rio_readlineb.
Readlineb ==
    /\ op = "readlineb" /\ rpc = "loop" /\ n < want /\ rio # <<>>
    /\ CopyOut(1)
    /\ n' = n + 1
    /\ rpc' = IF Head(rio) = Newline THEN "returned" ELSE "loop"
    /\ UNCHANGED <<writerVars, wire, op, want, taken>>

\* The caller's buffer has room for the terminating zero and no more.
LineFull ==
    /\ op = "readlineb" /\ rpc = "loop" /\ n >= want
    /\ rpc' = "returned"
    /\ UNCHANGED <<writerVars, wire, op, want, n, usrbuf, rio, taken>>

\* End of file: the call returns what it has.
ReadEof ==
    /\ rpc = "loop" /\ rio = <<>> /\ AtEof
    /\ op = "readlineb" => n < want
    /\ rpc' = "returned"
    /\ UNCHANGED <<writerVars, wire, op, want, n, usrbuf, rio, taken>>

\* An error: -1, on which the Rio_ functions end the process.
ReadError ==
    /\ rpc = "loop" /\ rio = <<>>
    /\ op = "readlineb" => n < want
    /\ rpc' = "failed"
    /\ UNCHANGED <<writerVars, wire, op, want, n, usrbuf, rio, taken>>

\* What the call returns: a count.
Returns == IF op = "readlineb" THEN n - 1 ELSE Len(usrbuf)

CallerTakes ==
    /\ rpc = "returned"
    /\ taken' = taken \o SubSeq(usrbuf, 1, Returns)
    /\ usrbuf' = <<>>
    /\ rpc' = "idle"
    /\ UNCHANGED <<writerVars, wire, op, want, n, rio>>

IoNext ==
    \/ Writen \/ WritenEnds
    \/ Calls \/ Readn \/ Refill \/ Readnb \/ Readlineb \/ LineFull \/ ReadEof \/ ReadError
    \/ CallerTakes

IoSpec == IoInit /\ [][IoNext]_ioVars

-----------------------------------------------------------------------------
(* Properties *)

\* However the stream is split and whatever calls are mixed, the reader gets
\* the bytes of the header in order: those taken, those the call holds, those
\* in the rio buffer and those on the way are the ones written so far, and none
\* is from behind the header, also when its length is -1.
StreamWhole ==
    /\ bufp <= Len(header)
    /\ taken \o usrbuf \o rio \o wire = SubSeq(header, 1, bufp)

\* rio_readn and rio_readnb return less than n only at the end of the stream.
\* A line has its newline at the end and nowhere else, unless the buffer is
\* full or the stream at its end; it leaves room for the zero; and the result
\* is its length.
ReadWhole ==
    /\ rpc = "returned" /\ op # "readlineb" /\ Len(usrbuf) < want => rio = <<>> /\ AtEof
    /\ rpc = "returned" /\ op = "readlineb" =>
        /\ \A i \in 1..(Len(usrbuf) - 1) : usrbuf[i] # Newline
        /\ Returns = Len(usrbuf)
        /\ Len(usrbuf) < want
        /\ \/ usrbuf # <<>> /\ Last(usrbuf) = Newline
           \/ Len(usrbuf) = want - 1
           \/ rio = <<>> /\ AtEof
=============================================================================
