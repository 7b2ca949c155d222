------------------------------ MODULE ReadLine ------------------------------
(***************************************************************************)
(* TcpSocket::readLine(size) (src/TcpSocket.cpp 175-197): read one byte at *)
(* a time with recv until a '\n' has been read or `size` characters kept,  *)
(* dropping '\r' and '\n'.  The peer's bytes are a sequence over a small    *)
(* alphabet; after them the peer either closes (recv returns 0 for ever)  *)
(* or stays silent, in which case recv blocks, or fails after the 1 s      *)
(* SO_RCVTIMEO that TcpSocket(SOCKET_TYPE) sets on accepted sockets        *)
(* (lines 31-44).                                                          *)
(***************************************************************************)
EXTENDS Naturals, Sequences

CONSTANTS
    Inputs,     \* byte sequences the peer sends, over {"a", "b", CR, LF}
    Sizes,      \* the size arguments readLine is called with
    CR, LF, NUL,
    RecvTimeout,\* TRUE: accepted socket (SO_RCVTIMEO set); FALSE: connected
    PeerMayClose,\* the peer may close the connection after its bytes
    MaxEofReads \* bound: recv calls returning 0 that the model follows

VARIABLES
    input,      \* bytes still to arrive
    peerClosed, \* the peer closed after sending `input`
    size,       \* the argument
    line,       \* `line`
    length,     \* `length`
    c,          \* `c`
    done,       \* readLine has returned
    error,      \* setError was called
    sent,       \* history: every byte the peer sent
    eofReads    \* recv calls that returned 0

vars == <<input, peerClosed, size, line, length, c, done, error, sent, eofReads>>

Chars == {"a", "b", CR, LF}

TypeOK ==
    /\ input \in Seq(Chars)
    /\ peerClosed \in BOOLEAN
    /\ line \in Seq(Chars \ {CR, LF})
    /\ length = Len(line)
    /\ c \in Chars \cup {NUL}
    /\ done \in BOOLEAN
    /\ error \in BOOLEAN
    /\ sent \in Seq(Chars)
    /\ eofReads \in 0..MaxEofReads

\* Lines 177-184 on a connected socket.
Init ==
    /\ input \in Inputs
    /\ peerClosed \in IF PeerMayClose THEN BOOLEAN ELSE {FALSE}
    /\ size \in Sizes
    /\ line = <<>>
    /\ length = 0
    /\ c = NUL
    /\ done = FALSE
    /\ error = FALSE
    /\ sent = input
    /\ eofReads = 0

\* The do-while test at line 194.
Continue(ch, len) == ch # LF /\ len < size

RecvByteKeepCR ==
    /\ ~done
    /\ input # <<>>
    /\ LET b == Head(input)
           keep == b # LF
           len == IF keep THEN length + 1 ELSE length
       IN  /\ input' = Tail(input)
           /\ c' = b
           /\ line' = IF keep THEN Append(line, b) ELSE line
           /\ length' = len
           /\ done' = ~Continue(b, len)
    /\ UNCHANGED <<peerClosed, size, error, sent, eofReads>>

\* Lines 186, 190-194: recv returns one byte; keep it unless it is CR or LF.
RecvByte ==
    /\ ~done
    /\ input # <<>>
    /\ LET b == Head(input)
           keep == b \notin {CR, LF}
           len == IF keep THEN length + 1 ELSE length
       IN  /\ input' = Tail(input)
           /\ c' = b
           /\ line' = IF keep THEN Append(line, b) ELSE line
           /\ length' = len
           /\ done' = ~Continue(b, len)
    /\ UNCHANGED <<peerClosed, size, error, sent, eofReads>>

\* recv returns 0 (the peer has closed): nothing is kept, c is unchanged.
RecvEof ==
    /\ ~done
    /\ input = <<>>
    /\ peerClosed
    /\ eofReads < MaxEofReads
    /\ eofReads' = eofReads + 1
    /\ done' = ~Continue(c, length)
    /\ UNCHANGED <<input, peerClosed, size, line, length, c, error, sent>>

RecvTimeoutIgnored ==
    /\ ~done
    /\ input = <<>>
    /\ ~peerClosed
    /\ RecvTimeout
    /\ error' = TRUE
    /\ UNCHANGED <<input, peerClosed, size, line, length, c, sent, eofReads, done>>

\* Lines 187-189: recv fails after SO_RCVTIMEO; setError, return the line.
RecvTimeout_ ==
    /\ ~done
    /\ input = <<>>
    /\ ~peerClosed
    /\ RecvTimeout
    /\ error' = TRUE
    /\ done' = TRUE
    /\ UNCHANGED <<input, peerClosed, size, line, length, c, sent, eofReads>>

Next == RecvByte \/ RecvEof \/ RecvTimeout_

Spec == Init /\ [][Next]_vars /\ WF_vars(Next)

----------------------------------------------------------------------------

\* What readLine should return for the bytes s: the characters before the
\* first LF, without CR, at most n of them.
RECURSIVE Expected(_, _)
Expected(s, n) ==
    IF s = <<>> \/ n = 0 \/ Head(s) = LF THEN <<>>
    ELSE IF Head(s) = CR THEN Expected(Tail(s), n)
    ELSE <<Head(s)>> \o Expected(Tail(s), n - 1)

\* A line that returned without error is the expected line of the bytes
\* the peer sent: nothing after the first '\n' is kept, '\r' is dropped,
\* and at most `size` characters are returned.
LineIsFirstLine ==
    (done /\ ~error) => line = Expected(sent, size)

\* readLine returns: the header (TcpSocket.h 45-48) says it reads "till
\* EOL or socket error".
ReadLineReturns == <>done

=============================================================================
