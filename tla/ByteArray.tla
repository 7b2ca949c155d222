------------------------------ MODULE ByteArray ------------------------------
(***************************************************************************)
(* ucxx::ByteArray (src/ByteArray.cpp, src/ByteArray.h): a value wrapper   *)
(* around std::vector<char> m_data, modelled as the sequence of its bytes. *)
(* Only the members ByteArraySerializer calls are given here; the others   *)
(* (slice, clear, operator[], data, append(ByteArray), append(string))     *)
(* are called nowhere in the sources.                                      *)
(*                                                                         *)
(* constData() is a pointer; constData()[i] beyond size() reads memory the *)
(* vector does not own, which is undefined.  UnownedByte stands for what   *)
(* such a read finds; the serializer's length checks keep every reachable  *)
(* read inside m_data (CursorInBounds), so its value never matters.        *)
(***************************************************************************)
EXTENDS Naturals, Sequences

\* ByteArray(): m_data().
EmptyByteArray == <<>>

\* size(): m_data.size().
size(ba) == Len(ba)

\* append(char b): m_data.push_back(b).
appendChar(ba, b) == Append(ba, b)

\* append(const char *pBuffer, size_t size): the first size bytes of the
\* buffer are copied to the back of m_data.
appendBuffer(ba, buf, n) == ba \o SubSeq(buf, 1, n)

UnownedByte == 0

\* constData()[i], for an offset i from the start of m_data.
constData(ba, i) == IF i < size(ba) THEN ba[i + 1] ELSE UnownedByte

=============================================================================
