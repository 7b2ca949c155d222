------------------------------ MODULE Sockets ------------------------------
(***************************************************************************)
(* TcpSocket (src/TcpSocket.cpp) and TcpServer (src/TcpServer.cpp) over    *)
(* the operating system's descriptor table.  socket() and accept() return  *)
(* the lowest free descriptor number (POSIX), so a number that is closed   *)
(* is handed out again at the next allocation, by any thread.              *)
(*                                                                         *)
(* The table records which object a number was opened for.  A system call *)
(* an object makes on a number that is now open for another object is a    *)
(* misuse: it reads, accepts on, shuts down or closes someone else's       *)
(* connection.  A call on a closed number fails with EBADF and is          *)
(* harmless.                                                               *)
(*                                                                         *)
(* Threads call the public operations in any order, at most MaxOps each.   *)
(* A section that holds a mutex and makes no system call another thread   *)
(* could interleave with is one step; TcpServer::close() holds m_mutex     *)
(* over its three closes, and other threads' socket() and accept() (which *)
(* take no lock) interleave with them.  Name resolution, bind/listen and   *)
(* connect succeed or fail nondeterministically.                           *)
(***************************************************************************)
EXTENDS Integers, FiniteSets, FiniteSetsExt

CONSTANTS
    Threads,
    Objs,       \* TcpSocket objects (constructed by clients, listen, accept)
    Fds,        \* descriptor numbers the process can be given
    MaxOps,     \* bound: operations each thread calls
    Free,       \* table entry of a closed number
    NoObj,      \* m_pServerSocket == 0
    NoOwner

None == -1      \* m_socket of TcpSocket() (line 27), and socket() failing

VARIABLES
    fdOwner,    \* fdOwner[n]: the object n is open for, or Free
    sock,       \* m_socket of each object
    life,       \* "unborn", "live" or "dead" (deleted)
    kind,       \* "client", "listener" or "accepted"
    server,     \* TcpServer::m_pServerSocket
    srvOwner,   \* holder of TcpServer::m_mutex across close()
    pc,         \* where each thread is
    tfd,        \* a thread's local descriptor (sock / clientSock)
    tobj,       \* the object a thread's current operation works for
    ops,        \* operations each thread has called
    misuse      \* history: some call hit another object's descriptor

vars == <<fdOwner, sock, life, kind, server, srvOwner, pc, tfd, tobj, ops, misuse>>

PCs == {"idle", "lCheck", "lSocket", "lBind", "lAssign", "aNative", "aAccept",
        "cClose", "cDelete", "cDelete2", "kCall", "kSocket", "kConnect",
        "dClose", "dClose2"}

TypeOK ==
    /\ fdOwner \in [Fds -> Objs \cup {Free}]
    /\ sock \in [Objs -> Fds \cup {None}]
    /\ life \in [Objs -> {"unborn", "live", "dead"}]
    /\ kind \in [Objs -> {"none", "client", "listener", "accepted"}]
    /\ server \in Objs \cup {NoObj}
    /\ srvOwner \in Threads \cup {NoOwner}
    /\ pc \in [Threads -> PCs]
    /\ tfd \in [Threads -> Fds \cup {None}]
    /\ tobj \in [Threads -> Objs \cup {NoObj}]
    /\ ops \in [Threads -> 0..MaxOps]
    /\ misuse \in BOOLEAN

Init ==
    /\ fdOwner = [n \in Fds |-> Free]
    /\ sock = [o \in Objs |-> None]
    /\ life = [o \in Objs |-> "unborn"]
    /\ kind = [o \in Objs |-> "none"]
    /\ server = NoObj
    /\ srvOwner = NoOwner
    /\ pc = [t \in Threads |-> "idle"]
    /\ tfd = [t \in Threads |-> None]
    /\ tobj = [t \in Threads |-> NoObj]
    /\ ops = [t \in Threads |-> 0]
    /\ misuse = FALSE

----------------------------------------------------------------------------
(* The descriptor table                                                    *)

FreeFds == {n \in Fds : fdOwner[n] = Free}

\* socket() / accept(): the lowest free number, or -1 when there is none.
Allocated == IF FreeFds = {} THEN None ELSE Min(FreeFds)

\* Does a call by object o on number n hit another object's descriptor?
Foreign(o, n) == n # None /\ fdOwner[n] \notin {o, Free}

\* A call by o on n (recv, select, accept, shutdown, setsockopt).
Use(o, n) == misuse' = (misuse \/ Foreign(o, n))

\* close(n) on behalf of o: whatever n is open for is closed.
CloseFd(o, n) ==
    /\ Use(o, n)
    /\ fdOwner' = IF n # None THEN [fdOwner EXCEPT ![n] = Free] ELSE fdOwner

\* Objects no thread has claimed yet.
Unclaimed == {o \in Objs : life[o] = "unborn" /\ o \notin {tobj[u] : u \in Threads}}

\* TcpSocket::isConnected (lines 132-136).
IsConnected(o) == sock[o] > 0

\* TcpSocket::nativeSocket (lines 56-60): m_socket, read under m_mutex.
nativeSocket(o) == sock[o]

Goto(t, from, to) == pc[t] = from /\ pc' = [pc EXCEPT ![t] = to]

\* A thread starts a new operation.
Begin(t, to, o) ==
    /\ pc[t] = "idle"
    /\ ops[t] < MaxOps
    /\ pc' = [pc EXCEPT ![t] = to]
    /\ tobj' = [tobj EXCEPT ![t] = o]
    /\ ops' = [ops EXCEPT ![t] = @ + 1]

Done(t) ==
    /\ pc' = [pc EXCEPT ![t] = "idle"]
    /\ tobj' = [tobj EXCEPT ![t] = NoObj]

----------------------------------------------------------------------------
(* TcpServer::listen (lines 38-78)                                         *)

ListenCall(t) ==
    /\ Begin(t, "lCheck", NoObj)
    /\ UNCHANGED <<fdOwner, sock, life, kind, server, srvOwner, tfd, misuse>>

\* Line 40: isListening() under its own lock scope.
ListenCheck(t) ==
    /\ pc[t] = "lCheck"
    /\ srvOwner = NoOwner
    /\ IF server # NoObj
         THEN Done(t)                                   \* "Already listening"
         ELSE pc' = [pc EXCEPT ![t] = "lSocket"] /\ UNCHANGED tobj
    /\ UNCHANGED <<fdOwner, sock, life, kind, server, srvOwner, tfd, ops, misuse>>

\* Lines 45-48: socket(), for the TcpSocket line 76 will create.
ListenSocket(t) ==
    /\ pc[t] = "lSocket"
    /\ \/ /\ Allocated = None
          /\ Done(t)
          /\ UNCHANGED fdOwner
       \/ \E o \in Unclaimed :
          /\ Allocated # None
          /\ fdOwner' = [fdOwner EXCEPT ![Allocated] = o]
          /\ tobj' = [tobj EXCEPT ![t] = o]
          /\ pc' = [pc EXCEPT ![t] = "lBind"]
    /\ tfd' = [tfd EXCEPT ![t] = Allocated]
    /\ UNCHANGED <<sock, life, kind, server, srvOwner, ops, misuse>>

\* Lines 50-73: bind and listen succeed, or one fails and sock is closed.
ListenBind(t) ==
    /\ pc[t] = "lBind"
    /\ \/ pc' = [pc EXCEPT ![t] = "lAssign"] /\ UNCHANGED <<fdOwner, tobj, misuse>>
       \/ CloseFd(tobj[t], tfd[t]) /\ Done(t)
    /\ UNCHANGED <<sock, life, kind, server, srvOwner, tfd, ops>>

\* Lines 75-77 and the TcpSocket(sock) constructor (31-44, setsockopt).
ListenAssign(t) ==
    /\ pc[t] = "lAssign"
    /\ srvOwner = NoOwner
    /\ LET o == tobj[t] IN
       /\ server' = o
       /\ life' = [life EXCEPT ![o] = "live"]
       /\ kind' = [kind EXCEPT ![o] = "listener"]
       /\ sock' = [sock EXCEPT ![o] = tfd[t]]
       /\ Use(o, tfd[t])
    /\ Done(t)
    /\ UNCHANGED <<fdOwner, srvOwner, tfd, ops>>

----------------------------------------------------------------------------
(* TcpServer::accept (lines 80-124)                                        *)

AcceptCall(t) ==
    /\ Begin(t, "aNative", NoObj)
    /\ UNCHANGED <<fdOwner, sock, life, kind, server, srvOwner, tfd, misuse>>

\* Lines 83-96: isListening(), then nativeSocket() (lines 142-149) under
\* the lock; -1 when there is no server socket.
AcceptNative(t) ==
    /\ pc[t] = "aNative"
    /\ srvOwner = NoOwner
    /\ IF server = NoObj
         THEN Done(t) /\ UNCHANGED tfd
         ELSE /\ pc' = [pc EXCEPT ![t] = "aAccept"]
              /\ tobj' = [tobj EXCEPT ![t] = server]
              /\ tfd' = [tfd EXCEPT ![t] = sock[server]]
    /\ UNCHANGED <<fdOwner, sock, life, kind, server, srvOwner, ops, misuse>>

\* Lines 98-123, without the lock: select and accept on the number read
\* above.  Either nothing arrives within the second, accept fails, or a
\* connection is accepted into a new TcpSocket (setsockopt on it).
AcceptAccept(t) ==
    /\ pc[t] = "aAccept"
    /\ Use(tobj[t], tfd[t])
    /\ \/ UNCHANGED <<fdOwner, sock, life, kind>>
       \/ \E p \in Unclaimed :
          /\ Allocated # None
          /\ fdOwner' = [fdOwner EXCEPT ![Allocated] = p]
          /\ sock' = [sock EXCEPT ![p] = Allocated]
          /\ life' = [life EXCEPT ![p] = "live"]
          /\ kind' = [kind EXCEPT ![p] = "accepted"]
    /\ Done(t)
    /\ UNCHANGED <<server, srvOwner, tfd, ops>>

----------------------------------------------------------------------------
(* TcpServer::close (lines 126-134), holding m_mutex throughout            *)

ServerCloseCall(t) ==
    /\ Begin(t, "cClose", NoObj)
    /\ srvOwner = NoOwner
    /\ srvOwner' = t
    /\ UNCHANGED <<fdOwner, sock, life, kind, server, tfd, misuse>>

\* Line 130: m_pServerSocket->close() (TcpSocket::close, lines 110-130).
ServerCloseSocket(t) ==
    /\ pc[t] = "cClose"
    /\ IF server = NoObj
         THEN /\ srvOwner' = NoOwner
              /\ Done(t)
              /\ UNCHANGED <<fdOwner, misuse>>
         ELSE /\ CloseFd(server, sock[server])
              /\ pc' = [pc EXCEPT ![t] = "cDelete"]
              /\ UNCHANGED <<srvOwner, tobj>>
    /\ UNCHANGED <<sock, life, kind, server, tfd, ops>>

\* Line 131: delete; ~TcpSocket (lines 46-54) calls close() again ...
ServerCloseDelete(t) ==
    /\ Goto(t, "cDelete", "cDelete2")
    /\ CloseFd(server, sock[server])
    /\ UNCHANGED <<sock, life, kind, server, srvOwner, tfd, tobj, ops>>

\* ... and then ::close(m_socket) (line 52); line 132 clears the pointer.
ServerCloseFinish(t) ==
    /\ pc[t] = "cDelete2"
    /\ CloseFd(server, sock[server])
    /\ life' = [life EXCEPT ![server] = "dead"]
    /\ server' = NoObj
    /\ srvOwner' = NoOwner
    /\ Done(t)
    /\ UNCHANGED <<sock, kind, tfd, ops>>

----------------------------------------------------------------------------
(* TcpSocket, on objects the application holds                             *)

AppObjs == {o \in Objs : life[o] = "live" /\ kind[o] \in {"client", "accepted"}}

\* TcpSocket() (lines 20-29): m_socket = -1.
Construct(t) ==
    /\ pc[t] = "idle"
    /\ ops[t] < MaxOps
    /\ \E o \in Unclaimed :
          /\ life' = [life EXCEPT ![o] = "live"]
          /\ kind' = [kind EXCEPT ![o] = "client"]
    /\ ops' = [ops EXCEPT ![t] = @ + 1]
    /\ UNCHANGED <<fdOwner, sock, server, srvOwner, pc, tfd, tobj, misuse>>

ConnectCall(t, o) ==
    /\ Begin(t, "kCall", o)
    /\ UNCHANGED <<fdOwner, sock, life, kind, server, srvOwner, tfd, misuse>>

\* Lines 140-142: a connected socket is closed first (m_socket is kept).
ConnectClose(t) ==
    /\ Goto(t, "kCall", "kSocket")
    /\ IF IsConnected(tobj[t])
         THEN CloseFd(tobj[t], sock[tobj[t]])
         ELSE UNCHANGED <<fdOwner, misuse>>
    /\ UNCHANGED <<sock, life, kind, server, srvOwner, tfd, tobj, ops>>

\* Lines 144-148.
ConnectSocket(t) ==
    /\ pc[t] = "kSocket"
    /\ IF Allocated = None
         THEN Done(t) /\ UNCHANGED fdOwner
         ELSE /\ fdOwner' = [fdOwner EXCEPT ![Allocated] = tobj[t]]
              /\ pc' = [pc EXCEPT ![t] = "kConnect"]
              /\ UNCHANGED tobj
    /\ tfd' = [tfd EXCEPT ![t] = Allocated]
    /\ UNCHANGED <<sock, life, kind, server, srvOwner, ops, misuse>>

\* Lines 150-160: connect succeeds and m_socket = sock, or it fails and
\* sock is left open.
ConnectFinish(t) ==
    /\ pc[t] = "kConnect"
    /\ \/ sock' = [sock EXCEPT ![tobj[t]] = tfd[t]]
       \/ UNCHANGED sock
    /\ Done(t)
    /\ UNCHANGED <<fdOwner, life, kind, server, srvOwner, tfd, ops, misuse>>

\* TcpSocket::close (lines 110-130): shutdown and close nativeSocket(),
\* and m_socket keeps its value.
Close(t, o) ==
    /\ pc[t] = "idle" /\ ops[t] < MaxOps
    /\ CloseFd(o, nativeSocket(o))
    /\ ops' = [ops EXCEPT ![t] = @ + 1]
    /\ UNCHANGED <<sock, life, kind, server, srvOwner, pc, tfd, tobj>>

\* readBuffer / writeBuffer / available (lines 62-108): when isConnected(),
\* one call on m_socket.
Read(t, o) ==
    /\ pc[t] = "idle" /\ ops[t] < MaxOps
    /\ IsConnected(o)
    /\ Use(o, nativeSocket(o))
    /\ ops' = [ops EXCEPT ![t] = @ + 1]
    /\ UNCHANGED <<fdOwner, sock, life, kind, server, srvOwner, pc, tfd, tobj>>

\* ~TcpSocket (lines 46-54): close(), then ::close(m_socket) again.
DestroyCall(t, o) ==
    /\ Begin(t, "dClose", o)
    /\ CloseFd(o, sock[o])
    /\ UNCHANGED <<sock, life, kind, server, srvOwner, tfd>>

DestroyFinish(t) ==
    /\ pc[t] = "dClose"
    /\ CloseFd(tobj[t], sock[tobj[t]])
    /\ life' = [life EXCEPT ![tobj[t]] = "dead"]
    /\ Done(t)
    /\ UNCHANGED <<sock, kind, server, srvOwner, tfd, ops>>

----------------------------------------------------------------------------

Step(t) ==
    \/ ListenCheck(t) \/ ListenSocket(t) \/ ListenBind(t) \/ ListenAssign(t)
    \/ AcceptNative(t) \/ AcceptAccept(t)
    \/ ServerCloseSocket(t) \/ ServerCloseDelete(t) \/ ServerCloseFinish(t)
    \/ ConnectClose(t) \/ ConnectSocket(t) \/ ConnectFinish(t)
    \/ DestroyFinish(t)

Call(t) ==
    \/ ListenCall(t) \/ AcceptCall(t) \/ ServerCloseCall(t) \/ Construct(t)
    \/ \E o \in AppObjs :
          ConnectCall(t, o) \/ Close(t, o) \/ Read(t, o) \/ DestroyCall(t, o)

Next == \E t \in Threads : Call(t) \/ Step(t)

Spec == Init /\ [][Next]_vars

----------------------------------------------------------------------------

\* m_pServerSocket never points at a deleted TcpSocket: isListening(),
\* nativeSocket() and accept() only ever see a live server socket, because
\* close() deletes it and clears the pointer (lines 131-132) under m_mutex.
ServerNeverDangles == server # NoObj => life[server] = "live"

\* No call ever lands on another object's descriptor: no close, shutdown,
\* select, accept or recv made for one TcpSocket acts on a number that has
\* been handed to another since.
NoForeignDescriptorUse == ~misuse

\* No descriptor leaks: every open number is the m_socket of the object it
\* was opened for, or is held in a local by the call that opened it
\* (connectToHost's sock, listen's sock, lines 144 and 45).  connectToHost
\* returning false after a failed connect (line 160) breaks it.
NoLeakedDescriptor ==
    \A n \in Fds : fdOwner[n] # Free =>
        \/ sock[fdOwner[n]] = n
        \/ \E t \in Threads : pc[t] # "idle" /\ tfd[t] = n

\* A second listen() fails with "Already listening" (line 41): at most one
\* listening socket is ever open.
SingleListener ==
    Cardinality({o \in Objs : kind[o] = "listener" /\ life[o] = "live"
                              /\ sock[o] # None /\ fdOwner[sock[o]] = o}) <= 1

=============================================================================
