----------------------------- MODULE AsmServer -----------------------------
(***************************************************************************)
(* pwnColledge/computing101/serverAssembly/post_server.s: a web server     *)
(* that forks a child per connection.  GET answers with the first          *)
(* BufferSize bytes of a file, POST writes the body of the request to it.  *)
(*                                                                         *)
(* A request is read with one read(), so what counts is how much of it has *)
(* arrived: 1 stands for a part of the request line, 2 for the line, 3 for *)
(* everything up to the CR of the empty line, 4 + k for k bytes of body;   *)
(* of a GET nothing after the line is looked at.                           *)
(* The results of the system calls are not tested anywhere in the program. *)
(***************************************************************************)
EXTENDS Integers, Sequences, FiniteSets, SequencesExt

CONSTANTS
    Clients,
    Method, Path, Body, \* per client: what it asks for
    Silent,             \* clients that may never send
    Missing,            \* no file at a path
    OldFile,            \* what a file may hold at the start
    Backlog,            \* connections that may wait for accept()
    BufferSize,         \* 1024
    MaxForks,           \* children the kernel allows
    MaxFaults           \* bound: accept() calls that fail

NoConn == "none"
Listener == "listen"

ASSUME AsmServerAssumption ==
    /\ Silent \subseteq Clients /\ NoConn \notin Clients /\ Listener \notin Clients
    /\ \A c \in Clients : Method[c] \in {"GET", "POST"} /\ Body[c] \in Seq(Nat)
    /\ OldFile \in Seq(Nat) /\ Missing \notin Seq(Nat)
    /\ Backlog \in Nat \ {0} /\ BufferSize \in Nat /\ MaxForks \in Nat /\ MaxFaults \in Nat

VARIABLES
    parent,             \* where the parent is
    rbx,                \* the descriptor accept() returned
    holds,              \* per process, the parent is 0: its open sockets
    backlog,            \* connections that wait for accept()
    bound,              \* whether bind() succeeded
    nforks,             \* children so far: none is waited for
    child,              \* per child: where it is
    serves,             \* per child: its client
    file_fd,            \* per child: whether open() succeeded
    file_buffer,        \* per child: what it read of the file
    file,               \* per path: the contents of the file
    arrived,            \* per client: how much of its request has arrived
    request_length,     \* per client: how much of it read() returned
    gone,               \* clients that closed their end
    answer,             \* per client: what it was sent
    connected,          \* clients that connected
    acked,              \* history: per client, the POSTs answered when it connected
    wrote,              \* history: per client, the bytes write() put in the file
    failed,             \* history: children of which a call on a file failed or fell short
    nfaults

Pids == 1 .. MaxForks
Paths == {Path[c] : c \in Clients}

server  == <<parent, rbx, backlog, bound, nforks, nfaults>>
process == <<child, serves, file_fd, file_buffer>>
peers   == <<arrived, gone, connected, acked>>
history == <<request_length, wrote, failed>>
vars == <<server, holds, process, file, peers, answer, history>>

NoAnswer == [ok |-> FALSE, content |-> <<>>]
RequestLength(c) == IF Method[c] = "GET" THEN 2 ELSE 4 + Len(Body[c])

Init ==
    /\ parent = "socket"
    /\ rbx = NoConn
    /\ holds = [p \in {0} \cup Pids |-> {}]
    /\ backlog = <<>>
    /\ bound = FALSE
    /\ nforks = 0
    /\ child = [p \in Pids |-> "none"]
    /\ serves = [p \in Pids |-> NoConn]
    /\ file_fd = [p \in Pids |-> FALSE]
    /\ file_buffer = [p \in Pids |-> <<>>]
    /\ file \in [Paths -> {Missing, OldFile}]
    /\ arrived = [c \in Clients |-> 0]
    /\ request_length = [c \in Clients |-> 0]
    /\ gone = {}
    /\ answer = [c \in Clients |-> NoAnswer]
    /\ connected = {}
    /\ acked = [c \in Clients |-> {}]
    /\ wrote = [c \in Clients |-> 0]
    /\ failed = {}
    /\ nfaults = 0

-----------------------------------------------------------------------------
(* The clients.                                                            *)

Listening == \E p \in {0} \cup Pids : Listener \in holds[p]

\* The server's end is open, or waits for accept() at a listening socket.
Open(c) ==
    \/ \E p \in {0} \cup Pids : c \in holds[p]
    \/ Listening /\ \E i \in 1 .. Len(backlog) : backlog[i] = c

Connect(c) ==
    /\ c \notin connected
    /\ bound /\ Listening
    /\ Len(backlog) < Backlog
    /\ backlog' = Append(backlog, c)
    /\ connected' = connected \cup {c}
    /\ acked' = [acked EXCEPT ![c] = {d \in Clients : Method[d] = "POST" /\ answer[d].ok}]
    /\ UNCHANGED <<parent, rbx, bound, nforks, nfaults, holds, process, file,
                   arrived, gone, answer, history>>

\* More of the request arrives, cut anywhere; what comes after the read() is
\* never looked at.
Send(c) ==
    /\ Open(c) /\ c \notin gone /\ request_length[c] = 0
    /\ \E n \in arrived[c] + 1 .. RequestLength(c) : arrived' = [arrived EXCEPT ![c] = n]
    /\ UNCHANGED <<server, holds, process, file, gone, connected, acked, answer, history>>

\* The client closes its end: read() no longer waits for it.
Hangup(c) ==
    /\ Open(c) /\ c \notin gone
    /\ gone' = gone \cup {c}
    /\ UNCHANGED <<server, holds, process, file, arrived, connected, acked, answer, history>>

-----------------------------------------------------------------------------
(* The parent.                                                             *)

\* socket(), bind(), listen(); a port that is taken leaves the server at
\* another one.
Setup ==
    /\ parent = "socket"
    /\ bound' \in BOOLEAN
    /\ holds' = [holds EXCEPT ![0] = {Listener}]
    /\ parent' = "accept"
    /\ UNCHANGED <<rbx, backlog, nforks, nfaults, process, file, peers, answer, history>>

\* accept() waits for a connection; it may also fail.
Accept ==
    /\ parent = "accept"
    /\ \/ /\ backlog # <<>>
          /\ rbx' = Head(backlog)
          /\ backlog' = Tail(backlog)
          /\ holds' = [holds EXCEPT ![0] = @ \cup {Head(backlog)}]
          /\ UNCHANGED nfaults
       \/ /\ nfaults < MaxFaults
          /\ nfaults' = nfaults + 1
          /\ rbx' = NoConn
          /\ UNCHANGED <<backlog, holds>>
    /\ parent' = "fork"
    /\ UNCHANGED <<bound, nforks, process, file, peers, answer, history>>

\* fork(): the child gets every descriptor.  A failure is not 0 either.
Fork ==
    /\ parent = "fork"
    /\ IF nforks < MaxForks
       THEN /\ nforks' = nforks + 1
            /\ child' = [child EXCEPT ![nforks + 1] = "close"]
            /\ serves' = [serves EXCEPT ![nforks + 1] = rbx]
            /\ holds' = [holds EXCEPT ![nforks + 1] = holds[0]]
       ELSE UNCHANGED <<nforks, child, serves, holds>>
    /\ parent' = "close"
    /\ UNCHANGED <<rbx, backlog, bound, nfaults, file_fd, file_buffer, file, peers,
                   answer, history>>

\* Mutant: the parent keeps the connection.
ParentKeepsAll(fds, conn) == fds

ParentKeeps(fds, conn) == fds \ {conn}

ParentClose ==
    /\ parent = "close"
    /\ holds' = [holds EXCEPT ![0] = ParentKeeps(@, rbx)]
    /\ parent' = "accept"
    /\ UNCHANGED <<rbx, backlog, bound, nforks, nfaults, process, file, peers, answer, history>>

\* The server is killed; its children go on.
KillParent ==
    /\ parent \in {"accept", "fork", "close"}
    /\ parent' = "dead" /\ rbx' = NoConn
    /\ holds' = [holds EXCEPT ![0] = {}]
    /\ UNCHANGED <<backlog, bound, nforks, nfaults, process, file, peers, answer, history>>

-----------------------------------------------------------------------------
(* A child.                                                                *)

Goto(p, s) == child' = [child EXCEPT ![p] = s]

\* Mutant: the child keeps the listening socket.
ChildKeepsAll(fds) == fds

ChildKeeps(fds) == fds \ {Listener}

ChildClose(p) ==
    /\ child[p] = "close"
    /\ holds' = [holds EXCEPT ![p] = ChildKeeps(@)]
    /\ Goto(p, "read")
    /\ UNCHANGED <<server, serves, file_fd, file_buffer, file, peers, answer, history>>

\* The scans for the path and for the body stop only at a space or a CR: on a
\* prefix without one they run off the buffers, which ends the child.
Parsed(c, n) ==
    CASE n < 2                        -> "crash"
      [] n >= 2 /\ Method[c] = "GET"  -> "get_open"
      [] n = 2 /\ Method[c] = "POST"  -> "crash"
      [] n >= 3 /\ Method[c] = "POST" -> "post_open"

\* read(), which fails when the client reset the connection; then the path, the
\* method by its length, and the body are looked up.
Read(p) ==
    LET c == serves[p] IN
    /\ child[p] = "read"
    /\ IF c = NoConn
       THEN Goto(p, "crash") /\ UNCHANGED request_length
       ELSE /\ arrived[c] > 0 \/ c \in gone
            /\ \E n \in {arrived[c]} \cup (IF c \in gone THEN {0} ELSE {}) :
                  /\ request_length' = [request_length EXCEPT ![c] = n]
                  /\ Goto(p, Parsed(c, n))
    /\ UNCHANGED <<server, holds, serves, file_fd, file_buffer, file, peers, answer,
                   wrote, failed>>

\* Mutant: the answer is sent before the body is written.
AfterPostEarly == [post_open |-> "post_ok", post_ok |-> "post_write", post_write |-> "over"]

\* The order of the steps of a POST.
AfterPost == [post_open |-> "post_write", post_write |-> "post_ok", post_ok |-> "over"]

\* open(O_WRONLY | O_CREAT), which may fail: the old contents stay.
PostOpen(p) ==
    LET f == Path[serves[p]] IN
    /\ child[p] = "post_open"
    /\ \E ok \in BOOLEAN :
          /\ file_fd' = [file_fd EXCEPT ![p] = ok]
          /\ file' = IF ok /\ file[f] = Missing THEN [file EXCEPT ![f] = <<>>] ELSE file
          /\ failed' = IF ok THEN failed ELSE failed \cup {p}
    /\ Goto(p, AfterPost["post_open"])
    /\ UNCHANGED <<server, holds, serves, file_buffer, peers, answer, request_length, wrote>>

\* How much of the body was read; a write() of length -1 after a bare CR does
\* nothing.
BodyLength(c) == IF request_length[c] > 4 THEN request_length[c] - 4 ELSE 0

Overwritten(old, new) == new \o SubSeq(old, Len(new) + 1, Len(old))

\* write() at the start of the file, close().  Of what write() was given any
\* part may be missing from the file, or all: nobody looks at the result.
PostWrite(p) ==
    LET c == serves[p]
        f == Path[c]
    IN  /\ child[p] = "post_write"
        /\ \E n \in 0 .. (IF file_fd[p] THEN BodyLength(c) ELSE 0) :
              /\ wrote' = [wrote EXCEPT ![c] = n]
              /\ file' = IF n = 0 THEN file
                         ELSE [file EXCEPT ![f] = Overwritten(@, SubSeq(Body[c], 1, n))]
              /\ failed' = IF n = BodyLength(c) THEN failed ELSE failed \cup {p}
        /\ Goto(p, AfterPost["post_write"])
        /\ UNCHANGED <<server, holds, serves, file_fd, file_buffer, peers, answer, request_length>>

\* What reaches a client; SIGPIPE may end the child when it is gone.
Reply(p, c, a, next) ==
    \/ /\ c \notin gone
       /\ answer' = [answer EXCEPT ![c] = a]
       /\ Goto(p, next)
    \/ /\ c \in gone
       /\ Goto(p, next) \/ Goto(p, "crash")
       /\ UNCHANGED answer

PostOk(p) ==
    LET c == serves[p] IN
    /\ child[p] = "post_ok"
    /\ Reply(p, c, [answer[c] EXCEPT !.ok = TRUE], AfterPost["post_ok"])
    /\ UNCHANGED <<server, holds, serves, file_fd, file_buffer, file, peers, history>>

\* open(O_RDONLY), which may fail although there is a file.
GetOpen(p) ==
    LET f == Path[serves[p]] IN
    /\ child[p] = "get_open"
    /\ \E ok \in BOOLEAN :
          /\ ok => file[f] # Missing
          /\ file_fd' = [file_fd EXCEPT ![p] = ok]
          /\ failed' = IF ok \/ file[f] = Missing THEN failed ELSE failed \cup {p}
    /\ Goto(p, "get_read")
    /\ UNCHANGED <<server, holds, serves, file_buffer, file, peers, answer, request_length, wrote>>

\* read() of the file, which gives nothing without a descriptor and may give
\* less than there is; close().
GetRead(p) ==
    LET f == file[Path[serves[p]]]
        all == IF file_fd[p] THEN Min({Len(f), BufferSize}) ELSE 0
    IN  /\ child[p] = "get_read"
        /\ \E n \in 0 .. all :
              /\ file_buffer' = [file_buffer EXCEPT ![p] = IF n = 0 THEN <<>> ELSE SubSeq(f, 1, n)]
              /\ failed' = IF n = all THEN failed ELSE failed \cup {p}
        /\ Goto(p, "get_ok")
        /\ UNCHANGED <<server, holds, serves, file_fd, file, peers, answer, request_length, wrote>>

GetOk(p) ==
    LET c == serves[p] IN
    /\ child[p] = "get_ok"
    /\ Reply(p, c, [answer[c] EXCEPT !.ok = TRUE], "get_content")
    /\ UNCHANGED <<server, holds, serves, file_fd, file_buffer, file, peers, history>>

GetContent(p) ==
    LET c == serves[p] IN
    /\ child[p] = "get_content"
    /\ Reply(p, c, [answer[c] EXCEPT !.content = file_buffer[p]], "over")
    /\ UNCHANGED <<server, holds, serves, file_fd, file_buffer, file, peers, history>>

\* The socket is closed and the child exits, or a signal ends it; either way a
\* zombie remains.
Exit(p) ==
    /\ child[p] \in {"over", "crash"}
    /\ holds' = [holds EXCEPT ![p] = {}]
    /\ file_buffer' = [file_buffer EXCEPT ![p] = <<>>]
    /\ Goto(p, "zombie")
    /\ UNCHANGED <<server, serves, file_fd, file, peers, answer, history>>

-----------------------------------------------------------------------------
Parent == Setup \/ Accept \/ Fork \/ ParentClose

Child(p) ==
    \/ ChildClose(p) \/ Read(p)
    \/ PostOpen(p) \/ PostWrite(p) \/ PostOk(p)
    \/ GetOpen(p) \/ GetRead(p) \/ GetOk(p) \/ GetContent(p)
    \/ Exit(p)

Client(c) == Connect(c) \/ Send(c) \/ Hangup(c)

Next ==
    \/ Parent \/ KillParent
    \/ \E p \in Pids : Child(p)
    \/ \E c \in Clients : Client(c)

\* The kernel runs every process; a client that is not silent sends or leaves.
Spec ==
    /\ Init /\ [][Next]_vars
    /\ WF_vars(Parent)
    /\ \A p \in Pids : WF_vars(Child(p))
    /\ \A c \in Clients \ Silent : WF_vars(Send(c) \/ Hangup(c))

-----------------------------------------------------------------------------
(* Properties.                                                             *)

\* A connection is closed by everyone in the end, whether its request was
\* answered, arrived in pieces, or found no process to serve it, and although
\* the children of other clients wait for ever or the server is killed.
Served ==
    \A c \in Clients \ Silent : Open(c) ~> ~Open(c)

\* The clients that have something in a file.
Writers == {c \in Clients : wrote[c] > 0}

\* What is left of the body of d: all that was read, or what write() took of it
\* when open() or write() failed.
Stored(d) ==
    SubSeq(Body[d], 1, IF \E q \in failed : serves[q] = d THEN wrote[d] ELSE BodyLength(d))

\* Once a POST has its 200 OK, a GET that connects later and is answered was
\* sent what is left of its body, unless another POST wrote to the path: the
\* whole of it up to the size of the buffer, or as much as its own open() and
\* read() gave when they failed.
ReadYourPost ==
    \A c \in Clients, p \in Pids :
        Method[c] = "GET" /\ serves[p] = c /\ child[p] = "over" /\ c \notin gone =>
            \A d \in acked[c] :
                Path[d] = Path[c] /\ (\A e \in Writers \ {d} : Path[e] # Path[c]) =>
                    LET content == answer[c].content
                        room == IF p \in failed THEN Len(content) ELSE BufferSize
                    IN  IsPrefix(SubSeq(Stored(d), 1, Min({Len(Stored(d)), room})), content)

\* When the server is killed its port becomes free, although children may still
\* wait for clients that never send.
ListenerReleased ==
    parent = "dead" ~> ~Listening
=============================================================================
