-------------------------------- MODULE Vfs ---------------------------------
(***************************************************************************)
(* The virtual file system: the server (srv/vfs: vfs.c, with bootfs.c and  *)
(* rootfs.c) and the library with which programs call it (libposix: vfs.c, *)
(* fdl.c).                                                                 *)
(*                                                                         *)
(* A program opens a connection when it starts: it shares with the server  *)
(* a page for file names and sends the number of its local port, by which  *)
(* the server finds the connection from then on, in a hash table.  A call  *)
(* writes a name, sends a command and waits for the reply on the local     *)
(* port; the data of a read follows its reply in pieces of a page.         *)
(*                                                                         *)
(* The server's loop is two actions, serve and send: sending waits when    *)
(* the port is full.  A program has one thread in these calls (libposix    *)
(* has no lock here) and ends between calls.  bootfs is mounted on BootDir *)
(* and holds Files; rootfs on RootDir holds no files.  Every error is one  *)
(* failed reply.  Left out: the areas of 8k that come with each open and   *)
(* are never filled, the names of rootfs, which only a listing shows, and  *)
(* opening or stat-ing BootDir itself, which reads the name page past the  *)
(* name.                                                                   *)
(***************************************************************************)
EXTENDS Hash, FiniteSets

CONSTANTS Programs,      \* the programs that may start, each once
          PortIds,       \* identifiers of local ports
          Files, Missing, BootDir, RootDir,  \* of files, of nothing, and two
                                             \* directories
          NoName,        \* what the name page holds before the first call
          FileSize,      \* the size of each file
          Page,          \* bytes in a piece, 0x1000
          Counts,        \* bytes asked for by a read
          MAX_FDS,       \* descriptors of a connection, 256
          OwnFds,        \* descriptors of a program that can be files
          MAX_MSGCOUNT,  \* messages a port holds
          Role,          \* Role[n], what program n may do: cmds, the commands
                         \* it gives, names, the names it passes, and calls,
                         \* a bound on its calls
          ReuseIds,      \* is the port of a program that ended used again?
          ReadsToEnd     \* do programs read at the end of a file?

Cmds == {"VFS_OPENCONN", "VFS_OPEN", "VFS_CLOSE", "VFS_READ", "VFS_RSTAT",
         "VFS_OPENDIR", "VFS_CLOSEDIR", "VFS_MKDIR"}

ASSUME VfsAssumption ==
    /\ PortIds \subseteq Nat /\ OwnFds \subseteq Nat
    /\ {FileSize, Page, MAX_FDS, MAX_MSGCOUNT} \subseteq Nat \ {0}
    /\ Role \in [Programs -> [cmds : SUBSET Cmds, calls : Nat,
                    names : SUBSET (Files \cup {Missing, BootDir, RootDir})]]
    /\ Counts \subseteq Nat \ {0}
    /\ NULL = 0 /\ {ReuseIds, ReadsToEnd} \subseteq BOOLEAN
    /\ Missing \notin Files /\ {BootDir, RootDir} \cap (Files \cup {Missing}) = {}
    /\ NoName \notin Files \cup {Missing, BootDir, RootDir}

\* The server's table has room for all the ports there are.
ASSUME RoomAssumption ==
    /\ IsFiniteSet(PortIds) /\ Len(TableSizes) >= 2
    /\ 4 * (Cardinality(PortIds) - 1) <= 3 * TableSizes[Len(TableSizes)]

VARIABLES conn,    \* conn_table: the index in client of each local port
          client,  \* client[c], the connections, which are never removed
          name,    \* name[n], what the name page of program n holds
          inq,     \* the messages in vfs_port and the ports slaved to it
          srv,     \* what the server is sending: [dst, left]
          outq,    \* outq[p], the messages in local port p
          proc     \* proc[n], program n

vars == <<conn, client, name, inq, srv, outq, proc>>

Fds   == 0 .. MAX_FDS - 1

\* A server's ofile, and a program's descriptor.
NoOfile == [vnode |-> NoName, o_pos |-> 0]
NoFd    == [srv_fd |-> 0, file |-> NoName, got |-> 0]

NoReq   == [cmd |-> "VFS_OPENCONN", fd |-> 0, count |-> 0]
Off     == [state |-> "off", port |-> 0, req |-> NoReq, left |-> 0, calls |-> 0,
            fds |-> [i \in OwnFds |-> NoFd], dirs |-> {}]

res(ok, val)      == [kind |-> "res", ok |-> ok, val |-> val, file |-> NoName,
                      from |-> 0]
data(f, from, len) == [kind |-> "data", ok |-> TRUE, val |-> len, file |-> f,
                       from |-> from]

Init ==
    /\ conn   = hashtable_new
    /\ client = <<>>
    /\ name   = [n \in Programs |-> NoName]
    /\ inq    = <<>>
    /\ srv    = [dst |-> 0, left |-> <<>>]
    /\ outq   = [p \in PortIds |-> <<>>]
    /\ proc   = [n \in Programs |-> Off]

-----------------------------------------------------------------------------
(* The server.  A command takes the connection c and the message q and     *)
(* gives the new connection and the messages to send.                      *)

Answer(c, msgs) == [client |-> c, msgs |-> msgs]
Fail(c)         == Answer(c, <<res(FALSE, 0)>>)

\* fs_find(): the file system of a name, and what it implements.
fs_find(path)   == IF path = RootDir THEN "rootfs" ELSE "bootfs"
Has(path, op)   ==
    op \in IF fs_find(path) = "bootfs"
           THEN {"open", "close", "read", "rstat", "opendir", "closedir"}
           ELSE {"opendir", "closedir", "mkdir"}
Walks(path)     == path \in Files

FreeFds(c)      == {i \in Fds : c.ofile[i] = NoOfile}
Least(S)      == CHOOSE i \in S : \A j \in S : i <= j

OpenAs(c, fd, path) == [c EXCEPT !.ofile[fd] = [vnode |-> path, o_pos |-> 0]]

vfs_open(c, q) ==
    LET path == name[c.nameptr]
        fd   == Least(FreeFds(c))
    IN  IF FreeFds(c) = {} \/ ~Has(path, "open") \/ ~Walks(path) THEN Fail(c)
        ELSE Answer(OpenAs(c, fd, path), <<res(TRUE, fd)>>)

\* Mutant: nothing is sent when the name is not a directory's.
vfs_opendir_silent(c, q) ==
    LET path == name[c.nameptr]
        fd   == Least(FreeFds(c))
    IN  IF FreeFds(c) = {} \/ path = Missing THEN Fail(c)
        ELSE IF path \in Files THEN Answer(OpenAs(c, fd, path), <<>>)
        ELSE Answer(OpenAs(c, fd, path), <<res(TRUE, fd)>>)

\* The descriptor is taken before bootfs_opendir() refuses a file, and stays
\* taken.
vfs_opendir(c, q) ==
    LET path == name[c.nameptr]
        fd   == Least(FreeFds(c))
    IN  IF FreeFds(c) = {} \/ path = Missing THEN Fail(c)
        ELSE Answer(OpenAs(c, fd, path), <<res(path \notin Files, fd)>>)

vfs_closedir(c, q) ==
    IF c.ofile[q.fd] = NoOfile THEN Fail(c)
    ELSE Answer([c EXCEPT !.ofile[q.fd] = NoOfile], <<res(TRUE, 0)>>)

\* The ofile stays in the table.
vfs_close(c, q) ==
    IF c.ofile[q.fd] = NoOfile THEN Fail(c)
    ELSE Answer(c, <<res(TRUE, 0)>>)

\* Mutant: the loop that cuts pieces ends one comparison late.
pieces_late(f, from, len) ==
    [i \in 1 .. (len \div Page) + 1 |->
        data(f, from + (i - 1) * Page,
             IF i <= len \div Page THEN Page ELSE len % Page)]

\* The pieces of a read of len bytes, one even when there are none.
pieces(f, from, len) ==
    LET n == IF len = 0 THEN 1 ELSE (len + Page - 1) \div Page
    IN  [i \in 1 .. n |-> data(f, from + (i - 1) * Page,
                               IF i < n THEN Page ELSE len - (n - 1) * Page)]

bootfs_read(o_pos, count) ==
    IF o_pos >= FileSize THEN 0
    ELSE IF count <= FileSize - o_pos THEN count ELSE FileSize - o_pos

\* Mutant: the position stays where it is.
vfs_read_unmoved(c, q) ==
    LET o   == c.ofile[q.fd]
        len == bootfs_read(o.o_pos, q.count)
    IN  IF o = NoOfile THEN Fail(c)
        ELSE Answer(c, <<res(TRUE, len)>> \o pieces(o.vnode, o.o_pos, len))

vfs_read(c, q) ==
    LET o   == c.ofile[q.fd]
        len == bootfs_read(o.o_pos, q.count)
    IN  IF o = NoOfile THEN Fail(c)
        ELSE Answer([c EXCEPT !.ofile[q.fd].o_pos = @ + len],
                    <<res(TRUE, len)>> \o pieces(o.vnode, o.o_pos, len))

vfs_rstat(c, q) ==
    LET path == name[c.nameptr] IN
    Answer(c, <<res(Has(path, "rstat") /\ Walks(path), 0)>>)

\* mkdir() gives 0 or an error number, and libposix takes neither for VFS_OK.
vfs_mkdir(c, q) == Fail(c)

handle(c, q) ==
    CASE q.cmd = "VFS_OPEN"     -> vfs_open(c, q)
      [] q.cmd = "VFS_OPENDIR"  -> vfs_opendir(c, q)
      [] q.cmd = "VFS_CLOSEDIR" -> vfs_closedir(c, q)
      [] q.cmd = "VFS_CLOSE"    -> vfs_close(c, q)
      [] q.cmd = "VFS_READ"     -> vfs_read(c, q)
      [] q.cmd = "VFS_RSTAT"    -> vfs_rstat(c, q)
      [] q.cmd = "VFS_MKDIR"    -> vfs_mkdir(c, q)

\* A second connection of the same port is a second entry of the table.
vfs_openconn ==
    LET q == Head(inq) IN
    /\ q.cmd = "VFS_OPENCONN"
    /\ client' = Append(client, [in      |-> q.src,
                                 nameptr |-> q.area,
                                 ofile   |-> [i \in Fds |-> NoOfile]])
    /\ conn' = hashtable_insert(conn, q.src, Len(client) + 1)
    /\ srv'  = [dst |-> q.src, left |-> <<res(TRUE, 0)>>]

\* Connection c answers with a.
answer(c, q, a) ==
    /\ client' = [client EXCEPT ![c] = a.client]
    /\ srv' = [dst |-> q.src, left |-> a.msgs]

serve_cmd ==
    LET q == Head(inq) IN
    /\ q.cmd # "VFS_OPENCONN"
    /\ \E c \in {hashtable_lookup(conn, q.src)} :
          \E a \in {handle(client[c], q)} : answer(c, q, a)
    /\ UNCHANGED conn

\* vfs_main(): take a command and do it.
serve ==
    /\ srv.left = <<>> /\ inq # <<>>
    /\ vfs_openconn \/ serve_cmd
    /\ inq' = Tail(inq)
    /\ UNCHANGED <<name, outq, proc>>

IsOpen(p) == \E n \in Programs : proc[n].state # "off" /\ proc[n].state # "ended"
                                 /\ proc[n].port = p

\* Sending to a port that is gone is an error, which the server ignores.
send ==
    /\ srv.left # <<>>
    /\ \/ /\ IsOpen(srv.dst)
          /\ Len(outq[srv.dst]) < MAX_MSGCOUNT
          /\ outq' = [outq EXCEPT ![srv.dst] = Append(@, Head(srv.left))]
       \/ ~IsOpen(srv.dst) /\ UNCHANGED outq
    /\ srv' = [srv EXCEPT !.left = Tail(@)]
    /\ UNCHANGED <<conn, client, name, inq, proc>>

-----------------------------------------------------------------------------
(* Program n.                                                              *)

\* Send a command and wait for the reply; sending waits for room.
call(n, p, req) ==
    /\ Len(inq) < MAX_MSGCOUNT
    /\ proc[n].calls < Role[n].calls /\ req.cmd \in Role[n].cmds
    /\ inq' = Append(inq, [src |-> p, area |-> n, cmd |-> req.cmd,
                            fd |-> req.fd, count |-> req.count])
    /\ proc' = [proc EXCEPT ![n].state = "wait", ![n].port = p, ![n].req = req,
                            ![n].calls = @ + 1]
    /\ UNCHANGED <<conn, client, srv, outq>>

Request(cmd, fd, count) == [cmd |-> cmd, fd |-> fd, count |-> count]

\* The identifiers free for a new port; which one it gets does not matter.
FreeIds ==
    {p \in PortIds : \A m \in Programs : proc[m].port = p =>
                        proc[m].state = IF ReuseIds THEN "ended" ELSE "off"}

\* __libc_init_vfs(), when the program starts.
libc_init_vfs(n, p) ==
    /\ proc[n].state = "off"
    /\ p \in FreeIds /\ p = Least(FreeIds)
    /\ call(n, p, Request("VFS_OPENCONN", 0, 0))
    /\ UNCHANGED name

\* _open(), _opendir(), _stat() and _mkdir(): a command with a name.
call_named(n, cmd, path) ==
    /\ proc[n].state = "idle"
    /\ cmd \in {"VFS_OPEN", "VFS_RSTAT"} => path # BootDir
    /\ name' = [name EXCEPT ![n] = path]
    /\ call(n, proc[n].port, Request(cmd, 0, 0))

\* _vfs_read() and _vfs_close() on descriptor i.
read(n, i, count) ==
    /\ proc[n].state = "idle" /\ proc[n].fds[i] # NoFd
    /\ ReadsToEnd \/ proc[n].fds[i].got < FileSize
    /\ call(n, proc[n].port, Request("VFS_READ", proc[n].fds[i].srv_fd, count))
    /\ UNCHANGED name

close(n, i) ==
    /\ proc[n].state = "idle" /\ proc[n].fds[i] # NoFd
    /\ call(n, proc[n].port, Request("VFS_CLOSE", proc[n].fds[i].srv_fd, 0))
    /\ UNCHANGED name

closedir(n, fd) ==
    /\ proc[n].state = "idle" /\ fd \in proc[n].dirs
    /\ call(n, proc[n].port, Request("VFS_CLOSEDIR", fd, 0))
    /\ UNCHANGED name

\* What the program holds once a call other than a read has been answered.
\* A file for which it has no descriptor left stays open at the server.
FreeOwn(p) == {i \in OwnFds : p.fds[i] = NoFd}
Holding(n, p, r) ==
    CASE p.req.cmd = "VFS_OPEN" /\ r.ok /\ FreeOwn(p) # {} ->
           [p EXCEPT !.fds[Least(FreeOwn(p))] =
               [srv_fd |-> r.val, file |-> name[n], got |-> 0]]
      [] p.req.cmd = "VFS_CLOSE" ->
           [p EXCEPT !.fds = [i \in OwnFds |->
               IF @[i] # NoFd /\ @[i].srv_fd = p.req.fd THEN NoFd ELSE @[i]]]
      [] p.req.cmd = "VFS_OPENDIR" /\ r.ok ->
           [p EXCEPT !.dirs = @ \cup {r.val}]
      [] p.req.cmd = "VFS_CLOSEDIR" -> [p EXCEPT !.dirs = @ \ {p.req.fd}]
      [] OTHER -> p

\* Receive on program n's port a message of the kind it expects.
recv(n, kind) ==
    /\ outq[proc[n].port] # <<>>
    /\ Head(outq[proc[n].port]).kind = kind
    /\ outq' = [outq EXCEPT ![proc[n].port] = Tail(@)]
    /\ UNCHANGED <<conn, client, name, inq, srv>>

take_reply(n) ==
    LET p == proc[n]
        r == Head(outq[p.port])
    IN  /\ p.state = "wait"
        /\ recv(n, "res")
        /\ proc' = [proc EXCEPT ![n] =
               IF p.req.cmd = "VFS_READ" /\ r.val # 0
               THEN [p EXCEPT !.state = "data", !.left = r.val]
               ELSE [Holding(n, p, r) EXCEPT !.state = "idle", !.req = NoReq]]

\* One piece; the last one is the one after which at most a page was left.
take_piece(n) ==
    LET p    == proc[n]
        took == IF p.left > Page THEN Page ELSE p.left
        more == [p EXCEPT !.left = @ - took,
                          !.fds = [i \in OwnFds |->
                              IF p.fds[i] # NoFd /\ p.fds[i].srv_fd = p.req.fd
                              THEN [p.fds[i] EXCEPT !.got = @ + took]
                              ELSE p.fds[i]]]
    IN  /\ p.state = "data"
        /\ recv(n, "data")
        /\ proc' = [proc EXCEPT ![n] =
               IF more.left > 0 THEN more
               ELSE [more EXCEPT !.state = "idle", !.req = NoReq]]

\* The program ends, and its port with it.
exit(n) ==
    /\ proc[n].state = "idle"
    /\ proc' = [proc EXCEPT ![n] = [Off EXCEPT !.state = "ended",
                                               !.port = proc[n].port]]
    /\ outq' = [outq EXCEPT ![proc[n].port] = <<>>]
    /\ UNCHANGED <<conn, client, name, inq, srv>>

Calls(n) ==
    \/ \E cmd \in {"VFS_OPEN", "VFS_OPENDIR", "VFS_RSTAT", "VFS_MKDIR"},
          path \in Role[n].names : call_named(n, cmd, path)
    \/ \E i \in OwnFds, count \in Counts : read(n, i, count)
    \/ \E i \in OwnFds : close(n, i)
    \/ \E fd \in Fds : closedir(n, fd)

takes(n) == take_reply(n) \/ take_piece(n)

Next ==
    \/ serve \/ send
    \/ \E n \in Programs :
          \/ \E p \in PortIds : libc_init_vfs(n, p)
          \/ Calls(n) \/ takes(n) \/ exit(n)

\* The server's thread runs, and so does a program's when a message is there.
Fairness == /\ WF_vars(serve) /\ WF_vars(send)
            /\ \A n \in Programs : WF_vars(takes(n))
Spec == Init /\ [][Next]_vars /\ Fairness

-----------------------------------------------------------------------------
(* Properties.                                                             *)

Running(n) == proc[n].state \in {"idle", "wait", "data"}

\* What is on its way to program n, and its requests that wait.
Due(n) == outq[proc[n].port]
          \o (IF srv.dst = proc[n].port THEN srv.left ELSE <<>>)
Asked(n) == {i \in 1 .. Len(inq) : inq[i].src = proc[n].port}

\* The messages are the pieces of left bytes of one file, in order.
CutInto(msgs, left) ==
    /\ Len(msgs) = (left + Page - 1) \div Page
    /\ \A i \in 1 .. Len(msgs) :
           /\ msgs[i].kind = "data" /\ msgs[i].file = msgs[1].file
           /\ msgs[i].from = msgs[1].from + (i - 1) * Page
           /\ msgs[i].val = IF i < Len(msgs) THEN Page
                            ELSE left - (i - 1) * Page

\* A program gets what it waits for and nothing else (vfs.c:625-656 with
\* libposix vfs.c:240-289): between calls nothing is on its way; in a call,
\* the request waits at the server or else the reply and the pieces it
\* announces are on their way, in order, with no message left over for the
\* next call.  Holds when programs do not read at the end of a file.
CallsAnswered ==
    \A n \in Programs : Running(n) =>
        CASE proc[n].state = "idle" -> Due(n) = <<>> /\ Asked(n) = {}
          [] proc[n].state = "data" -> CutInto(Due(n), proc[n].left)
                                       /\ Asked(n) = {}
          [] OTHER -> \/ Cardinality(Asked(n)) = 1 /\ Due(n) = <<>>
                      \/ /\ Asked(n) = {} /\ Due(n) # <<>>
                         /\ Head(Due(n)).kind = "res"
                         /\ CutInto(Tail(Due(n)),
                                    IF proc[n].req.cmd = "VFS_READ"
                                    THEN Head(Due(n)).val ELSE 0)

\* The connection the server uses for program n.
ClientOf(n) == client[hashtable_lookup(conn, proc[n].port)]

\* The two descriptor tables agree (vfs.c:221-283, 320-357, fdl.c:67-138): a
\* descriptor that a program holds is the server's one for the file it asked
\* for, at the byte after those it was given, and no two share one.  Holds
\* when no local port is used again.
DescriptorsServed ==
    \A n \in Programs : proc[n].state = "idle" =>
        /\ \A i \in OwnFds : proc[n].fds[i] # NoFd =>
               LET f == proc[n].fds[i] IN
               /\ ClientOf(n).ofile[f.srv_fd] = [vnode |-> f.file, o_pos |-> f.got]
               /\ \A j \in OwnFds \ {i} : proc[n].fds[j] # NoFd =>
                                             proc[n].fds[j].srv_fd # f.srv_fd
        /\ \A d \in proc[n].dirs : ClientOf(n).ofile[d].vnode \in {BootDir, RootDir}

\* Every call returns (vfs.c:551-658): the server answers each command, also
\* one that fails, and is never stuck for good sending to a full port.
CallsReturn ==
    \A n \in Programs : proc[n].state \in {"wait", "data"} ~> proc[n].state = "idle"
=============================================================================
