------------------------------ MODULE Sockets ------------------------------
(***************************************************************************)
(* src/SocketImpl.cpp: socket objects, the descriptors they name and the   *)
(* open files behind these.                                                *)
(*                                                                         *)
(* A request is given a descriptor number when it is submitted, and the    *)
(* kernel looks the open file up at that moment: a request that is         *)
(* submitted again after its socket was closed may find another file under *)
(* the number.  Nothing but submit_close closes a descriptor, and the      *)
(* numbers that are free are used again, lowest first.                     *)
(***************************************************************************)
EXTENDS IPAddress

CONSTANTS
    Objects,        \* identities of SocketImpl objects
    Files,          \* identities of open files, for the kernel
    Fds,            \* descriptor numbers the process may have
    Ports,          \* local ports, in host order
    Hosts,          \* addresses of other machines
    Groups,         \* multicast groups, with the interface to join them on
    Stale,          \* what an accept item's address buffer may hold
    Wanted,         \* the types and kinds of sockets the program makes
    LateAnswers,    \* what receive callbacks answer once a close was submitted
    ClosesMidReceive    \* whether the program closes a socket while a receive is on
                        \* its way, rather than before one or in its callback

SocketTypes == {"UNKNOWN", "IPV4_UDP", "IPV4_TCP", "IPV6_UDP", "IPV6_TCP"}
SocketKinds == {"MULTICAST_PACKET_SOCKET", "SERVER_STREAM_SOCKET", "UNICAST_CLIENT_SOCKET"}
Operations == {"ACCEPT", "CONNECT", "RECV", "SEND", "CLOSE"}

PortNumbers == {n \in Nat : n < 65536}

\* The members of a SocketImpl.
SocketStates == [m_type : SocketTypes, m_kind : SocketKinds, m_port : PortNumbers,
                 m_fd : Fds, m_mreq : Groups \cup {NULL}]

\* An open file: what it is, whether it shares its port, the port, the machine it
\* is connected to, its groups and the interface it sends to groups on.
FileStates == [is : {"stream", "datagram", "listening", "connected"}, reuse : BOOLEAN,
               port : Ports \cup {NULL}, peer : (Hosts \X PortNumbers) \cup {NULL},
               groups : SUBSET Groups, mcast_if : Groups \cup {NULL}]

\* A request: the file it is about, whether it was served, the descriptor an
\* accept returned, and where a connect goes and was meant to go.
SockAddrs == [sin_port : PortNumbers, sin_addr : Hosts]
RequestStates == [file : Files \cup {NULL}, done : BOOLEAN, fd : Fds \cup {NULL},
                  target : SockAddrs \cup {NULL}, wanted : (Hosts \X Ports) \cup {NULL}]

ASSUME SocketsAssumption ==
    /\ NULL \notin Objects
    /\ NULL \notin Files /\ NULL \notin Fds /\ NULL \notin Groups /\ NULL \notin Stale
    /\ NULL \notin SocketStates /\ NULL \notin RequestStates /\ NULL \notin SockAddrs
    /\ Fds \subseteq Nat \ {0}
    /\ Ports \subseteq PortNumbers /\ NULL \notin Ports
    /\ \A address \in Stale : address.sin_port \in PortNumbers
    /\ Wanted \subseteq SocketTypes \X SocketKinds
    /\ LateAnswers \subseteq {"NONE", "RE_SUBMIT"}
    /\ ClosesMidReceive \in BOOLEAN

VARIABLES
    socket,     \* socket[o]: the members of object o, or NULL
    closing,    \* the objects submit_close was called for
    making,     \* the object whose constructor is running, or NULL
    hearing,    \* the object whose receive callback is running, or NULL
    member,     \* the objects that joined a group and did not leave it
    fd_table,   \* fd_table[n]: the open file of descriptor n, or NULL
    file,       \* file[f]: what the kernel knows of open file f
    request,    \* request[o][op]: o's request of that kind, or NULL
    used,       \* ports of connections the kernel may still remember
    own,        \* for the properties: own[o] is the file o was made for
    leaked,     \* for the properties: numbers that were let go of unclosed
    aborted     \* "no", or why the process ended

kernelVars == <<fd_table, file, used>>
callVars == <<making, hearing>>
historyVars == <<own, leaked>>
vars == <<socket, closing, member, request, kernelVars, callVars, historyVars, aborted>>

NewFile == [is |-> "stream", reuse |-> FALSE, port |-> NULL, peer |-> NULL, groups |-> {}, mcast_if |-> NULL]

Init ==
    /\ socket = [o \in Objects |-> NULL]
    /\ closing = {}
    /\ making = NULL
    /\ hearing = NULL
    /\ member = {}
    /\ fd_table = [n \in Fds |-> NULL]
    /\ file = [f \in Files |-> NewFile]
    /\ request = [o \in Objects |-> [op \in Operations |-> NULL]]
    /\ used = {}
    /\ own = [o \in Objects |-> NULL]
    /\ leaked = {}
    /\ aborted = "no"

Running == aborted = "no"

\* The program may call the library: it does not construct a socket just now.
Idle == Running /\ making = NULL

is_stream(o) == socket[o].m_type \in {"IPV4_TCP", "IPV6_TCP"}

-----------------------------------------------------------------------------
(* The kernel's tables.                                                    *)

Requests(o) == {op \in Operations : request[o][op] # NULL}

\* A file is open while a descriptor or a request that was not served names it.
Open(f) ==
    \/ \E n \in Fds : fd_table[n] = f
    \/ \E o \in Objects : \E op \in Requests(o) :
          request[o][op].file = f /\ ~request[o][op].done

Unknown(f) == ~Open(f) /\ \A o \in Objects :
    /\ own[o] # f
    /\ \A op \in Requests(o) : request[o][op].file # f

FreeFds == {n \in Fds : fd_table[n] = NULL}
Lowest(n) == n \in FreeFds /\ \A m \in FreeFds : n <= m

\* bind fails for a port that another file of the protocol listens on.  Files that
\* do not, and the traces of connections, are in the way unless all share the port.
Datagram(f) == file[f].is = "datagram"
OnPort(f, port) == {g \in Files \ {f} :
    Open(g) /\ file[g].port = port /\ (Datagram(g) <=> Datagram(f))}
Conflict(f, port) ==
    \/ \E g \in OnPort(f, port) : file[g].is = "listening" \/ ~file[g].reuse
    \/ ~file[f].reuse /\ (OnPort(f, port) # {} \/ (~Datagram(f) /\ port \in used))

\* The kernel resolves the descriptor when it takes the request.
Resolve(o) == fd_table[socket[o].m_fd]

-----------------------------------------------------------------------------
(* Construction: socket, setsockopt, bind, and the listen or the option of *)
(* the kind.  A call that fails ends the process.                          *)

\* An object that no request refers to and no program holds.
Absent(o) == socket[o] = NULL /\ Requests(o) = {}

Dies(why) ==
    /\ aborted' = why
    /\ UNCHANGED <<socket, closing, member, request, kernelVars, callVars, historyVars>>

create_socket(o, type, kind, port) ==
    /\ Idle
    /\ Absent(o)
    /\ \/ type \in {"UNKNOWN", "IPV6_UDP"} /\ Dies("type")
       \/ type \notin {"UNKNOWN", "IPV6_UDP"} /\ FreeFds = {} /\ Dies("fd")
       \/ /\ type \notin {"UNKNOWN", "IPV6_UDP"}
          /\ \E f \in Files, n \in Fds :
                /\ Unknown(f) /\ Lowest(n)
                /\ socket' = [socket EXCEPT ![o] =
                      [m_type |-> type, m_kind |-> kind, m_port |-> port,
                       m_fd |-> n, m_mreq |-> NULL]]
                /\ fd_table' = [fd_table EXCEPT ![n] = f]
                /\ file' = [file EXCEPT ![f] = [NewFile EXCEPT
                      !.is = IF type = "IPV4_UDP" THEN "datagram" ELSE "stream"]]
                /\ own' = [own EXCEPT ![o] = f]
          /\ closing' = closing \ {o}
          /\ making' = o
          /\ UNCHANGED <<hearing, member, request, used, leaked, aborted>>

\* SO_REUSEADDR, and for a client no more than that.
set_reuse_address(o) ==
    /\ Running /\ making = o
    /\ ~file[Resolve(o)].reuse
    /\ file' = [file EXCEPT ![Resolve(o)].reuse = TRUE]
    /\ making' = IF socket[o].m_kind = "UNICAST_CLIENT_SOCKET" THEN NULL ELSE o
    /\ UNCHANGED <<socket, closing, hearing, member, fd_table, request, used, historyVars, aborted>>

\* Mutant: bind comes first.
before_reuse(o) == TRUE

\* "it is important to do 'reuse address' before bind, not after"
after_reuse(o) == file[Resolve(o)].reuse

\* Why bind fails: for want of a privilege, or for another process, at any time;
\* the address is one of IPv4; the port is taken.
BindErrors(o) ==
    {"denied"} \cup (IF socket[o].m_type = "IPV6_TCP" THEN {"kind"} ELSE {})
               \cup (IF Conflict(Resolve(o), socket[o].m_port) THEN {"bind"} ELSE {})

\* The bind of a server, and local_bind.
bind(o) ==
    /\ Running /\ making = o
    /\ socket[o].m_kind # "UNICAST_CLIENT_SOCKET"
    /\ after_reuse(o) /\ file[Resolve(o)].port = NULL
    /\ \/ \E why \in BindErrors(o) : Dies(why)
       \/ /\ BindErrors(o) = {"denied"}
          /\ file' = [file EXCEPT ![Resolve(o)].port = socket[o].m_port]
          /\ UNCHANGED <<socket, closing, member, fd_table, request, used, callVars,
                         historyVars, aborted>>

\* IP_MULTICAST_TTL is for sockets of datagrams.
set_multicast_ttl(o) ==
    /\ Running /\ making = o
    /\ socket[o].m_kind = "MULTICAST_PACKET_SOCKET" /\ file[Resolve(o)].port # NULL
    /\ \/ is_stream(o) /\ Dies("kind")
       \/ /\ ~is_stream(o)
          /\ making' = NULL
          /\ UNCHANGED <<socket, closing, hearing, member, request, kernelVars, historyVars, aborted>>

\* A socket of datagrams does not listen; another process may be faster.
listen(o) ==
    /\ Running /\ making = o
    /\ socket[o].m_kind = "SERVER_STREAM_SOCKET" /\ file[Resolve(o)].port # NULL
    /\ \/ Dies(IF is_stream(o) THEN "denied" ELSE "kind")
       \/ /\ is_stream(o)
          /\ file' = [file EXCEPT ![Resolve(o)].is = "listening"]
          /\ making' = NULL
          /\ UNCHANGED <<socket, closing, hearing, member, fd_table, request, used,
                         historyVars, aborted>>

\* Mutant: the descriptor of the connection is not passed on.
AcceptedSocketNoFd(result) ==
    [m_type |-> AcceptedType(result.m_address), m_kind |-> "SERVER_STREAM_SOCKET",
     m_port |-> AcceptedPort(result.m_address), m_fd |-> 0, m_mreq |-> NULL]

\* The constructor from an AcceptResult.
AcceptedSocket(result) ==
    [m_type |-> AcceptedType(result.m_address), m_kind |-> "SERVER_STREAM_SOCKET",
     m_port |-> AcceptedPort(result.m_address), m_fd |-> result.m_new_fd, m_mreq |-> NULL]

-----------------------------------------------------------------------------
(* Multicast groups.                                                       *)

\* The program joins and leaves in turn, and not once it closed the socket.
join_multicast_group(o, g) ==
    /\ Idle
    /\ socket[o] # NULL /\ ~is_stream(o) /\ o \notin closing \cup member
    /\ socket' = [socket EXCEPT ![o].m_mreq = g]
    /\ LET f == Resolve(o) IN
       IF f = NULL \/ g \in file[f].groups
       THEN aborted' = "join" /\ UNCHANGED <<file, member>>
       ELSE /\ file' = [file EXCEPT ![f].groups = @ \cup {g}]
            /\ member' = member \cup {o}
            /\ UNCHANGED aborted
    /\ UNCHANGED <<closing, fd_table, request, used, callVars, historyVars>>

\* Mutant: the group is forgotten before the kernel is told to drop it.
leave_forgets_first(o) ==
    /\ Idle
    /\ o \in member \ closing
    /\ socket' = [socket EXCEPT ![o].m_mreq = NULL]
    /\ aborted' = "leave"
    /\ UNCHANGED <<closing, member, request, kernelVars, callVars, historyVars>>

leave_multicast_group(o) ==
    /\ Idle
    /\ o \in member \ closing
    /\ LET f == Resolve(o) IN
       IF f = NULL \/ socket[o].m_mreq \notin file[f].groups
       THEN aborted' = "leave" /\ UNCHANGED <<file, member>>
       ELSE /\ file' = [file EXCEPT ![f].groups = @ \ {socket[o].m_mreq}]
            /\ member' = member \ {o}
            /\ UNCHANGED aborted
    /\ UNCHANGED <<socket, closing, fd_table, request, used, callVars, historyVars>>

\* With no group joined yet the interface is the default one.
mcast_bind(o) ==
    /\ Idle
    /\ socket[o] # NULL /\ ~is_stream(o) /\ o \notin closing
    /\ Resolve(o) # NULL
    /\ file' = [file EXCEPT ![Resolve(o)].mcast_if = socket[o].m_mreq]
    /\ UNCHANGED <<socket, closing, member, fd_table, request, used, callVars, historyVars, aborted>>

-----------------------------------------------------------------------------
(* Requests on a socket, by the number of its descriptor.                  *)

Submitted(o) == [file |-> Resolve(o), done |-> FALSE, fd |-> NULL, target |-> NULL, wanted |-> NULL]

\* What a program asks of a socket: an accept of one that listens, which it does
\* not close while it accepts, a connect of a stream that is not connected, data of
\* the others.  It asks nothing of a socket it closed.
Fits(o, op) ==
    LET is == file[own[o]].is IN
    \/ op = "ACCEPT" /\ is = "listening"
    \/ /\ op = "CLOSE" /\ request[o].ACCEPT = NULL /\ request[o].CONNECT = NULL
       /\ ClosesMidReceive \/ request[o].RECV = NULL \/ hearing = o
    \/ op \in {"RECV", "SEND"} /\ is \in {"connected", "datagram"}

\* submit_accept, submit_recv, send and submit_close, in a callback or not.
submit(o, op) ==
    /\ Idle
    /\ socket[o] # NULL /\ o \notin closing
    /\ request[o][op] = NULL
    /\ Fits(o, op)
    /\ request' = [request EXCEPT ![o][op] = Submitted(o)]
    /\ closing' = IF op = "CLOSE" THEN closing \cup {o} ELSE closing
    /\ UNCHANGED <<socket, member, kernelVars, callVars, historyVars, aborted>>

\* A target made from an address and a port, or an address whose port was unset, of
\* either family.
Targets(host, port) ==
    LET portless == [sin_port |-> 0, sin_addr |-> host] IN
    {IPv4Address(host, port), set_port(IPv4(portless), port), set_port(IPv6(portless), port)}

\* submit_connect copies the sockaddr of the target into the item; the assertion of
\* IOUring::submit knows one length of it.
submit_connect(o, host, port) ==
    /\ Idle
    /\ socket[o] # NULL /\ o \notin closing
    /\ request[o].CONNECT = NULL
    /\ file[own[o]].is = "stream"
    /\ \E target \in Targets(host, port) :
          IF size_sockaddr(target) = sizeof_sockaddr_in
          THEN /\ request' = [request EXCEPT ![o].CONNECT =
                     [Submitted(o) EXCEPT !.target = data_sockaddr(target), !.wanted = <<host, port>>]]
               /\ UNCHANGED aborted
          ELSE /\ aborted' = "target"
               /\ UNCHANGED request
    /\ UNCHANGED <<socket, closing, member, kernelVars, callVars, historyVars>>

-----------------------------------------------------------------------------
(* The kernel serves requests.                                             *)

Pending(o, op) == Running /\ request[o][op] # NULL /\ ~request[o][op].done

Done(o, op) == Running /\ request[o][op] # NULL /\ request[o][op].done

Finish(o, op) == request' = [request EXCEPT ![o][op].done = TRUE]

\* accept writes no address, as the length it is given is zero.
KernelAccepts(o) ==
    /\ Pending(o, "ACCEPT")
    /\ request[o].ACCEPT.file # NULL
    /\ LET port == file[request[o].ACCEPT.file].port IN
       \E f \in Files, n \in Fds :
          /\ Unknown(f) /\ Lowest(n)
          /\ fd_table' = [fd_table EXCEPT ![n] = f]
          /\ file' = [file EXCEPT ![f] = [NewFile EXCEPT !.is = "connected", !.port = port,
                !.reuse = file[request[o].ACCEPT.file].reuse]]
          /\ used' = used \cup {port}
          /\ request' = [request EXCEPT ![o].ACCEPT.done = TRUE, ![o].ACCEPT.fd = n]
    /\ UNCHANGED <<socket, closing, member, callVars, historyVars, aborted>>

\* connect reads the sockaddr, port and all, in network byte order.
KernelConnects(o) ==
    /\ Pending(o, "CONNECT")
    /\ LET c == request[o].CONNECT IN
       file' = [file EXCEPT ![c.file].is = "connected",
                            ![c.file].peer = <<c.target.sin_addr, get_port(IPv4(c.target))>>]
    /\ Finish(o, "CONNECT")
    /\ UNCHANGED <<socket, closing, member, fd_table, used, callVars, historyVars, aborted>>

\* An accept or a connect fails.
KernelRefuses(o, op) ==
    /\ op \in {"ACCEPT", "CONNECT"}
    /\ Pending(o, op)
    /\ Finish(o, op)
    /\ UNCHANGED <<socket, closing, member, kernelVars, callVars, historyVars, aborted>>

KernelTransfers(o, op) ==
    /\ op \in {"RECV", "SEND"}
    /\ Pending(o, op)
    /\ Finish(o, op)
    /\ UNCHANGED <<socket, closing, member, kernelVars, callVars, historyVars, aborted>>

\* The number is closed, whatever it names by now.
KernelCloses(o) ==
    /\ Pending(o, "CLOSE")
    /\ fd_table' = [fd_table EXCEPT ![socket[o].m_fd] = NULL]
    /\ Finish(o, "CLOSE")
    /\ UNCHANGED <<socket, closing, member, file, used, callVars, historyVars, aborted>>

\* The traces of old connections on a port end.
KernelForgets(port) ==
    /\ port \in used
    /\ ~\E f \in Files : Open(f) /\ file[f].is = "connected" /\ file[f].port = port
    /\ used' = used \ {port}
    /\ UNCHANGED <<socket, closing, member, fd_table, file, request, callVars, historyVars, aborted>>

-----------------------------------------------------------------------------
(* Completions are handled, one at a time.                                 *)

Handled(o, op) == Done(o, op) /\ making = NULL /\ hearing = NULL

\* The callback of an accept makes an object of the result; then the accept is
\* submitted again.
AcceptReturns(o, new, stale) ==
    /\ Handled(o, "ACCEPT")
    /\ request[o].ACCEPT.fd # NULL
    /\ Absent(new) /\ new # o
    /\ LET n == request[o].ACCEPT.fd IN
       /\ socket' = [socket EXCEPT ![new] = AcceptedSocket(
             [m_new_fd |-> n, m_address |-> FromStorage(stale, sizeof_sockaddr_in)])]
       /\ own' = [own EXCEPT ![new] = fd_table[n]]
    /\ closing' = closing \ {new}
    /\ request' = [request EXCEPT ![o].ACCEPT = Submitted(o)]
    /\ UNCHANGED <<member, kernelVars, callVars, leaked, aborted>>

\* No object is made: the accept failed, and nobody is called, or the callback
\* lets the result go.
AcceptResubmits(o) ==
    /\ Handled(o, "ACCEPT")
    /\ leaked' = leaked \cup ({request[o].ACCEPT.fd} \ {NULL})
    /\ request' = [request EXCEPT ![o].ACCEPT = Submitted(o)]
    /\ UNCHANGED <<socket, closing, member, kernelVars, callVars, own, aborted>>

\* The callback of a receive runs.
RecvCalls(o) ==
    /\ Handled(o, "RECV")
    /\ hearing' = o
    /\ UNCHANGED <<socket, closing, member, request, kernelVars, making, historyVars, aborted>>

\* A receive that was interrupted or whose connection was reset, a datagram that is
\* not valid or was cut: nobody is asked.
RecvResubmits(o) ==
    /\ Handled(o, "RECV")
    /\ request' = [request EXCEPT ![o].RECV = Submitted(o)]
    /\ UNCHANGED <<socket, closing, member, kernelVars, callVars, historyVars, aborted>>

\* Mutant: a receive goes on whatever its callback answered.
RecvAlwaysResubmitted(o) ==
    /\ Idle /\ hearing = o
    /\ request' = [request EXCEPT ![o].RECV = Submitted(o)]
    /\ hearing' = NULL
    /\ UNCHANGED <<socket, closing, member, kernelVars, making, historyVars, aborted>>

\* The callback answers.
RecvReturns(o) ==
    /\ Idle /\ hearing = o
    /\ \E answer \in IF o \in closing THEN LateAnswers ELSE {"NONE", "RE_SUBMIT"} :
          request' = [request EXCEPT ![o].RECV =
              IF answer = "RE_SUBMIT" THEN Submitted(o) ELSE NULL]
    /\ hearing' = NULL
    /\ UNCHANGED <<socket, closing, member, kernelVars, making, historyVars, aborted>>

OnceReturns(o, op) ==
    /\ op \in {"CONNECT", "SEND", "CLOSE"}
    /\ Handled(o, op)
    /\ request' = [request EXCEPT ![o][op] = NULL]
    /\ UNCHANGED <<socket, closing, member, kernelVars, callVars, historyVars, aborted>>

\* Mutant: a destructor closes the descriptor, which a close may have freed.
DropCloses(o) ==
    /\ Idle
    /\ socket[o] # NULL /\ Requests(o) = {}
    /\ socket' = [socket EXCEPT ![o] = NULL]
    /\ own' = [own EXCEPT ![o] = NULL]
    /\ closing' = closing \ {o}
    /\ member' = member \ {o}
    /\ fd_table' = [fd_table EXCEPT ![socket[o].m_fd] = NULL]
    /\ UNCHANGED <<file, request, used, callVars, leaked, aborted>>

\* The last reference to an object goes, closed or not: SocketImpl has no
\* destructor, so the descriptor of one that was not closed stays open.
Drop(o) ==
    /\ Idle
    /\ socket[o] # NULL /\ Requests(o) = {}
    /\ socket' = [socket EXCEPT ![o] = NULL]
    /\ own' = [own EXCEPT ![o] = NULL]
    /\ closing' = closing \ {o}
    /\ member' = member \ {o}
    /\ leaked' = IF o \in closing THEN leaked ELSE leaked \cup {socket[o].m_fd}
    /\ file' = [f \in Files |-> IF Open(f) THEN file[f] ELSE NewFile]
    /\ UNCHANGED <<fd_table, request, used, callVars, aborted>>

\* The process ends, of its own or not, and is started again: the kernel closes
\* what it had open and remembers its connections for a while.
Restart ==
    /\ socket' = [o \in Objects |-> NULL]
    /\ closing' = {}
    /\ making' = NULL
    /\ hearing' = NULL
    /\ member' = {}
    /\ fd_table' = [n \in Fds |-> NULL]
    /\ request' = [o \in Objects |-> [op \in Operations |-> NULL]]
    /\ own' = [o \in Objects |-> NULL]
    /\ leaked' = {}
    /\ file' = [f \in Files |-> NewFile]
    /\ aborted' = "no"
    /\ UNCHANGED used

-----------------------------------------------------------------------------
Next ==
    \/ \E o \in Objects, wanted \in Wanted, port \in Ports :
          create_socket(o, wanted[1], wanted[2], port)
    \/ \E o \in Objects :
          \/ set_reuse_address(o)
          \/ bind(o)
          \/ set_multicast_ttl(o)
          \/ listen(o)
          \/ \E g \in Groups : join_multicast_group(o, g)
          \/ leave_multicast_group(o)
          \/ mcast_bind(o)
          \/ \E op \in Operations : submit(o, op)
          \/ \E host \in Hosts, port \in Ports : submit_connect(o, host, port)
          \/ KernelAccepts(o)
          \/ KernelConnects(o)
          \/ \E op \in Operations : KernelRefuses(o, op)
          \/ \E op \in Operations : KernelTransfers(o, op)
          \/ KernelCloses(o)
          \/ \E new \in Objects, stale \in Stale : AcceptReturns(o, new, stale)
          \/ AcceptResubmits(o)
          \/ RecvCalls(o)
          \/ RecvResubmits(o)
          \/ RecvReturns(o)
          \/ \E op \in Operations : OnceReturns(o, op)
          \/ Drop(o)
    \/ \E port \in Ports : KernelForgets(port)
    \/ Restart

Spec == Init /\ [][Next]_vars

-----------------------------------------------------------------------------
(* Properties.                                                             *)

\* Types of the tables.
TypeOK ==
    /\ socket \in [Objects -> SocketStates \cup {NULL}]
    /\ closing \subseteq Objects /\ member \subseteq Objects /\ leaked \subseteq Fds
    /\ making \in Objects \cup {NULL} /\ hearing \in Objects \cup {NULL}
    /\ fd_table \in [Fds -> Files \cup {NULL}]
    /\ file \in [Files -> FileStates]
    /\ request \in [Objects -> [Operations -> RequestStates \cup {NULL}]]
    /\ own \in [Objects -> Files \cup {NULL}]
    /\ aborted \in {"no", "type", "fd", "kind", "denied", "bind", "join", "leave", "target"}

\* A request is about the file its socket was made for, although the descriptor
\* number may have been closed and given to another connection while a request
\* was on its way (IOUring::submit reads get_fd() each time): no handler hears
\* what was meant for another connection, and nothing is sent to one.
RequestsOnOwnFile ==
    \A o \in Objects : \A op \in Requests(o) : request[o][op].file = own[o]

\* Each open descriptor is that of one object, which may still close it, or of
\* one accept whose callback did not run yet, or of an object or a result that was
\* let go of unclosed: none is closed on behalf of two, and none under an object
\* that was not closed (SocketImpl has no destructor that would close it).
Holders(n) == {o \in Objects : socket[o] # NULL /\ socket[o].m_fd = n /\ own[o] = fd_table[n]}
Arriving(n) == {o \in Objects : Done(o, "ACCEPT") /\ request[o].ACCEPT.fd = n}
DescriptorsOwned ==
    Running =>
       /\ \A o \in Objects : socket[o] # NULL /\ o \notin closing => Resolve(o) = own[o]
       /\ \A n \in Fds : fd_table[n] # NULL =>
             \/ n \notin leaked /\ Arriving(n) = {} /\ \E o \in Objects : Holders(n) = {o}
             \/ n \notin leaked /\ Holders(n) = {} /\ \E o \in Objects : Arriving(n) = {o}
             \/ n \in leaked /\ Holders(n) = {} /\ Arriving(n) = {}

\* A connection is served as a stream, whatever family its address was given:
\* IOUring::submit and WorkItem::is_stream would otherwise receive datagrams on it.
ConnectionsAreStreams ==
    \A o \in Objects : own[o] # NULL /\ file[own[o]].is \in {"listening", "connected"} => is_stream(o)

\* SocketImpl.cpp:119 "it is important to do 'reuse address' before bind": within
\* the process a port is refused only for another file that listens on it, to a
\* server that is started again and to sockets of a multicast group alike.
RefusedByListenerOnly ==
    aborted = "bind" => \E o \in Objects :
       /\ making = o /\ is_stream(o)
       /\ \E f \in Files : /\ f # Resolve(o) /\ Open(f)
                           /\ file[f].is = "listening" /\ file[f].port = socket[o].m_port

\* connect reaches the host and the port the program named, through the byte
\* order of sin_port and the copy of the sockaddr in the item.
ConnectsWhereAsked ==
    \A o \in Objects : LET c == request[o].CONNECT IN
       c # NULL /\ c.done /\ file[c.file].is = "connected" => file[c.file].peer = c.wanted

\* Leaving a group never ends the process (SocketImpl.cpp:274): the kernel has the
\* group as long as the object does.
LeaveSucceeds == aborted # "leave"
=============================================================================
