--------------------------- MODULE Sockets_proofs ---------------------------
(***************************************************************************)
(* Proofs about Sockets, for any objects, files, descriptor numbers, ports *)
(* and groups.                                                             *)
(*                                                                         *)
(* A property such as RequestsOnOwnFile speaks of the moment at which the  *)
(* kernel looked a descriptor up.  What makes it inductive is that a       *)
(* socket that was not closed yet still finds its own file under its       *)
(* number: two sockets never hold one number, the number of an accepted    *)
(* connection belongs to nobody until the callback takes it over, and a    *)
(* number is given out again only when nobody names it.  A receive, which  *)
(* may be submitted again without anybody being asked, is never on its way *)
(* once its socket was closed; this takes a disciplined program.           *)
(***************************************************************************)
EXTENDS Sockets, TLAPS

\* The program closes a socket before a receive or in the callback of one, and no
\* receive callback asks for more once a close of its socket was submitted.
CloseDiscipline == ~ClosesMidReceive /\ "RE_SUBMIT" \notin LateAnswers

-----------------------------------------------------------------------------
(* The inductive invariant.                                                *)

\* The close of o's descriptor was served.
Closed(o) == o \in closing /\ (request[o].CLOSE = NULL \/ request[o].CLOSE.done)

\* o is an object that still holds its descriptor.
Holds(o) == socket[o] # NULL /\ ~Closed(o)

\* A connection waits for the callback of o's accept.
Arrives(o) == request[o].ACCEPT # NULL /\ request[o].ACCEPT.done /\ request[o].ACCEPT.fd # NULL

\* Only an accept that was served has a descriptor.
ServedArrive ==
    \A o \in Objects : request[o].ACCEPT # NULL /\ ~request[o].ACCEPT.done =>
       request[o].ACCEPT.fd = NULL

\* An object has a file of its own.
OwnFiles ==
    /\ \A o \in Objects : socket[o] # NULL <=> own[o] # NULL
    /\ \A o, p \in Objects : own[o] # NULL /\ own[o] = own[p] => o = p

\* A file has one descriptor.
DescriptorsUnshared ==
    \A n, m \in Fds : fd_table[n] # NULL /\ fd_table[n] = fd_table[m] => n = m

\* A descriptor that was not closed names the file of its holder.
HoldersNameOwn == \A o \in Objects : Holds(o) => fd_table[socket[o].m_fd] = own[o]

\* An accepted connection has a file nobody has and a descriptor nobody else is given.
ArrivalsNew ==
    \A o \in Objects : Arrives(o) =>
       /\ request[o].ACCEPT.fd \in Fds
       /\ fd_table[request[o].ACCEPT.fd] # NULL
       /\ \A p \in Objects : own[p] # fd_table[request[o].ACCEPT.fd]
       /\ \A p \in Objects :
             Arrives(p) /\ request[p].ACCEPT.fd = request[o].ACCEPT.fd => p = o

\* A descriptor is held, or on its way to the callback of an accept, or leaked.
EachNamed ==
    \A n \in Fds : fd_table[n] # NULL =>
       \/ \E o \in Objects : Holds(o) /\ socket[o].m_fd = n
       \/ \E o \in Objects : Arrives(o) /\ request[o].ACCEPT.fd = n
       \/ n \in leaked

\* A leaked descriptor stays open, and its file and its number are nobody's.
LeakedIsNobodys ==
    \A n \in leaked :
       /\ fd_table[n] # NULL
       /\ \A p \in Objects : own[p] # fd_table[n]
       /\ \A p \in Objects : Arrives(p) => request[p].ACCEPT.fd # n

\* A socket that is being closed neither accepts nor connects.
ClosingIsLast ==
    /\ \A o \in closing : socket[o] # NULL /\ request[o].ACCEPT = NULL /\ request[o].CONNECT = NULL
    /\ \A o \in Objects : request[o].CLOSE # NULL => o \in closing

\* A request keeps its socket alive.
RequestsHaveSocket == \A o \in Objects : Requests(o) # {} => socket[o] # NULL

\* Only a listening socket accepts.
AcceptsListen ==
    \A o \in Objects : request[o].ACCEPT # NULL => file[own[o]].is = "listening"

\* Only a stream connects, and to an address that says what was asked for.
ConnectsAreStreams ==
    \A o \in Objects : request[o].CONNECT # NULL =>
       /\ is_stream(o)
       /\ ~request[o].CONNECT.done => file[own[o]].is = "stream"
       /\ request[o].CONNECT.target \in SockAddrs
       /\ request[o].CONNECT.wanted =
             <<request[o].CONNECT.target.sin_addr, htons(request[o].CONNECT.target.sin_port)>>

\* The file of a stream that is not connected yet belongs to a stream socket.
HeldStreams == \A o \in Objects : Holds(o) /\ file[own[o]].is = "stream" => is_stream(o)

\* What m_mreq names is a group the file of the socket is in.
MembersJoined ==
    /\ \A o \in member : socket[o] # NULL
    /\ \A o \in member \ closing : socket[o].m_mreq \in file[own[o]].groups

\* The tables.
Tables ==
    /\ TypeOK
    /\ OwnFiles
    /\ DescriptorsUnshared
    /\ HoldersNameOwn
    /\ ServedArrive
    /\ ArrivalsNew
    /\ EachNamed
    /\ LeakedIsNobodys
    /\ ClosingIsLast
    /\ RequestsHaveSocket
    /\ RequestsOnOwnFile
    /\ AcceptsListen
    /\ ConnectsAreStreams
    /\ HeldStreams
    /\ MembersJoined
    /\ ConnectionsAreStreams
    /\ ConnectsWhereAsked
    /\ LeaveSucceeds

\* A callback runs for a receive that was served.
HearingReceives ==
    \A o \in Objects : hearing = o => request[o].RECV # NULL /\ request[o].RECV.done

\* A socket that is closed is received from at most by the callback that closes it.
ClosedInCallback == \A o \in closing : request[o].RECV # NULL => hearing = o

\* Nobody asked anything of an object whose constructor is running.
MakingIsNew ==
    \A o \in Objects : making = o =>
       /\ socket[o] # NULL /\ socket[o].m_port \in Ports /\ o \notin closing
       /\ \A op \in Operations : request[o][op] = NULL

\* The callback and the constructor that are running.
Calls == HearingReceives /\ ClosedInCallback /\ MakingIsNew

IInv == Tables /\ Calls

-----------------------------------------------------------------------------
(* Facts the steps share.                                                  *)

\* A socket that was not closed is open, and is found by its descriptor.
LEMMA HolderIsOpen ==
    ASSUME IInv, NEW o \in Objects, Holds(o)
    PROVE  /\ socket[o] \in SocketStates
           /\ own[o] \in Files
           /\ Resolve(o) = own[o]
           /\ Open(own[o])
  BY SocketsAssumption
  DEF IInv, Tables, TypeOK, OwnFiles, HoldersNameOwn, SocketStates, Holds, Resolve, Open

\* A request that is submitted for such a socket is one on its own file.
LEMMA SubmittedOnOwn ==
    ASSUME IInv, NEW o \in Objects, socket[o] # NULL, o \notin closing
    PROVE  /\ Holds(o)
           /\ Submitted(o) = [file |-> own[o], done |-> FALSE, fd |-> NULL,
                              target |-> NULL, wanted |-> NULL]
           /\ Submitted(o) \in RequestStates
           /\ Submitted(o) # NULL
<1>1. Holds(o)
  BY DEF Holds, Closed
<1>2. own[o] \in Files /\ Resolve(o) = own[o]
  BY <1>1, HolderIsOpen
<1>3. Submitted(o) \in RequestStates
  BY <1>2 DEF Submitted, RequestStates
<1> QED BY <1>1, <1>2, <1>3, SocketsAssumption DEF Submitted

\* Nothing names a file the kernel does not know.
LEMMA UnknownIsNew ==
    ASSUME NEW f \in Files, Unknown(f)
    PROVE  /\ ~Open(f)
           /\ \A n \in Fds : fd_table[n] # f
           /\ \A p \in Objects : own[p] # f
           /\ \A p \in Objects, op \in Operations : request[p][op] # NULL => request[p][op].file # f
  BY DEF Unknown, Open, Requests

\* A file that sends to groups on another interface is otherwise the same.
LEMMA FileWithInterface ==
    ASSUME NEW f \in FileStates, NEW g \in Groups \cup {NULL}
    PROVE  LET new == [f EXCEPT !.mcast_if = g] IN
           new \in FileStates /\ new.is = f.is /\ new.peer = f.peer /\ new.groups = f.groups
  BY DEF FileStates

\* A file that is a member of other groups is otherwise the same.
LEMMA FileWithGroups ==
    ASSUME NEW f \in FileStates, NEW G \in SUBSET Groups
    PROVE  LET new == [f EXCEPT !.groups = G] IN
           new \in FileStates /\ new.is = f.is /\ new.peer = f.peer /\ new.groups = G
  BY DEF FileStates

\* An accept that was served carries the descriptor of the connection.
LEMMA ServedAccept ==
    ASSUME NEW c \in RequestStates, NEW n \in Fds
    PROVE  LET served == [c EXCEPT !.done = TRUE, !.fd = n] IN
           served \in RequestStates /\ served.done /\ served.fd = n /\ served.file = c.file
  BY DEF RequestStates

\* A connect that was served keeps what it was asked for.
LEMMA ServedConnect ==
    ASSUME NEW c \in RequestStates
    PROVE  LET served == [c EXCEPT !.done = TRUE] IN
           /\ served \in RequestStates /\ served # NULL /\ served.done /\ served.file = c.file
           /\ served.target = c.target /\ served.wanted = c.wanted
  BY SocketsAssumption DEF RequestStates

\* A file that is connected is otherwise the same.
LEMMA ConnectedFile ==
    ASSUME NEW f \in FileStates, NEW peer \in Hosts \X PortNumbers
    PROVE  LET new == [f EXCEPT !.is = "connected", !.peer = peer] IN
           new \in FileStates /\ new.is = "connected" /\ new.peer = peer /\ new.groups = f.groups
  BY DEF FileStates

\* A request keeps its type when it is served.
LEMMA ServedIsRequest ==
    ASSUME IInv, NEW o \in Objects, NEW op \in Operations, request[o][op] # NULL
    PROVE  /\ request[o][op] \in RequestStates
           /\ [request[o][op] EXCEPT !.done = TRUE] \in RequestStates
           /\ [request[o][op] EXCEPT !.done = TRUE] # NULL
<1>1. request[o][op] \in RequestStates
  BY DEF IInv, Tables, TypeOK
<1>2. [request[o][op] EXCEPT !.done = TRUE] \in RequestStates
  BY <1>1 DEF RequestStates
<1> QED BY <1>1, <1>2, SocketsAssumption

\* At first there are no sockets, no descriptors and no requests.
LEMMA InitInv == Init => IInv
<1> SUFFICES ASSUME Init PROVE IInv
  OBVIOUS
<1>1. TypeOK
  <2>1. NewFile \in FileStates
    BY DEF NewFile, FileStates
  <2> QED BY <2>1 DEF Init, TypeOK
<1>2. \A o \in Objects : ~Holds(o) /\ ~Arrives(o) /\ Requests(o) = {}
  BY DEF Init, Holds, Arrives, Requests, Operations
<1> QED
  BY <1>1, <1>2, SocketsAssumption
  DEF Init, IInv, Tables, Calls, HearingReceives, ClosedInCallback, MakingIsNew,
      OwnFiles, DescriptorsUnshared, HoldersNameOwn, ServedArrive, ArrivalsNew, EachNamed, LeakedIsNobodys,
      ClosingIsLast, RequestsHaveSocket, RequestsOnOwnFile, AcceptsListen, ConnectsAreStreams,
      HeldStreams, MembersJoined, ConnectionsAreStreams, ConnectsWhereAsked, LeaveSucceeds,
      Operations

-----------------------------------------------------------------------------
(* One lemma for each action.                                              *)

\* The constructor names a new file by a new descriptor, and is its only holder.
LEMMA CreateStep ==
    ASSUME IInv, NEW o \in Objects, NEW type \in SocketTypes, NEW kind \in SocketKinds,
           NEW port \in Ports, create_socket(o, type, kind, port), aborted' = aborted
    PROVE  Tables'
<1> USE DEF IInv, Tables, TypeOK
<1> DEFINE Name(f, n) == [m_type |-> type, m_kind |-> kind, m_port |-> port, m_fd |-> n, m_mreq |-> NULL]
           made == [NewFile EXCEPT !.is = IF type = "IPV4_UDP" THEN "datagram" ELSE "stream"]
<1>0. /\ type \notin {"UNKNOWN", "IPV6_UDP"}
      /\ \E f \in Files, n \in Fds :
            /\ Unknown(f) /\ Lowest(n)
            /\ socket' = [socket EXCEPT ![o] = Name(f, n)]
            /\ fd_table' = [fd_table EXCEPT ![n] = f]
            /\ file' = [file EXCEPT ![f] = made]
            /\ own' = [own EXCEPT ![o] = f]
      /\ closing' = closing \ {o}
      /\ making' = o
      /\ UNCHANGED <<hearing, member, request, used, leaked, aborted>>
  BY DEF create_socket, Dies, Idle, Running
<1>1. /\ socket[o] = NULL /\ own[o] = NULL /\ o \notin member
      /\ \A op \in Operations : request[o][op] = NULL
      /\ Requests(o) = {}
  BY DEF create_socket, Absent, Requests, OwnFiles, MembersJoined
<1>2. PICK f \in Files, n \in Fds, state \in SocketStates, new \in FileStates :
         /\ Unknown(f) /\ fd_table[n] = NULL
         /\ state.m_fd = n /\ new.is # "connected"
         /\ new.is # "datagram" => state.m_type \in {"IPV4_TCP", "IPV6_TCP"}
         /\ socket' = [socket EXCEPT ![o] = state]
         /\ fd_table' = [fd_table EXCEPT ![n] = f]
         /\ file' = [file EXCEPT ![f] = new]
         /\ own' = [own EXCEPT ![o] = f]
  <2>1. PICK f \in Files, n \in Fds :
           /\ Unknown(f) /\ Lowest(n)
           /\ socket' = [socket EXCEPT ![o] = Name(f, n)]
           /\ fd_table' = [fd_table EXCEPT ![n] = f]
           /\ file' = [file EXCEPT ![f] = made]
           /\ own' = [own EXCEPT ![o] = f]
    BY <1>0
  <2>2. Name(f, n) \in SocketStates /\ Name(f, n).m_fd = n /\ Name(f, n).m_type = type
    BY SocketsAssumption DEF SocketStates
  <2>3. made \in FileStates /\ made.is # "connected" /\ (made.is # "datagram" => type # "IPV4_UDP")
    BY DEF NewFile, FileStates
  <2>4. type \in {"IPV4_UDP", "IPV4_TCP", "IPV6_TCP"}
    BY <1>0 DEF SocketTypes
  <2>5. fd_table[n] = NULL
    BY <2>1 DEF Lowest, FreeFds
  <2> HIDE DEF Name, made
  <2> QED BY <2>1, <2>2, <2>3, <2>4, <2>5
<1> HIDE DEF Name, made
<1>3. /\ \A p \in Objects : own[p] # f
      /\ \A m \in Fds : fd_table[m] # f
      /\ \A p \in Objects, op \in Operations : request[p][op] # NULL => request[p][op].file # f
  BY <1>2, UnknownIsNew
<1>4. state # NULL /\ f # NULL
  BY <1>2, SocketsAssumption
<1>5. /\ closing' = closing \ {o} /\ member' = member /\ request' = request /\ aborted' = aborted
      /\ making' \in Objects /\ hearing' = hearing /\ leaked' = leaked
  BY <1>0
<1> USE <1>1, <1>2, <1>3, <1>4, <1>5
<1>6. TypeOK'
  OBVIOUS
<1>7. OwnFiles' /\ DescriptorsUnshared'
  BY DEF OwnFiles, DescriptorsUnshared
<1>8. \A p \in Objects \ {o} : (Holds(p)' <=> Holds(p)) /\ socket'[p] = socket[p] /\ own'[p] = own[p]
  BY DEF Holds, Closed
<1>9. Holds(o)' /\ socket'[o] = state /\ own'[o] = f
  BY DEF Holds, Closed
<1>10. \A p \in Objects \ {o} : Holds(p) => socket[p].m_fd # n
  BY DEF HoldersNameOwn, OwnFiles, Holds
<1>11. HoldersNameOwn'
  BY <1>8, <1>9, <1>10, HolderIsOpen DEF HoldersNameOwn, SocketStates
<1>12. ServedArrive' /\ ArrivalsNew' /\ LeakedIsNobodys'
  BY DEF ServedArrive, ArrivalsNew, LeakedIsNobodys, Arrives
<1>13. EachNamed'
  <2> SUFFICES ASSUME NEW m \in Fds, fd_table'[m] # NULL, m # n, m \notin leaked
               PROVE  \/ \E p \in Objects : Holds(p)' /\ socket'[p].m_fd = m
                      \/ \E p \in Objects : Arrives(p)' /\ request'[p].ACCEPT.fd = m
    BY <1>9 DEF EachNamed
  <2>1. CASE \E p \in Objects : Holds(p) /\ socket[p].m_fd = m
    BY <1>8, <2>1 DEF Holds
  <2>2. CASE \E p \in Objects : Arrives(p) /\ request[p].ACCEPT.fd = m
    BY <2>2 DEF Arrives
  <2> QED BY <2>1, <2>2 DEF EachNamed
<1>14. ClosingIsLast' /\ RequestsHaveSocket' /\ RequestsOnOwnFile'
  BY DEF ClosingIsLast, RequestsHaveSocket, RequestsOnOwnFile, Requests, Operations
<1>15. \A p \in Objects \ {o} : own[p] # NULL => file'[own[p]] = file[own[p]]
  OBVIOUS
<1>16. AcceptsListen' /\ ConnectsAreStreams'
  BY <1>15
  DEF AcceptsListen, ConnectsAreStreams, is_stream, OwnFiles, RequestsHaveSocket, Requests,
      Operations
<1>17. HeldStreams' /\ ConnectionsAreStreams'
  BY <1>8, <1>9, <1>15 DEF HeldStreams, ConnectionsAreStreams, is_stream, OwnFiles, Holds
<1>18. MembersJoined' /\ LeaveSucceeds'
  BY <1>15 DEF MembersJoined, LeaveSucceeds, OwnFiles
<1>19. ConnectsWhereAsked'
  BY <1>15 DEF ConnectsWhereAsked, RequestsOnOwnFile, Requests, Operations
<1> QED BY <1>6, <1>7, <1>11, <1>12, <1>13, <1>14, <1>16, <1>17, <1>18, <1>19

\* A step that changes no table.
LEMMA UnchangedStep ==
    ASSUME IInv,
           aborted' \in {"no", "type", "fd", "kind", "denied", "bind", "join", "target"},
           making' \in Objects \cup {NULL}, hearing' \in Objects \cup {NULL},
           socket' = socket, closing' = closing, member' = member, fd_table' = fd_table,
           file' = file, request' = request, own' = own, leaked' = leaked
    PROVE  Tables'
  BY DEF IInv, Tables, TypeOK, OwnFiles, DescriptorsUnshared, HoldersNameOwn, ServedArrive,
         ArrivalsNew, EachNamed, LeakedIsNobodys, ClosingIsLast, RequestsHaveSocket,
         RequestsOnOwnFile, AcceptsListen, ConnectsAreStreams, HeldStreams, MembersJoined,
         ConnectionsAreStreams, ConnectsWhereAsked, LeaveSucceeds, Holds, Closed, Arrives,
         Requests, is_stream

\* Only why the process ended is new.
LEMMA DiesStep ==
    ASSUME IInv, NEW why \in {"type", "fd", "kind", "denied", "bind"}, Dies(why)
    PROVE  Tables'
<1>1. /\ aborted' = why
      /\ UNCHANGED <<socket, closing, member, fd_table, file, request, making, hearing, own, leaked>>
  BY DEF Dies, kernelVars, callVars, historyVars
<1>2. making \in Objects \cup {NULL} /\ hearing \in Objects \cup {NULL}
  BY DEF IInv, Tables, TypeOK
<1> QED BY <1>1, <1>2, UnchangedStep

\* A step about the groups of a socket and of its file, or one of its constructor.
LEMMA MembershipStep ==
    ASSUME IInv, NEW o \in Objects, NEW state \in SocketStates, NEW new \in FileStates,
           Holds(o), o \notin closing, own[o] \in Files,
           state.m_fd = socket[o].m_fd, state.m_type = socket[o].m_type,
           socket' = [socket EXCEPT ![o] = state],
           \/ new.is = file[own[o]].is
           \/ new.is = "listening" /\ is_stream(o) /\ Requests(o) = {},
           new.peer = file[own[o]].peer,
           file' = [file EXCEPT ![own[o]] = new],
           member' \in SUBSET (member \cup {o}),
           o \in member' => state.m_mreq \in new.groups,
           aborted' \in {"no", "join"},
           making' \in Objects \cup {NULL}, hearing' = hearing, leaked' = leaked,
           closing' = closing, fd_table' = fd_table, request' = request, own' = own
    PROVE  Tables'
<1> USE DEF IInv, Tables, TypeOK
<1>1. state # NULL /\ socket[o] # NULL
  BY SocketsAssumption DEF Holds
<1>2. \A p \in Objects : (Holds(p)' <=> Holds(p)) /\ (Arrives(p)' <=> Arrives(p)) /\ Requests(p)' = Requests(p)
  BY <1>1 DEF Holds, Closed, Arrives, Requests
<1>3. \A p \in Objects :
         /\ socket'[p] # NULL <=> socket[p] # NULL
         /\ socket[p] # NULL =>
               socket'[p].m_fd = socket[p].m_fd /\ socket'[p].m_type = socket[p].m_type
  BY <1>1
<1>4. /\ \A f \in Files : file'[f].peer = file[f].peer
      /\ \A p \in Objects : own[p] # NULL /\ (p # o \/ Requests(p) # {}) =>
            file'[own[p]].is = file[own[p]].is
      /\ file'[own[o]].is = file[own[o]].is \/ (file'[own[o]].is = "listening" /\ is_stream(o))
  BY DEF OwnFiles
<1>5. \A p \in Objects \ {o} : socket'[p] = socket[p] /\ (own[p] # NULL => file'[own[p]] = file[own[p]])
  BY DEF OwnFiles
<1>6. TypeOK'
  BY SocketsAssumption
<1>7. /\ OwnFiles' /\ DescriptorsUnshared' /\ HoldersNameOwn' /\ ServedArrive' /\ ArrivalsNew'
      /\ EachNamed' /\ LeakedIsNobodys'
  <2>1. OwnFiles' /\ DescriptorsUnshared' /\ HoldersNameOwn'
    BY <1>2, <1>3 DEF OwnFiles, DescriptorsUnshared, HoldersNameOwn, Holds
  <2>2. ServedArrive' /\ ArrivalsNew' /\ LeakedIsNobodys'
    BY <1>2 DEF ServedArrive, ArrivalsNew, LeakedIsNobodys
  <2>3. EachNamed'
    BY <1>2, <1>3 DEF EachNamed, Holds
  <2> QED BY <2>1, <2>2, <2>3
<1>8. ClosingIsLast' /\ RequestsHaveSocket' /\ RequestsOnOwnFile'
  BY <1>2, <1>3 DEF ClosingIsLast, RequestsHaveSocket, RequestsOnOwnFile
<1>9. \A p \in Objects : own[p] # NULL => own[p] \in Files /\ socket[p] # NULL
  BY DEF OwnFiles
<1>10. \A p \in Objects : Requests(p) # {} => own[p] \in Files /\ socket[p] # NULL
  BY DEF OwnFiles, RequestsHaveSocket
<1>11. AcceptsListen'
  BY <1>4, <1>10 DEF AcceptsListen, Requests, Operations
<1>12. ConnectsAreStreams'
  <2>1. \A p \in Objects : request[p].CONNECT # NULL =>
           /\ socket'[p].m_type = socket[p].m_type /\ file'[own[p]].is = file[own[p]].is
    BY <1>3, <1>4, <1>10, SocketsAssumption DEF Requests, Operations
  <2> QED BY <2>1 DEF ConnectsAreStreams, is_stream
<1>13. HeldStreams' /\ ConnectionsAreStreams'
  BY <1>2, <1>3, <1>4, <1>9
  DEF HeldStreams, ConnectionsAreStreams, is_stream, OwnFiles, Holds
<1>14. MembersJoined' /\ LeaveSucceeds'
  BY <1>1, <1>3, <1>5 DEF MembersJoined, LeaveSucceeds, OwnFiles
<1>15. ConnectsWhereAsked'
  BY <1>4, <1>10 DEF ConnectsWhereAsked, RequestsOnOwnFile, Requests, Operations
<1> QED BY <1>6, <1>7, <1>8, <1>11, <1>12, <1>13, <1>14, <1>15

\* leave_multicast_group: the file has the group, so the kernel does not refuse.
LEMMA LeaveStep ==
    ASSUME IInv, NEW o \in Objects, leave_multicast_group(o)
    PROVE  Tables'
<1> USE DEF IInv, Tables, TypeOK
<1>1. socket[o] # NULL /\ o \in member /\ o \notin closing /\ Holds(o)
  BY DEF leave_multicast_group, Holds, Closed, MembersJoined
<1>2. /\ socket[o] \in SocketStates /\ own[o] \in Files /\ own[o] # NULL
      /\ Resolve(o) = own[o]
  BY <1>1, HolderIsOpen, SocketsAssumption
<1>3. socket[o].m_mreq \in file[own[o]].groups
  BY <1>1 DEF MembersJoined
<1>4. /\ file' = [file EXCEPT ![own[o]].groups = @ \ {socket[o].m_mreq}]
      /\ member' = member \ {o} /\ aborted' = aborted /\ aborted = "no"
  BY <1>2, <1>3 DEF leave_multicast_group, Idle, Running
<1> DEFINE new == [file[own[o]] EXCEPT !.groups = file[own[o]].groups \ {socket[o].m_mreq}]
<1>5. new \in FileStates /\ new.is = file[own[o]].is /\ new.peer = file[own[o]].peer
  <2>1. file[own[o]] \in FileStates
    BY <1>2
  <2>2. file[own[o]].groups \ {socket[o].m_mreq} \in SUBSET Groups
    BY <2>1 DEF FileStates
  <2> QED BY <2>1, <2>2, FileWithGroups
<1>6. file' = [file EXCEPT ![own[o]] = new] /\ socket' = [socket EXCEPT ![o] = socket[o]]
  BY <1>4 DEF leave_multicast_group
<1>7. /\ closing' = closing /\ fd_table' = fd_table /\ request' = request /\ own' = own
      /\ making' = making /\ hearing' = hearing /\ leaked' = leaked
  BY DEF leave_multicast_group, callVars, historyVars
<1> HIDE DEF new
<1> QED BY <1>1, <1>2, <1>4, <1>5, <1>6, <1>7, MembershipStep

\* mcast_bind changes the interface of the file of the socket itself.
LEMMA McastBindStep ==
    ASSUME IInv, NEW o \in Objects, mcast_bind(o)
    PROVE  Tables'
<1> USE DEF IInv, Tables, TypeOK
<1>1. socket[o] # NULL /\ o \notin closing /\ Holds(o)
  BY DEF mcast_bind, Holds, Closed
<1>2. /\ socket[o] \in SocketStates /\ own[o] \in Files /\ own[o] # NULL
      /\ Resolve(o) = own[o]
  BY <1>1, HolderIsOpen, SocketsAssumption
<1> DEFINE new == [file[own[o]] EXCEPT !.mcast_if = socket[o].m_mreq]
<1>3. /\ new \in FileStates /\ new.is = file[own[o]].is /\ new.peer = file[own[o]].peer
      /\ new.groups = file[own[o]].groups
  <2>1. file[own[o]] \in FileStates /\ socket[o].m_mreq \in Groups \cup {NULL}
    BY <1>2 DEF SocketStates
  <2> QED BY <2>1, FileWithInterface
<1>4. file' = [file EXCEPT ![own[o]] = new] /\ socket' = [socket EXCEPT ![o] = socket[o]]
  BY <1>2 DEF mcast_bind
<1>5. /\ closing' = closing /\ member' = member /\ fd_table' = fd_table /\ request' = request
      /\ own' = own /\ aborted' = aborted /\ aborted = "no"
      /\ making' = making /\ hearing' = hearing /\ leaked' = leaked
  BY DEF mcast_bind, Idle, Running, callVars, historyVars
<1> HIDE DEF new
<1>6. o \in member => socket[o].m_mreq \in new.groups
  BY <1>1, <1>3 DEF MembersJoined
<1> QED BY <1>1, <1>2, <1>3, <1>4, <1>5, <1>6, MembershipStep

\* The constructor works on the file of the object it makes.
LEMMA MakingIsHeld ==
    ASSUME IInv, NEW o \in Objects, making = o
    PROVE  /\ socket[o] # NULL /\ o \notin closing /\ Holds(o) /\ Requests(o) = {}
           /\ socket[o] \in SocketStates /\ own[o] \in Files /\ Resolve(o) = own[o]
           /\ file[own[o]] \in FileStates /\ socket[o].m_port \in Ports
           /\ o \in member => socket[o].m_mreq \in file[own[o]].groups
<1>1. /\ socket[o] # NULL /\ socket[o].m_port \in Ports /\ o \notin closing
      /\ \A op \in Operations : request[o][op] = NULL
  BY DEF IInv, Calls, MakingIsNew
<1>2. Holds(o) /\ Requests(o) = {}
  BY <1>1 DEF Holds, Closed, Requests
<1>3. socket[o] \in SocketStates /\ own[o] \in Files /\ Resolve(o) = own[o]
  BY <1>2, HolderIsOpen
<1>4. file[own[o]] \in FileStates /\ (o \in member => socket[o].m_mreq \in file[own[o]].groups)
  BY <1>1, <1>3 DEF IInv, Tables, TypeOK, MembersJoined
<1> QED BY <1>1, <1>2, <1>3, <1>4

\* setsockopt, bind and listen change the file of the object that is made.
LEMMA ConstructStep ==
    ASSUME IInv, NEW o \in Objects, making = o, NEW new \in FileStates,
           file' = [file EXCEPT ![own[o]] = new],
           \/ new.is = file[own[o]].is
           \/ new.is = "listening" /\ is_stream(o),
           new.peer = file[own[o]].peer, new.groups = file[own[o]].groups,
           making' \in {o, NULL}, aborted' = "no",
           UNCHANGED <<socket, closing, hearing, member, fd_table, request, used, own, leaked>>
    PROVE  Tables'
<1>1. /\ o \notin closing /\ Holds(o) /\ Requests(o) = {}
      /\ socket[o] \in SocketStates /\ own[o] \in Files
      /\ o \in member => socket[o].m_mreq \in file[own[o]].groups
  BY MakingIsHeld
<1>2. socket' = [socket EXCEPT ![o] = socket[o]]
  BY DEF IInv, Tables, TypeOK
<1> QED BY <1>1, <1>2, MembershipStep

\* SO_REUSEADDR is set.
LEMMA ReuseStep ==
    ASSUME IInv, NEW o \in Objects, set_reuse_address(o)
    PROVE  Tables'
<1>1. making = o /\ own[o] \in Files /\ Resolve(o) = own[o] /\ file[own[o]] \in FileStates
  BY MakingIsHeld DEF set_reuse_address
<1> DEFINE new == [file[own[o]] EXCEPT !.reuse = TRUE]
<1>2. /\ new \in FileStates /\ new.is = file[own[o]].is /\ new.peer = file[own[o]].peer
      /\ new.groups = file[own[o]].groups
  BY <1>1 DEF FileStates
<1>3. file' = [file EXCEPT ![own[o]] = new]
  BY <1>1 DEF set_reuse_address
<1>4. /\ making' \in {o, NULL} /\ aborted' = "no"
      /\ UNCHANGED <<socket, closing, hearing, member, fd_table, request, used, own, leaked>>
  BY <1>1 DEF set_reuse_address, Running, historyVars
<1> HIDE DEF new
<1> QED BY <1>1, <1>2, <1>3, <1>4, ConstructStep

\* The socket is bound, or the process ends.
LEMMA BindStep ==
    ASSUME IInv, NEW o \in Objects, bind(o)
    PROVE  Tables'
<1>1. /\ making = o /\ own[o] \in Files /\ Resolve(o) = own[o] /\ file[own[o]] \in FileStates
      /\ socket[o] \in SocketStates /\ socket[o].m_port \in Ports
  BY MakingIsHeld DEF bind
<1>2. ASSUME NEW why \in BindErrors(o), Dies(why)
      PROVE  Tables'
  <2>1. why \in {"type", "fd", "kind", "denied", "bind"}
    BY DEF BindErrors
  <2> QED BY <1>2, <2>1, DiesStep
<1>3. CASE /\ file' = [file EXCEPT ![Resolve(o)].port = socket[o].m_port]
           /\ UNCHANGED <<socket, closing, member, fd_table, request, used, callVars,
                          historyVars, aborted>>
  <2> DEFINE new == [file[own[o]] EXCEPT !.port = socket[o].m_port]
  <2>2. /\ new \in FileStates /\ new.is = file[own[o]].is /\ new.peer = file[own[o]].peer
        /\ new.groups = file[own[o]].groups
    BY <1>1 DEF FileStates
  <2>3. file' = [file EXCEPT ![own[o]] = new]
    BY <1>1, <1>3
  <2>4. /\ making' \in {o, NULL} /\ aborted' = "no"
        /\ UNCHANGED <<socket, closing, hearing, member, fd_table, request, used, own, leaked>>
    BY <1>1, <1>3 DEF bind, Running, historyVars, callVars
  <2> HIDE DEF new
  <2> QED BY <1>1, <2>2, <2>3, <2>4, ConstructStep
<1> QED BY <1>2, <1>3 DEF bind

\* The option of a multicast socket is set, or the process ends.
LEMMA TtlStep ==
    ASSUME IInv, NEW o \in Objects, set_multicast_ttl(o)
    PROVE  Tables'
<1>1. CASE Dies("kind")
  BY <1>1, DiesStep
<1>2. CASE /\ making' = NULL
           /\ UNCHANGED <<socket, closing, hearing, member, request, kernelVars, historyVars, aborted>>
  <2>1. /\ aborted' = "no" /\ hearing' = hearing /\ hearing \in Objects \cup {NULL}
        /\ UNCHANGED <<socket, closing, member, fd_table, file, request, own, leaked>>
    BY <1>2 DEF set_multicast_ttl, Running, kernelVars, historyVars, IInv, Tables, TypeOK
  <2> QED BY <1>2, <2>1, UnchangedStep
<1> QED BY <1>1, <1>2 DEF set_multicast_ttl

\* The socket listens, or the process ends.
LEMMA ListenStep ==
    ASSUME IInv, NEW o \in Objects, listen(o)
    PROVE  Tables'
<1>1. making = o /\ own[o] \in Files /\ Resolve(o) = own[o] /\ file[own[o]] \in FileStates
  BY MakingIsHeld DEF listen
<1>2. CASE Dies(IF is_stream(o) THEN "denied" ELSE "kind")
  BY <1>2, DiesStep
<1>3. CASE /\ is_stream(o)
           /\ file' = [file EXCEPT ![Resolve(o)].is = "listening"]
           /\ making' = NULL
           /\ UNCHANGED <<socket, closing, hearing, member, fd_table, request, used,
                          historyVars, aborted>>
  <2> DEFINE new == [file[own[o]] EXCEPT !.is = "listening"]
  <2>1. /\ new \in FileStates /\ new.is = "listening" /\ new.peer = file[own[o]].peer
        /\ new.groups = file[own[o]].groups
    BY <1>1 DEF FileStates
  <2>2. file' = [file EXCEPT ![own[o]] = new]
    BY <1>1, <1>3
  <2>3. /\ making' \in {o, NULL} /\ aborted' = "no"
        /\ UNCHANGED <<socket, closing, hearing, member, fd_table, request, used, own, leaked>>
    BY <1>3 DEF listen, Running, historyVars
  <2> HIDE DEF new
  <2> QED BY <1>1, <1>3, <2>1, <2>2, <2>3, ConstructStep
<1> QED BY <1>2, <1>3 DEF listen

\* join_multicast_group: the group is one of the file of the socket itself.
LEMMA JoinStep ==
    ASSUME IInv, NEW o \in Objects, NEW g \in Groups, join_multicast_group(o, g)
    PROVE  Tables'
<1> USE DEF IInv, Tables, TypeOK
<1>1. socket[o] # NULL /\ o \notin closing /\ o \notin member /\ Holds(o)
  BY DEF join_multicast_group, Holds, Closed
<1>2. /\ socket[o] \in SocketStates /\ own[o] \in Files
      /\ Resolve(o) = own[o] /\ own[o] # NULL
  BY <1>1, HolderIsOpen, SocketsAssumption
<1>3. PICK state \in SocketStates :
         /\ state.m_fd = socket[o].m_fd /\ state.m_type = socket[o].m_type /\ state.m_mreq = g
         /\ socket' = [socket EXCEPT ![o] = state]
  <2> DEFINE state == [socket[o] EXCEPT !.m_mreq = g]
  <2>1. /\ state \in SocketStates
        /\ state.m_fd = socket[o].m_fd /\ state.m_type = socket[o].m_type /\ state.m_mreq = g
    BY <1>2 DEF SocketStates
  <2>2. socket' = [socket EXCEPT ![o] = state]
    BY DEF join_multicast_group
  <2> QED BY <2>1, <2>2
<1>4. PICK new \in FileStates :
         /\ new.is = file[own[o]].is /\ new.peer = file[own[o]].peer
         /\ file' = [file EXCEPT ![own[o]] = new]
         /\ \/ member' = member /\ aborted' = "join" /\ new.groups = file[own[o]].groups
            \/ member' = member \cup {o} /\ aborted' = aborted /\ g \in new.groups
  <2> DEFINE new == [file[own[o]] EXCEPT !.groups = file[own[o]].groups \cup {g}]
  <2>1. CASE file' = file /\ member' = member /\ aborted' = "join"
    BY <2>1, <1>2
  <2>2. CASE /\ file' = [file EXCEPT ![own[o]].groups = @ \cup {g}]
             /\ member' = member \cup {o} /\ aborted' = aborted
    <3>1. /\ new \in FileStates /\ new.is = file[own[o]].is /\ new.peer = file[own[o]].peer
          /\ g \in new.groups
      <4>1. file[own[o]] \in FileStates
        BY <1>2
      <4>2. file[own[o]].groups \cup {g} \in SUBSET Groups
        BY <4>1 DEF FileStates
      <4>3. g \in file[own[o]].groups \cup {g}
        OBVIOUS
      <4> QED BY ONLY <4>1, <4>2, <4>3, FileWithGroups DEF new
    <3>2. file' = [file EXCEPT ![own[o]] = new]
      BY <2>2
    <3> QED BY <2>2, <3>1, <3>2
  <2> QED BY <1>2, <2>1, <2>2 DEF join_multicast_group
<1>5. /\ closing' = closing /\ fd_table' = fd_table /\ request' = request /\ own' = own
      /\ making' = making /\ hearing' = hearing /\ leaked' = leaked
  BY DEF join_multicast_group, callVars, historyVars
<1>6. /\ member' \in SUBSET (member \cup {o}) /\ (o \in member' => state.m_mreq \in new.groups)
      /\ aborted' \in {"no", "join"}
  BY <1>1, <1>3, <1>4 DEF join_multicast_group, Idle, Running
<1> QED BY <1>1, <1>2, <1>3, <1>4, <1>5, <1>6, MembershipStep

\* A request is submitted, served or ended: sockets, descriptors and files stay
\* as they are.
LEMMA RequestStep ==
    ASSUME IInv, NEW o \in Objects, NEW op \in Operations, NEW r \in RequestStates \cup {NULL},
           request' = [request EXCEPT ![o][op] = r],
           r # NULL => socket[o] # NULL /\ r.file = own[o],
           op = "ACCEPT" => r # NULL /\ r.fd = NULL /\ ~Arrives(o)
                            /\ file[own[o]].is = "listening" /\ o \notin closing,
           op = "CONNECT" => r = NULL \/ /\ o \notin closing
                                         /\ is_stream(o) /\ file[own[o]].is = "stream"
                                         /\ r.target \in SockAddrs
                                         /\ r.wanted = <<r.target.sin_addr, htons(r.target.sin_port)>>,
           op = "CLOSE" => \/ r = NULL /\ request[o].CLOSE.done /\ closing' = closing
                           \/ /\ r # NULL /\ ~r.done /\ closing' = closing \cup {o}
                              /\ o \notin closing /\ request[o].ACCEPT = NULL /\ request[o].CONNECT = NULL,
           op # "CLOSE" => closing' = closing,
           socket' = socket, fd_table' = fd_table, file' = file, own' = own, member' = member,
           making' = making, hearing' \in Objects \cup {NULL}, leaked' = leaked,
           aborted' = aborted
    PROVE  Tables'
<1> USE DEF IInv, Tables, TypeOK
<1>1. /\ request'[o][op] = r
      /\ \A p \in Objects, q \in Operations : p # o \/ q # op => request'[p][q] = request[p][q]
  OBVIOUS
<1>2. \A p \in Objects : Holds(p)' <=> Holds(p)
  BY <1>1 DEF Holds, Closed, Operations, ClosingIsLast
<1>3. \A p \in Objects :
         /\ Arrives(p)' <=> Arrives(p)
         /\ Arrives(p) => request'[p].ACCEPT = request[p].ACCEPT
  <2>1. CASE op = "ACCEPT"
    BY <1>1, <2>1 DEF Arrives, Operations
  <2>2. CASE op # "ACCEPT"
    BY <1>1, <2>2 DEF Arrives, Operations
  <2> QED BY <2>1, <2>2
<1>4. \A p \in Objects, q \in Operations : q \in Requests(p)' =>
         q \in Requests(p) \/ (p = o /\ q = op /\ r # NULL)
  BY <1>1 DEF Requests
<1>5. TypeOK'
  BY DEF ClosingIsLast
<1>6. OwnFiles' /\ DescriptorsUnshared' /\ HoldersNameOwn'
  BY <1>2 DEF OwnFiles, DescriptorsUnshared, HoldersNameOwn
<1>7. ServedArrive' /\ ArrivalsNew' /\ EachNamed' /\ LeakedIsNobodys'
  <2>1. ServedArrive'
    BY <1>1 DEF ServedArrive, Operations
  <2>2. ArrivalsNew' /\ LeakedIsNobodys'
    BY <1>3 DEF ArrivalsNew, LeakedIsNobodys
  <2>3. EachNamed'
    BY <1>2, <1>3 DEF EachNamed
  <2> QED BY <2>1, <2>2, <2>3
<1>8. ClosingIsLast'
  BY <1>1 DEF ClosingIsLast, Operations
<1>9. RequestsHaveSocket'
  BY <1>4 DEF RequestsHaveSocket, Requests
<1>10. RequestsOnOwnFile'
  BY <1>1, <1>4 DEF RequestsOnOwnFile, Requests
<1>11. AcceptsListen' /\ ConnectsAreStreams'
  BY <1>1 DEF AcceptsListen, ConnectsAreStreams, Operations, is_stream
<1>12. HeldStreams' /\ ConnectionsAreStreams'
  BY <1>2 DEF HeldStreams, ConnectionsAreStreams, is_stream
<1>13. MembersJoined' /\ LeaveSucceeds'
  BY DEF MembersJoined, LeaveSucceeds
<1>14. ConnectsWhereAsked'
  BY <1>1 DEF ConnectsWhereAsked, Operations
<1> QED BY <1>5, <1>6, <1>7, <1>8, <1>9, <1>10, <1>11, <1>12, <1>13, <1>14

\* submit_accept, submit_recv, send and submit_close: the descriptor still names the
\* file of the socket when the kernel looks it up.
LEMMA SubmitStep ==
    ASSUME IInv, NEW o \in Objects, NEW op \in Operations, submit(o, op)
    PROVE  Tables'
<1>1. socket[o] # NULL /\ o \notin closing /\ request[o][op] = NULL /\ op # "CONNECT"
  BY DEF submit, Fits
<1>2. /\ Submitted(o) \in RequestStates /\ Submitted(o) # NULL /\ Submitted(o).file = own[o]
      /\ ~Submitted(o).done /\ Submitted(o).fd = NULL
  BY <1>1, SubmittedOnOwn
<1>3. op = "ACCEPT" => file[own[o]].is = "listening" /\ ~Arrives(o)
  BY <1>1 DEF submit, Fits, Arrives
<1>4. op = "CLOSE" => request[o].ACCEPT = NULL /\ request[o].CONNECT = NULL
  BY DEF submit, Fits
<1>5. /\ request' = [request EXCEPT ![o][op] = Submitted(o)]
      /\ closing' = IF op = "CLOSE" THEN closing \cup {o} ELSE closing
      /\ UNCHANGED <<socket, member, fd_table, file, making, hearing, own, leaked, aborted>>
  BY DEF submit, kernelVars, callVars, historyVars
<1>6. hearing' \in Objects \cup {NULL}
  BY <1>5 DEF IInv, Tables, TypeOK
<1> QED BY <1>1, <1>2, <1>3, <1>4, <1>5, <1>6, RequestStep

\* The kernel serves a send or a receive.
LEMMA TransferStep ==
    ASSUME IInv, NEW o \in Objects, NEW op \in Operations, KernelTransfers(o, op)
    PROVE  Tables'
<1> DEFINE r == [request[o][op] EXCEPT !.done = TRUE]
<1>1. op \in {"RECV", "SEND"} /\ request[o][op] # NULL
  BY DEF KernelTransfers, Pending
<1>2. request[o][op] \in RequestStates /\ r \in RequestStates /\ r # NULL
  BY <1>1, ServedIsRequest
<1>3. r.file = own[o] /\ socket[o] # NULL
  BY <1>1, <1>2 DEF IInv, Tables, RequestsOnOwnFile, RequestsHaveSocket, Requests, RequestStates
<1>4. request' = [request EXCEPT ![o][op] = r]
  BY DEF KernelTransfers, Finish
<1>5. /\ UNCHANGED <<socket, closing, member, fd_table, file, making, own, leaked, aborted>>
      /\ hearing' \in Objects \cup {NULL}
  BY DEF KernelTransfers, kernelVars, callVars, historyVars, IInv, Tables, TypeOK
<1> HIDE DEF r
<1> QED BY <1>1, <1>2, <1>3, <1>4, <1>5, RequestStep

\* An accept or a connect fails: there is no descriptor and no peer.
LEMMA RefusesStep ==
    ASSUME IInv, NEW o \in Objects, NEW op \in Operations, KernelRefuses(o, op)
    PROVE  Tables'
<1> DEFINE r == [request[o][op] EXCEPT !.done = TRUE]
<1>1. op \in {"ACCEPT", "CONNECT"} /\ request[o][op] # NULL /\ ~request[o][op].done
  BY DEF KernelRefuses, Pending
<1>2. request[o][op] \in RequestStates /\ r \in RequestStates /\ r # NULL
  BY <1>1, ServedIsRequest
<1>3. /\ r.file = request[o][op].file /\ r.fd = request[o][op].fd
      /\ r.target = request[o][op].target /\ r.wanted = request[o][op].wanted
  BY <1>2 DEF RequestStates
<1>4. r.file = own[o] /\ socket[o] # NULL /\ o \notin closing
  BY <1>1, <1>3
  DEF IInv, Tables, RequestsOnOwnFile, RequestsHaveSocket, Requests, ClosingIsLast
<1>5. op = "ACCEPT" => r.fd = NULL /\ ~Arrives(o) /\ file[own[o]].is = "listening"
  BY <1>1, <1>3 DEF IInv, Tables, ServedArrive, AcceptsListen, Arrives
<1>6. op = "CONNECT" => /\ is_stream(o) /\ file[own[o]].is = "stream"
                        /\ r.target \in SockAddrs
                        /\ r.wanted = <<r.target.sin_addr, htons(r.target.sin_port)>>
  BY <1>1, <1>3 DEF IInv, Tables, ConnectsAreStreams
<1>7. request' = [request EXCEPT ![o][op] = r]
  BY DEF KernelRefuses, Finish
<1>8. /\ UNCHANGED <<socket, closing, member, fd_table, file, making, own, leaked, aborted>>
      /\ hearing' \in Objects \cup {NULL}
  BY DEF KernelRefuses, kernelVars, callVars, historyVars, IInv, Tables, TypeOK
<1> HIDE DEF r
<1> QED BY <1>1, <1>2, <1>4, <1>5, <1>6, <1>7, <1>8, RequestStep

\* The callback of a receive starts.
LEMMA RecvCallsStep ==
    ASSUME IInv, NEW o \in Objects, RecvCalls(o)
    PROVE  Tables'
<1>1. /\ UNCHANGED <<socket, closing, member, fd_table, file, request, making, own, leaked, aborted>>
      /\ hearing' = o /\ aborted = "no" /\ making \in Objects \cup {NULL}
  BY DEF RecvCalls, Handled, Done, Running, kernelVars, historyVars, IInv, Tables, TypeOK
<1> QED BY <1>1, UnchangedStep

\* A receive goes on without its callback: its socket was not closed, as it would
\* have been closed by the callback.
LEMMA RecvResubmitsStep ==
    ASSUME IInv, NEW o \in Objects, RecvResubmits(o)
    PROVE  Tables'
<1>1. request[o].RECV # NULL /\ socket[o] # NULL
  BY DEF RecvResubmits, Handled, Done, IInv, Tables, RequestsHaveSocket, Requests, Operations
<1>2. hearing # o
  BY SocketsAssumption DEF RecvResubmits, Handled
<1>3. o \notin closing
  BY <1>1, <1>2 DEF IInv, Calls, ClosedInCallback
<1>4. Submitted(o) \in RequestStates /\ Submitted(o).file = own[o]
  BY <1>1, <1>3, SubmittedOnOwn
<1>5. /\ request' = [request EXCEPT ![o]["RECV"] = Submitted(o)]
      /\ UNCHANGED <<socket, closing, member, fd_table, file, making, own, leaked, aborted>>
      /\ hearing' \in Objects \cup {NULL}
  BY DEF RecvResubmits, kernelVars, callVars, historyVars, IInv, Tables, TypeOK
<1>6. "RECV" \in Operations
  BY DEF Operations
<1> QED BY <1>1, <1>4, <1>5, <1>6, RequestStep

\* The callback of a receive returns; after the close it does not ask for more.
LEMMA RecvStep ==
    ASSUME IInv, CloseDiscipline, NEW o \in Objects, RecvReturns(o)
    PROVE  Tables'
<1>1. request[o].RECV # NULL /\ socket[o] # NULL
  BY DEF RecvReturns, IInv, Tables, Calls, HearingReceives, RequestsHaveSocket, Requests, Operations
<1>2. PICK r : /\ request' = [request EXCEPT ![o]["RECV"] = r]
               /\ r = NULL \/ (r = Submitted(o) /\ o \notin closing)
  BY DEF RecvReturns, CloseDiscipline
<1>3. r \in RequestStates \cup {NULL} /\ (r # NULL => r.file = own[o])
  BY <1>1, <1>2, SubmittedOnOwn
<1>4. /\ UNCHANGED <<socket, closing, member, fd_table, file, making, own, leaked, aborted>>
      /\ hearing' = NULL
  BY DEF RecvReturns, kernelVars, historyVars
<1>5. "RECV" \in Operations
  BY DEF Operations
<1> QED BY <1>1, <1>2, <1>3, <1>4, <1>5, RequestStep

\* The callback of a connect, of a send or of a close returns.
LEMMA OnceStep ==
    ASSUME IInv, NEW o \in Objects, NEW op \in Operations, OnceReturns(o, op)
    PROVE  Tables'
<1>1. op \in {"CONNECT", "SEND", "CLOSE"} /\ request[o][op].done
  BY DEF OnceReturns, Handled, Done
<1>2. /\ request' = [request EXCEPT ![o][op] = NULL]
      /\ UNCHANGED <<socket, closing, member, fd_table, file, making, own, leaked, aborted>>
      /\ hearing' \in Objects \cup {NULL}
  BY DEF OnceReturns, kernelVars, callVars, historyVars, IInv, Tables, TypeOK
<1> QED BY <1>1, <1>2, RequestStep

\* The two bytes of a port.
Byte == {n \in Nat : n < 256}

\* What division and remainder make of two bytes.
LEMMA BytesOfPort ==
    ASSUME NEW high \in Byte, NEW low \in Byte
    PROVE  /\ (high * 256 + low) % 256 = low
           /\ (high * 256 + low) \div 256 = high
           /\ high * 256 + low \in PortNumbers
  BY DEF Byte, PortNumbers

\* A port that was converted to network order and back is itself.
LEMMA PortRoundTrip ==
    ASSUME NEW port \in PortNumbers
    PROVE  htons(port) \in PortNumbers /\ htons(htons(port)) = port
<1>1. PICK a \in Byte, b \in Byte : port = b * 256 + a
  <2>1. port % 256 \in Byte /\ port \div 256 \in Byte
    BY DEF PortNumbers, Byte
  <2>2. port = (port \div 256) * 256 + (port % 256)
    BY DEF PortNumbers
  <2> QED BY <2>1, <2>2
<1>2. htons(port) = a * 256 + b
  BY <1>1, BytesOfPort DEF htons
<1>3. htons(a * 256 + b) = port
  BY <1>1, BytesOfPort DEF htons
<1> QED BY <1>2, <1>3, BytesOfPort

\* submit_connect: whichever way the target was made, its port is in network order.
\* A target of the other family ends the process.
LEMMA ConnectStep ==
    ASSUME IInv, NEW o \in Objects, NEW host \in Hosts, NEW port \in Ports,
           submit_connect(o, host, port)
    PROVE  Tables'
<1>1. /\ socket[o] # NULL /\ o \notin closing /\ request[o].CONNECT = NULL
      /\ file[own[o]].is = "stream" /\ Holds(o) /\ aborted = "no"
  BY DEF submit_connect, Holds, Closed, Idle, Running
<1>2. is_stream(o)
  BY <1>1 DEF IInv, Tables, HeldStreams
<1>3. /\ UNCHANGED <<socket, closing, member, fd_table, file, making, hearing, own, leaked>>
      /\ making \in Objects \cup {NULL} /\ hearing \in Objects \cup {NULL}
  BY DEF submit_connect, kernelVars, callVars, historyVars, IInv, Tables, TypeOK
<1>4. PICK target \in Targets(host, port) :
         \/ /\ size_sockaddr(target) = sizeof_sockaddr_in
            /\ request' = [request EXCEPT ![o].CONNECT =
                 [Submitted(o) EXCEPT !.target = data_sockaddr(target), !.wanted = <<host, port>>]]
            /\ aborted' = aborted
         \/ aborted' = "target" /\ request' = request
  BY DEF submit_connect
<1>5. CASE aborted' = "target" /\ request' = request
  BY <1>3, <1>5, UnchangedStep
<1>6. CASE /\ size_sockaddr(target) = sizeof_sockaddr_in
           /\ request' = [request EXCEPT ![o].CONNECT =
                [Submitted(o) EXCEPT !.target = data_sockaddr(target), !.wanted = <<host, port>>]]
           /\ aborted' = aborted
  <2> DEFINE address == data_sockaddr(target)
             r == [Submitted(o) EXCEPT !.target = address, !.wanted = <<host, port>>]
             a(p) == [sin_port |-> p, sin_addr |-> host]
  <2>1. htons(port) \in PortNumbers /\ htons(htons(port)) = port
    BY SocketsAssumption, PortRoundTrip
  <2>2. \A p \in PortNumbers : a(p) \in SockAddrs /\ a(p) # NULL
    BY SocketsAssumption DEF SockAddrs
  <2>3. 0 \in PortNumbers
    BY DEF PortNumbers
  <2>4. address = a(htons(port))
    <3>1. data_sockaddr(IPv4Address(host, port)) = a(htons(port))
      BY <2>1, <2>2 DEF data_sockaddr, get_ipv4, IPv4Address, IPv4, sockaddr
    <3>2. data_sockaddr(set_port(IPv4(a(0)), port)) = a(htons(port))
      BY <2>1, <2>2, <2>3 DEF data_sockaddr, get_ipv4, IPv4, set_port
    <3>3. size_sockaddr(set_port(IPv6(a(0)), port)) # sizeof_sockaddr_in
      BY DEF size_sockaddr, get_ipv4, IPv6, set_port, sizeof_sockaddr_in, sizeof_sockaddr_in6
    <3> QED BY <1>6, <3>1, <3>2, <3>3 DEF Targets
  <2>5. own[o] \in Files /\ address \in SockAddrs
    BY <1>1, <2>1, <2>2, <2>4, HolderIsOpen
  <2>6. /\ r \in RequestStates /\ r.file = own[o]
        /\ r.target = address /\ r.wanted = <<host, port>>
    <3>1. Submitted(o) \in RequestStates /\ Submitted(o).file = own[o]
      BY <1>1, SubmittedOnOwn
    <3> HIDE DEF address
    <3> QED BY <2>5, <3>1 DEF RequestStates
  <2>7. r.target \in SockAddrs /\ r.wanted = <<r.target.sin_addr, htons(r.target.sin_port)>>
    BY <2>1, <2>4, <2>5, <2>6
  <2>8. request' = [request EXCEPT ![o]["CONNECT"] = r] /\ "CONNECT" \in Operations
    BY <1>6 DEF Operations
  <2> HIDE DEF r, address
  <2> QED BY <1>1, <1>2, <1>3, <1>6, <2>6, <2>7, <2>8, RequestStep
<1> QED BY <1>4, <1>5, <1>6

\* The kernel connects the file to the host and the port that were asked for.
LEMMA KernelConnectsStep ==
    ASSUME IInv, NEW o \in Objects, KernelConnects(o)
    PROVE  Tables'
<1> USE DEF IInv, Tables, TypeOK
<1> DEFINE c == request[o].CONNECT
           r == [c EXCEPT !.done = TRUE]
<1>1. c # NULL /\ ~c.done /\ socket[o] # NULL /\ o \notin closing /\ Holds(o)
  BY DEF KernelConnects, Pending, RequestsHaveSocket, Requests, Operations, ClosingIsLast, Holds, Closed
<1>2. c \in RequestStates /\ c.file = own[o] /\ own[o] \in Files
  BY <1>1, HolderIsOpen, ServedIsRequest DEF RequestsOnOwnFile, Requests, Operations
<1>3. /\ c.target \in SockAddrs
      /\ c.wanted = <<c.target.sin_addr, htons(c.target.sin_port)>>
      /\ is_stream(o)
  BY <1>1 DEF ConnectsAreStreams
<1>4. /\ r \in RequestStates /\ r # NULL /\ r.done /\ r.file = c.file
      /\ r.target = c.target /\ r.wanted = c.wanted
  BY <1>2, ServedConnect
<1>5. <<c.target.sin_addr, get_port(IPv4(c.target))>> = c.wanted
  <2>1. c.target # NULL
    BY <1>3, SocketsAssumption
  <2>2. get_port(IPv4(c.target)) = htons(c.target.sin_port)
    BY <2>1 DEF get_port, data_sockaddr, get_ipv4, IPv4
  <2> QED BY <1>3, <2>2
<1>6. c.wanted \in Hosts \X PortNumbers
  BY <1>3, PortRoundTrip DEF SockAddrs
<1> DEFINE new == [file[own[o]] EXCEPT !.is = "connected", !.peer = c.wanted]
<1>7. new \in FileStates /\ new.is = "connected" /\ new.peer = c.wanted /\ new.groups = file[own[o]].groups
  BY <1>2, <1>6, ConnectedFile
<1>8. file' = [file EXCEPT ![own[o]] = new] /\ request' = [request EXCEPT ![o].CONNECT = r]
  BY <1>2, <1>5 DEF KernelConnects, Finish
<1>9. UNCHANGED <<socket, closing, member, fd_table, making, hearing, own, leaked, aborted>>
  BY DEF KernelConnects, callVars, historyVars
<1> HIDE DEF r, new
<1>10. /\ request'[o].CONNECT = r
       /\ \A p \in Objects, q \in Operations :
             p # o \/ q # "CONNECT" => request'[p][q] = request[p][q]
  BY <1>8 DEF Operations
<1>11. \A p \in Objects :
          /\ Holds(p)' <=> Holds(p)
          /\ Arrives(p)' <=> Arrives(p)
          /\ request'[p].ACCEPT = request[p].ACCEPT
          /\ request'[p].CLOSE = request[p].CLOSE
          /\ Requests(p)' = Requests(p)
  BY <1>1, <1>4, <1>9, <1>10 DEF Holds, Closed, Arrives, Requests, Operations
<1>12. \A p \in Objects \ {o} : own[p] # NULL => file'[own[p]] = file[own[p]]
  BY <1>2, <1>8 DEF OwnFiles
<1>13. TypeOK'
  BY <1>4, <1>7, <1>8, <1>9 DEF Operations
<1>14. OwnFiles' /\ DescriptorsUnshared' /\ HoldersNameOwn'
  BY <1>9, <1>11 DEF OwnFiles, DescriptorsUnshared, HoldersNameOwn
<1>15. ServedArrive' /\ ArrivalsNew' /\ EachNamed' /\ LeakedIsNobodys'
  <2>1. ServedArrive' /\ ArrivalsNew' /\ LeakedIsNobodys'
    BY <1>9, <1>11 DEF ServedArrive, ArrivalsNew, LeakedIsNobodys
  <2>2. EachNamed'
    BY <1>9, <1>11 DEF EachNamed
  <2> QED BY <2>1, <2>2
<1>16. ClosingIsLast' /\ RequestsHaveSocket'
  BY <1>1, <1>9, <1>10, <1>11 DEF ClosingIsLast, RequestsHaveSocket, Operations
<1>17. RequestsOnOwnFile'
  BY <1>2, <1>4, <1>9, <1>10, <1>11 DEF RequestsOnOwnFile, Requests, Operations
<1>18. AcceptsListen'
  BY <1>1, <1>2, <1>8, <1>9, <1>11, <1>12
  DEF AcceptsListen, ConnectsAreStreams, RequestsHaveSocket, Requests, Operations, OwnFiles
<1>19. ConnectsAreStreams'
  BY <1>3, <1>4, <1>9, <1>10, <1>12
  DEF ConnectsAreStreams, is_stream, RequestsHaveSocket, Requests, Operations, OwnFiles
<1>20. HeldStreams' /\ ConnectionsAreStreams'
  <2>1. \A p \in Objects : is_stream(p)' <=> is_stream(p)
    BY <1>9 DEF is_stream
  <2>2. HeldStreams'
    BY <1>3, <1>9, <1>11, <1>12, <2>1 DEF HeldStreams, OwnFiles, Holds
  <2>3. ConnectionsAreStreams'
    BY <1>3, <1>9, <1>12, <2>1 DEF ConnectionsAreStreams
  <2> QED BY <2>2, <2>3
<1>21. MembersJoined' /\ LeaveSucceeds'
  BY <1>7, <1>8, <1>9, <1>12 DEF MembersJoined, LeaveSucceeds, OwnFiles
<1>22. ConnectsWhereAsked'
  BY <1>2, <1>4, <1>7, <1>8, <1>9, <1>10, <1>12
  DEF ConnectsWhereAsked, RequestsOnOwnFile, RequestsHaveSocket, Requests, Operations, OwnFiles
<1> QED BY <1>13, <1>14, <1>15, <1>16, <1>17, <1>18, <1>19, <1>20, <1>21, <1>22

\* The kernel closes a descriptor: it names the file of the socket that asked, and no
\* other socket holds it.
LEMMA KernelClosesStep ==
    ASSUME IInv, NEW o \in Objects, KernelCloses(o)
    PROVE  Tables'
<1> USE DEF IInv, Tables, TypeOK
<1> DEFINE r == [request[o].CLOSE EXCEPT !.done = TRUE]
<1>1. /\ request[o].CLOSE # NULL /\ ~request[o].CLOSE.done
      /\ socket[o] # NULL /\ o \in closing /\ Holds(o)
  BY DEF KernelCloses, Pending, RequestsHaveSocket, Requests, Operations, ClosingIsLast, Holds, Closed
<1>2. /\ r \in RequestStates /\ r # NULL
      /\ r.done /\ r.file = own[o] /\ socket[o].m_fd \in Fds
  <2>1. request[o].CLOSE \in RequestStates /\ request[o].CLOSE.file = own[o]
    BY <1>1, ServedIsRequest DEF RequestsOnOwnFile, Requests, Operations
  <2>2. r \in RequestStates /\ r.done /\ r.file = own[o]
    BY <2>1 DEF RequestStates
  <2>3. socket[o].m_fd \in Fds
    BY <1>1, HolderIsOpen DEF SocketStates
  <2> QED BY <2>2, <2>3, SocketsAssumption
<1> DEFINE n == socket[o].m_fd
<1>3. /\ fd_table' = [fd_table EXCEPT ![n] = NULL]
      /\ request' = [request EXCEPT ![o].CLOSE = r]
      /\ UNCHANGED <<socket, closing, member, file, making, hearing, own, leaked, aborted>>
  BY DEF KernelCloses, Finish, callVars, historyVars
<1> HIDE DEF r
<1>4. /\ request'[o].CLOSE = r
      /\ \A p \in Objects, q \in Operations :
            p # o \/ q # "CLOSE" => request'[p][q] = request[p][q]
  BY <1>3 DEF Operations
<1>5. ~Holds(o)' /\ \A p \in Objects \ {o} : Holds(p)' <=> Holds(p)
  BY <1>1, <1>2, <1>3, <1>4 DEF Holds, Closed, Operations
<1>6. \A p \in Objects :
         /\ Arrives(p)' <=> Arrives(p)
         /\ request'[p].ACCEPT = request[p].ACCEPT
         /\ request'[p].CONNECT = request[p].CONNECT
         /\ Requests(p)' = Requests(p)
  BY <1>1, <1>2, <1>4 DEF Arrives, Requests, Operations
<1>7. \A p \in Objects \ {o} : Holds(p) => socket[p].m_fd \in Fds /\ socket[p].m_fd # n
  BY <1>1, HolderIsOpen DEF HoldersNameOwn, OwnFiles, Holds, SocketStates
<1>8. \A p \in Objects : Arrives(p) => request[p].ACCEPT.fd # n
  BY <1>1 DEF HoldersNameOwn, ArrivalsNew
<1>9. TypeOK'
  BY <1>2, <1>3 DEF Operations
<1>10. OwnFiles' /\ DescriptorsUnshared'
  BY <1>2, <1>3 DEF OwnFiles, DescriptorsUnshared
<1>11. HoldersNameOwn'
  BY <1>3, <1>5, <1>7 DEF HoldersNameOwn
<1>12. ServedArrive' /\ ArrivalsNew' /\ LeakedIsNobodys'
  <2>1. n \notin leaked
    BY <1>1 DEF HoldersNameOwn, LeakedIsNobodys
  <2>2. ServedArrive' /\ ArrivalsNew'
    BY <1>2, <1>3, <1>6, <1>8, SocketsAssumption DEF ServedArrive, ArrivalsNew
  <2>3. LeakedIsNobodys'
    BY <1>2, <1>3, <1>6, <2>1 DEF LeakedIsNobodys
  <2> QED BY <2>2, <2>3
<1>13. EachNamed'
  <2> SUFFICES ASSUME NEW m \in Fds, fd_table'[m] # NULL, m \notin leaked
               PROVE  \/ \E p \in Objects : Holds(p)' /\ socket'[p].m_fd = m
                      \/ \E p \in Objects : Arrives(p)' /\ request'[p].ACCEPT.fd = m
    BY <1>3 DEF EachNamed
  <2>1. m # n /\ fd_table[m] # NULL
    BY <1>2, <1>3
  <2>2. CASE \E p \in Objects : Holds(p) /\ socket[p].m_fd = m
    BY <1>3, <1>5, <2>1, <2>2
  <2>3. CASE \E p \in Objects : Arrives(p) /\ request[p].ACCEPT.fd = m
    BY <1>6, <2>3
  <2> QED BY <2>1, <2>2, <2>3 DEF EachNamed
<1>14. ClosingIsLast' /\ RequestsHaveSocket'
  BY <1>1, <1>3, <1>4, <1>6 DEF ClosingIsLast, RequestsHaveSocket, Operations
<1>15. RequestsOnOwnFile'
  BY <1>2, <1>3, <1>4, <1>6 DEF RequestsOnOwnFile, Requests, Operations
<1>16. AcceptsListen' /\ ConnectsWhereAsked'
  BY <1>3, <1>6 DEF AcceptsListen, ConnectsWhereAsked
<1>17. ConnectsAreStreams'
  BY <1>3, <1>6 DEF ConnectsAreStreams, is_stream
<1>18. HeldStreams' /\ ConnectionsAreStreams'
  BY <1>3, <1>5 DEF HeldStreams, ConnectionsAreStreams, is_stream
<1>19. MembersJoined' /\ LeaveSucceeds'
  BY <1>3 DEF MembersJoined, LeaveSucceeds
<1> QED BY <1>9, <1>10, <1>11, <1>12, <1>13, <1>14, <1>15, <1>16, <1>17, <1>18, <1>19

\* The kernel accepts: a new file gets a new descriptor, on its way to the callback.
LEMMA KernelAcceptsStep ==
    ASSUME IInv, NEW o \in Objects, KernelAccepts(o)
    PROVE  Tables'
<1> USE DEF IInv, Tables, TypeOK
<1> DEFINE c == request[o].ACCEPT
<1>1. /\ c # NULL /\ ~c.done /\ c \in RequestStates /\ c.file = own[o]
      /\ socket[o] # NULL /\ own[o] \in Files
      /\ file[own[o]].is = "listening"
  BY ServedIsRequest
  DEF KernelAccepts, Pending, RequestsHaveSocket, RequestsOnOwnFile, Requests, Operations,
     OwnFiles, AcceptsListen
<1>2. PICK f \in Files, n \in Fds, new \in FileStates, r \in RequestStates :
         /\ Unknown(f) /\ fd_table[n] = NULL
         /\ new.is = "connected"
         /\ r.done /\ r.fd = n /\ r.file = own[o]
         /\ fd_table' = [fd_table EXCEPT ![n] = f]
         /\ file' = [file EXCEPT ![f] = new]
         /\ request' = [request EXCEPT ![o].ACCEPT = r]
  <2> DEFINE new == [NewFile EXCEPT !.is = "connected",
                                    !.port = file[request[o].ACCEPT.file].port,
                                    !.reuse = file[request[o].ACCEPT.file].reuse]
  <2>1. PICK f \in Files, n \in Fds :
           /\ Unknown(f) /\ Lowest(n)
           /\ fd_table' = [fd_table EXCEPT ![n] = f]
           /\ file' = [file EXCEPT ![f] = new]
           /\ request' = [request EXCEPT ![o].ACCEPT.done = TRUE, ![o].ACCEPT.fd = n]
    BY DEF KernelAccepts
  <2> DEFINE served == [c EXCEPT !.done = TRUE, !.fd = n]
  <2>2. new \in FileStates /\ new.is = "connected"
    <3>1. file[c.file] \in FileStates /\ c.file = request[o].ACCEPT.file
      BY <1>1
    <3>2. file[c.file].port \in Ports \cup {NULL} /\ file[c.file].reuse \in BOOLEAN
      BY <3>1 DEF FileStates
    <3> QED BY ONLY <3>1, <3>2 DEF new, NewFile, FileStates
  <2>3. served \in RequestStates /\ served.done /\ served.fd = n /\ served.file = own[o]
    <3>1. c \in RequestStates /\ n \in Fds /\ c.file = own[o]
      BY <1>1
    <3> HIDE DEF c
    <3> QED BY ONLY <3>1, ServedAccept DEF served
  <2>4. request' = [request EXCEPT ![o].ACCEPT = served]
    <3>1. /\ request[o] \in [Operations -> RequestStates \cup {NULL}]
          /\ "ACCEPT" \in Operations /\ c = request[o].ACCEPT
      BY DEF Operations
    <3>2. /\ "done" \in DOMAIN c /\ "fd" \in DOMAIN c
      BY <1>1 DEF RequestStates
    <3> QED BY <2>1, <3>1, <3>2
  <2>5. fd_table[n] = NULL
    BY <2>1 DEF Lowest, FreeFds
  <2>6. Unknown(f) /\ fd_table' = [fd_table EXCEPT ![n] = f] /\ file' = [file EXCEPT ![f] = new]
    BY <2>1
  <2> HIDE DEF new, served
  <2> QED BY <2>2, <2>3, <2>4, <2>5, <2>6
<1>3. UNCHANGED <<socket, closing, member, making, hearing, own, leaked, aborted>>
  BY DEF KernelAccepts, callVars, historyVars
<1>4. /\ \A p \in Objects : own[p] # f
      /\ \A m \in Fds : fd_table[m] # f
      /\ \A p \in Objects, q \in Operations : request[p][q] # NULL => request[p][q].file # f
  BY <1>2, UnknownIsNew
<1>5. r # NULL /\ f # NULL
  BY <1>2, SocketsAssumption
<1>6. /\ request'[o].ACCEPT = r
      /\ \A p \in Objects, q \in Operations :
            p # o \/ q # "ACCEPT" => request'[p][q] = request[p][q]
  BY <1>2 DEF Operations
<1>7. \A p \in Objects :
         /\ Holds(p)' <=> Holds(p)
         /\ request'[p].CONNECT = request[p].CONNECT
         /\ request'[p].CLOSE = request[p].CLOSE
         /\ request'[p].ACCEPT # NULL <=> request[p].ACCEPT # NULL
         /\ Requests(p)' = Requests(p)
  BY <1>1, <1>3, <1>5, <1>6 DEF Holds, Closed, Requests, Operations
<1>8. /\ Arrives(o)' /\ ~Arrives(o)
      /\ \A p \in Objects \ {o} : (Arrives(p)' <=> Arrives(p)) /\ request'[p].ACCEPT = request[p].ACCEPT
  BY <1>1, <1>2, <1>5, <1>6, SocketsAssumption DEF Arrives, Operations
<1>9. \A p \in Objects : own[p] # NULL => file'[own[p]] = file[own[p]]
  BY <1>2, <1>4
<1>10. TypeOK'
  BY <1>2, <1>3 DEF Operations
<1>11. OwnFiles' /\ DescriptorsUnshared'
  BY <1>2, <1>3, <1>4 DEF OwnFiles, DescriptorsUnshared
<1>12. HoldersNameOwn'
  BY <1>2, <1>3, <1>7, HolderIsOpen, SocketsAssumption
  DEF HoldersNameOwn, SocketStates, OwnFiles
<1>13. ServedArrive' /\ ArrivalsNew' /\ LeakedIsNobodys'
  <2>1. ServedArrive'
    BY <1>2, <1>6, <1>8 DEF ServedArrive
  <2>2. ArrivalsNew'
    BY <1>2, <1>3, <1>4, <1>5, <1>6, <1>8 DEF ArrivalsNew
  <2>3. n \notin leaked
    BY <1>2 DEF LeakedIsNobodys
  <2>4. LeakedIsNobodys'
    BY <1>2, <1>3, <1>6, <1>8, <2>3 DEF LeakedIsNobodys
  <2> QED BY <2>1, <2>2, <2>4
<1>14. EachNamed'
  <2> SUFFICES ASSUME NEW m \in Fds, fd_table'[m] # NULL, m # n, m \notin leaked
               PROVE  \/ \E p \in Objects : Holds(p)' /\ socket'[p].m_fd = m
                      \/ \E p \in Objects : Arrives(p)' /\ request'[p].ACCEPT.fd = m
    BY <1>2, <1>3, <1>6, <1>8 DEF EachNamed
  <2>1. fd_table[m] # NULL
    BY <1>2
  <2>2. CASE \E p \in Objects : Holds(p) /\ socket[p].m_fd = m
    BY <1>3, <1>7, <2>2
  <2>3. CASE \E p \in Objects : Arrives(p) /\ request[p].ACCEPT.fd = m
    BY <1>8, <2>3
  <2> QED BY <2>1, <2>2, <2>3 DEF EachNamed
<1>15. ClosingIsLast' /\ RequestsHaveSocket'
  BY <1>3, <1>7 DEF ClosingIsLast, RequestsHaveSocket
<1>16. RequestsOnOwnFile'
  BY <1>2, <1>3, <1>6, <1>7 DEF RequestsOnOwnFile, Requests, Operations
<1>17. AcceptsListen'
  BY <1>3, <1>7, <1>9 DEF AcceptsListen, RequestsHaveSocket, Requests, Operations, OwnFiles
<1>18. ConnectsAreStreams'
  BY <1>3, <1>7, <1>9
  DEF ConnectsAreStreams, is_stream, RequestsHaveSocket, Requests, Operations, OwnFiles
<1>19. HeldStreams' /\ ConnectionsAreStreams'
  BY <1>3, <1>7, <1>9 DEF HeldStreams, ConnectionsAreStreams, is_stream, OwnFiles, Holds
<1>20. MembersJoined' /\ LeaveSucceeds'
  BY <1>3, <1>9 DEF MembersJoined, LeaveSucceeds, OwnFiles
<1>21. ConnectsWhereAsked'
  BY <1>2, <1>4, <1>7 DEF ConnectsWhereAsked, Operations
<1> QED BY <1>10, <1>11, <1>12, <1>13, <1>14, <1>15, <1>16, <1>17, <1>18, <1>19, <1>20, <1>21

\* The callback of an accept takes the descriptor over, and the accept goes on: the
\* address is never an IPv4 one, and the connection is a stream.
LEMMA AcceptReturnsStep ==
    ASSUME IInv, NEW o \in Objects, NEW new \in Objects, NEW stale \in Stale,
           AcceptReturns(o, new, stale)
    PROVE  Tables'
<1> USE DEF IInv, Tables, TypeOK
<1>1. /\ request[o].ACCEPT # NULL /\ Arrives(o) /\ socket[o] # NULL /\ o \notin closing
      /\ file[own[o]].is = "listening"
  BY DEF AcceptReturns, Handled, Done, Arrives, RequestsHaveSocket, Requests, Operations,
         ClosingIsLast, AcceptsListen
<1>2. /\ new # o /\ socket[new] = NULL /\ own[new] = NULL /\ new \notin member
      /\ Requests(new) = {} /\ \A op \in Operations : request[new][op] = NULL
  BY DEF AcceptReturns, Absent, Requests, OwnFiles, MembersJoined
<1>3. PICK n \in Fds : n = request[o].ACCEPT.fd
  BY <1>1 DEF ArrivalsNew
<1>4. PICK f \in Files : f = fd_table[n]
  BY <1>1, <1>3 DEF ArrivalsNew
<1>5. PICK state \in SocketStates :
         /\ state.m_fd = n /\ state.m_type = "IPV6_TCP"
         /\ socket' = [socket EXCEPT ![new] = state]
  <2> DEFINE address == FromStorage(stale, sizeof_sockaddr_in)
             state == AcceptedSocket([m_new_fd |-> n, m_address |-> address])
  <2>1. address.m_in4 = NULL /\ address.m_in6 = stale /\ stale # NULL
    BY SocketsAssumption DEF FromStorage, sizeof_sockaddr_in, sizeof_sockaddr_in6
  <2>2. AcceptedType(address) = "IPV6_TCP" /\ AcceptedPort(address) = stale.sin_port
    BY <2>1 DEF AcceptedType, AcceptedPort, data_sockaddr, get_ipv4, get_ipv6
  <2>3. state = [m_type |-> "IPV6_TCP", m_kind |-> "SERVER_STREAM_SOCKET",
                 m_port |-> stale.sin_port, m_fd |-> n, m_mreq |-> NULL]
    BY <2>2 DEF AcceptedSocket
  <2>4. state \in SocketStates /\ state.m_fd = n /\ state.m_type = "IPV6_TCP"
    BY <2>3, SocketsAssumption DEF SocketStates, SocketTypes, SocketKinds
  <2>5. socket' = [socket EXCEPT ![new] = state]
    BY <1>3 DEF AcceptReturns
  <2> HIDE DEF state
  <2> QED BY <2>4, <2>5
<1>6. PICK r \in RequestStates :
         /\ r # NULL /\ ~r.done /\ r.fd = NULL /\ r.file = own[o]
         /\ request' = [request EXCEPT ![o].ACCEPT = r]
  <2>1. request' = [request EXCEPT ![o].ACCEPT = Submitted(o)]
    BY DEF AcceptReturns
  <2> QED BY <1>1, <2>1, SubmittedOnOwn
<1>7. /\ own' = [own EXCEPT ![new] = f] /\ closing' = closing \ {new}
      /\ UNCHANGED <<member, fd_table, file, making, hearing, leaked, aborted>>
  BY <1>3, <1>4 DEF AcceptReturns, kernelVars, callVars
<1>8. state # NULL /\ f # NULL /\ (\A p \in Objects : own[p] # f)
      /\ \A p \in Objects : Arrives(p) /\ request[p].ACCEPT.fd = n => p = o
  BY <1>1, <1>3, <1>4, SocketsAssumption DEF ArrivalsNew
<1>9. /\ request'[o].ACCEPT = r
      /\ \A p \in Objects, q \in Operations :
            p # o \/ q # "ACCEPT" => request'[p][q] = request[p][q]
  BY <1>6 DEF Operations
<1>10. /\ socket'[new] = state /\ own'[new] = f
       /\ \A p \in Objects \ {new} : socket'[p] = socket[p] /\ own'[p] = own[p]
  BY <1>5, <1>7
<1>11. /\ Holds(new)'
       /\ \A p \in Objects \ {new} : Holds(p)' <=> Holds(p)
  BY <1>7, <1>8, <1>9, <1>10 DEF Holds, Closed, Operations
<1>12. /\ ~Arrives(o)'
       /\ \A p \in Objects \ {o} : (Arrives(p)' <=> Arrives(p)) /\ request'[p].ACCEPT = request[p].ACCEPT
  BY <1>6, <1>9 DEF Arrives, Operations
<1>13. \A p \in Objects :
          /\ request'[p].CONNECT = request[p].CONNECT
          /\ request'[p].CLOSE = request[p].CLOSE
          /\ request'[p].ACCEPT # NULL <=> request[p].ACCEPT # NULL
          /\ Requests(p)' = Requests(p)
  BY <1>1, <1>6, <1>9 DEF Requests, Operations
<1>14. TypeOK'
  BY <1>5, <1>6, <1>7 DEF Operations
<1>15. OwnFiles' /\ DescriptorsUnshared'
  BY <1>7, <1>8, <1>10 DEF OwnFiles, DescriptorsUnshared
<1>16. HoldersNameOwn'
  BY <1>4, <1>5, <1>7, <1>10, <1>11 DEF HoldersNameOwn
<1>17. ServedArrive' /\ LeakedIsNobodys'
  <2>1. ServedArrive'
    BY <1>6, <1>9 DEF ServedArrive, Operations
  <2>2. n \notin leaked
    BY <1>1, <1>3 DEF LeakedIsNobodys
  <2>3. \A m \in leaked : m \in Fds /\ fd_table[m] # f
    BY <1>4, <1>8, <2>2 DEF LeakedIsNobodys, DescriptorsUnshared
  <2>4. LeakedIsNobodys'
    BY <1>7, <1>10, <1>12, <2>3 DEF LeakedIsNobodys
  <2> QED BY <2>1, <2>4
<1>25. ArrivalsNew'
  <2> SUFFICES ASSUME NEW p \in Objects, Arrives(p)'
               PROVE  /\ request'[p].ACCEPT.fd \in Fds
                      /\ fd_table'[request'[p].ACCEPT.fd] # NULL
                      /\ \A q \in Objects : own'[q] # fd_table'[request'[p].ACCEPT.fd]
                      /\ \A q \in Objects : Arrives(q)' /\ request'[q].ACCEPT.fd = request'[p].ACCEPT.fd => q = p
    BY DEF ArrivalsNew
  <2>1. p # o /\ Arrives(p) /\ request'[p].ACCEPT = request[p].ACCEPT
    BY <1>12
  <2>2. request[p].ACCEPT.fd \in Fds /\ request[p].ACCEPT.fd # n
    BY <1>8, <2>1 DEF ArrivalsNew
  <2>3. fd_table[request[p].ACCEPT.fd] # f
    BY <1>4, <1>8, <2>2 DEF DescriptorsUnshared
  <2> QED BY <1>7, <1>10, <1>12, <2>1, <2>2, <2>3 DEF ArrivalsNew
<1>18. EachNamed'
  <2> SUFFICES ASSUME NEW m \in Fds, fd_table[m] # NULL, m # n, m \notin leaked
               PROVE  \/ \E p \in Objects : Holds(p)' /\ socket'[p].m_fd = m
                      \/ \E p \in Objects : Arrives(p)' /\ request'[p].ACCEPT.fd = m
    BY <1>5, <1>7, <1>10, <1>11 DEF EachNamed
  <2>1. CASE \E p \in Objects : Holds(p) /\ socket[p].m_fd = m
    BY <1>2, <1>10, <1>11, <2>1 DEF Holds
  <2>2. CASE \E p \in Objects : Arrives(p) /\ request[p].ACCEPT.fd = m
    BY <1>3, <1>12, <2>2
  <2> QED BY <2>1, <2>2 DEF EachNamed
<1>19. ClosingIsLast' /\ RequestsHaveSocket'
  BY <1>2, <1>7, <1>8, <1>10, <1>13 DEF ClosingIsLast, RequestsHaveSocket, Operations
<1>20. RequestsOnOwnFile'
  BY <1>2, <1>6, <1>9, <1>10, <1>13 DEF RequestsOnOwnFile, Requests, Operations
<1>21. AcceptsListen' /\ ConnectsWhereAsked'
  BY <1>2, <1>7, <1>10, <1>13 DEF AcceptsListen, ConnectsWhereAsked, Operations
<1>22. ConnectsAreStreams'
  BY <1>2, <1>7, <1>10, <1>13 DEF ConnectsAreStreams, is_stream, Operations
<1>23. HeldStreams' /\ ConnectionsAreStreams'
  BY <1>5, <1>7, <1>10, <1>11 DEF HeldStreams, ConnectionsAreStreams, is_stream
<1>24. MembersJoined' /\ LeaveSucceeds'
  BY <1>2, <1>7, <1>10 DEF MembersJoined, LeaveSucceeds
<1> QED BY <1>14, <1>15, <1>16, <1>17, <1>18, <1>19, <1>20, <1>21, <1>22, <1>23, <1>24, <1>25

\* An accept goes on without a new object: its connection, if there is one, is
\* nobody's from now on.
LEMMA AcceptResubmitsStep ==
    ASSUME IInv, NEW o \in Objects, AcceptResubmits(o)
    PROVE  Tables'
<1> USE DEF IInv, Tables, TypeOK
<1>1. /\ request[o].ACCEPT # NULL /\ request[o].ACCEPT.done /\ socket[o] # NULL
      /\ o \notin closing /\ file[own[o]].is = "listening"
  BY DEF AcceptResubmits, Handled, Done, RequestsHaveSocket, Requests, Operations,
         ClosingIsLast, AcceptsListen
<1>2. PICK r \in RequestStates :
         /\ r # NULL /\ ~r.done /\ r.fd = NULL /\ r.file = own[o]
         /\ request' = [request EXCEPT ![o].ACCEPT = r]
  <2>1. request' = [request EXCEPT ![o].ACCEPT = Submitted(o)]
    BY DEF AcceptResubmits
  <2> QED BY <1>1, <2>1, SubmittedOnOwn
<1>3. /\ UNCHANGED <<socket, closing, member, fd_table, file, making, hearing, own, aborted>>
      /\ leaked' = leaked \cup ({request[o].ACCEPT.fd} \ {NULL})
  BY DEF AcceptResubmits, kernelVars, callVars
<1>4. CASE request[o].ACCEPT.fd = NULL
  <2>1. leaked' = leaked /\ ~Arrives(o)
    BY <1>3, <1>4 DEF Arrives
  <2>2. /\ request' = [request EXCEPT ![o]["ACCEPT"] = r] /\ "ACCEPT" \in Operations
        /\ hearing' \in Objects \cup {NULL}
    BY <1>2, <1>3 DEF Operations
  <2> HIDE DEF IInv, Tables, TypeOK
  <2> QED BY <1>1, <1>2, <1>3, <2>1, <2>2, RequestStep
<1>5. CASE request[o].ACCEPT.fd # NULL
  <2>1. Arrives(o)
    BY <1>1, <1>5 DEF Arrives
  <2>2. PICK n \in Fds : n = request[o].ACCEPT.fd
    BY <2>1 DEF ArrivalsNew
  <2>3. /\ fd_table[n] # NULL
        /\ \A p \in Objects : own[p] # fd_table[n]
        /\ \A p \in Objects : Arrives(p) /\ request[p].ACCEPT.fd = n => p = o
    BY <2>1, <2>2 DEF ArrivalsNew
  <2>4. leaked' = leaked \cup {n}
    BY <1>3, <1>5, <2>2
  <2>5. /\ request'[o].ACCEPT = r
        /\ \A p \in Objects, q \in Operations :
              p # o \/ q # "ACCEPT" => request'[p][q] = request[p][q]
    BY <1>2 DEF Operations
  <2>6. /\ ~Arrives(o)'
        /\ \A p \in Objects \ {o} :
              (Arrives(p)' <=> Arrives(p)) /\ request'[p].ACCEPT = request[p].ACCEPT
    BY <1>2, <2>5 DEF Arrives, Operations
  <2>7. \A p \in Objects :
           /\ Holds(p)' <=> Holds(p)
           /\ request'[p].CONNECT = request[p].CONNECT
           /\ request'[p].CLOSE = request[p].CLOSE
           /\ request'[p].ACCEPT # NULL <=> request[p].ACCEPT # NULL
           /\ Requests(p)' = Requests(p)
    BY <1>1, <1>2, <1>3, <2>5 DEF Holds, Closed, Requests, Operations
  <2>8. TypeOK'
    BY <1>2, <1>3, <2>4 DEF Operations
  <2>9. OwnFiles' /\ DescriptorsUnshared' /\ HoldersNameOwn'
    BY <1>3, <2>7 DEF OwnFiles, DescriptorsUnshared, HoldersNameOwn
  <2>10. ServedArrive'
    BY <1>2, <2>5 DEF ServedArrive, Operations
  <2>11. ArrivalsNew' /\ LeakedIsNobodys'
    BY <1>3, <2>3, <2>4, <2>6 DEF ArrivalsNew, LeakedIsNobodys
  <2>12. EachNamed'
    <3> SUFFICES ASSUME NEW m \in Fds, fd_table[m] # NULL, m \notin leaked, m # n
                 PROVE  \/ \E p \in Objects : Holds(p)' /\ socket[p].m_fd = m
                        \/ \E p \in Objects : Arrives(p)' /\ request'[p].ACCEPT.fd = m
      BY <1>3, <2>4 DEF EachNamed
    <3>1. CASE \E p \in Objects : Holds(p) /\ socket[p].m_fd = m
      BY <2>7, <3>1
    <3>2. CASE \E p \in Objects : Arrives(p) /\ request[p].ACCEPT.fd = m
      BY <2>2, <2>6, <3>2
    <3> QED BY <3>1, <3>2 DEF EachNamed
  <2>13. ClosingIsLast' /\ RequestsHaveSocket'
    BY <1>3, <2>7 DEF ClosingIsLast, RequestsHaveSocket
  <2>14. RequestsOnOwnFile'
    BY <1>2, <1>3, <2>5, <2>7 DEF RequestsOnOwnFile, Requests, Operations
  <2>15. AcceptsListen' /\ ConnectsWhereAsked'
    BY <1>3, <2>7 DEF AcceptsListen, ConnectsWhereAsked
  <2>16. ConnectsAreStreams'
    BY <1>3, <2>7 DEF ConnectsAreStreams, is_stream
  <2>17. HeldStreams' /\ ConnectionsAreStreams'
    BY <1>3, <2>7 DEF HeldStreams, ConnectionsAreStreams, is_stream
  <2>18. MembersJoined' /\ LeaveSucceeds'
    BY <1>3 DEF MembersJoined, LeaveSucceeds
  <2> QED BY <2>8, <2>9, <2>10, <2>11, <2>12, <2>13, <2>14, <2>15, <2>16, <2>17, <2>18
<1> QED BY <1>4, <1>5

\* An object is let go of: a descriptor it still held is nobody's from now on.
LEMMA DropStep ==
    ASSUME IInv, NEW o \in Objects, Drop(o)
    PROVE  Tables'
<1> USE DEF IInv, Tables, TypeOK
<1>1. /\ socket[o] # NULL /\ ~Arrives(o) /\ own[o] # NULL
      /\ Requests(o) = {} /\ \A op \in Operations : request[o][op] = NULL
  BY DEF Drop, Requests, Operations, Arrives, OwnFiles
<1>2. /\ socket' = [socket EXCEPT ![o] = NULL] /\ own' = [own EXCEPT ![o] = NULL]
      /\ closing' = closing \ {o} /\ member' = member \ {o}
      /\ file' = [f \in Files |-> IF Open(f) THEN file[f] ELSE NewFile]
      /\ UNCHANGED <<fd_table, request, making, hearing, aborted>>
  BY DEF Drop, callVars
<1>3. NewFile \in FileStates /\ NewFile.is = "stream"
  BY DEF NewFile, FileStates
<1>4. \A p \in Objects \ {o} : socket'[p] = socket[p] /\ own'[p] = own[p]
  BY <1>2
<1>5. /\ \A p \in Objects \ {o} : Holds(p)' <=> Holds(p)
      /\ ~Holds(o)'
      /\ \A p \in Objects : (Arrives(p)' <=> Arrives(p)) /\ Requests(p)' = Requests(p)
  BY <1>1, <1>2, <1>4 DEF Holds, Closed, Arrives, Requests
<1>6. \A f \in Files : Open(f) => file'[f] = file[f]
  BY <1>2
<1>7. \A f \in Files : file'[f] = file[f] \/ file'[f].is = "stream"
  BY <1>2, <1>3
<1>8. \A p \in Objects : request[p].ACCEPT # NULL \/ request[p].CONNECT # NULL => Holds(p) /\ p # o
  BY <1>1 DEF ClosingIsLast, Holds, Closed, RequestsHaveSocket, Requests, Operations
<1>9. \A p \in Objects : Holds(p) => own[p] \in Files /\ file'[own[p]] = file[own[p]]
  BY <1>6, HolderIsOpen
<1>10. /\ leaked' \subseteq Fds
       /\ \A n \in leaked' : n \in leaked \/ (Holds(o) /\ n = socket[o].m_fd)
       /\ leaked \subseteq leaked' /\ (Holds(o) => socket[o].m_fd \in leaked')
  <2>1. CASE o \in closing
    <3>1. ~Holds(o)
      BY <1>1, <2>1 DEF Holds, Closed, Operations
    <3> QED BY <2>1, <3>1 DEF Drop
  <2>2. CASE o \notin closing
    <3>1. Holds(o)
      BY <1>1, <2>2 DEF Holds, Closed
    <3>2. socket[o].m_fd \in Fds
      BY <3>1, HolderIsOpen DEF SocketStates
    <3>3. leaked' = leaked \cup {socket[o].m_fd}
      BY <2>2 DEF Drop
    <3> QED BY <3>1, <3>2, <3>3
  <2> QED BY <2>1, <2>2
<1>11. TypeOK'
  BY <1>2, <1>3, <1>10
<1>12. OwnFiles' /\ DescriptorsUnshared' /\ HoldersNameOwn'
  BY <1>1, <1>2, <1>4, <1>5 DEF OwnFiles, DescriptorsUnshared, HoldersNameOwn
<1>13. ServedArrive' /\ ArrivalsNew'
  BY <1>1, <1>2, <1>4, <1>5 DEF ServedArrive, ArrivalsNew
<1>14. LeakedIsNobodys'
  <2> SUFFICES ASSUME NEW n \in leaked'
               PROVE  /\ fd_table[n] # NULL
                      /\ \A p \in Objects : own'[p] # fd_table[n]
                      /\ \A p \in Objects : Arrives(p) => request[p].ACCEPT.fd # n
    BY <1>2, <1>5 DEF LeakedIsNobodys
  <2>1. CASE n \in leaked
    BY <1>2, <1>4, <2>1 DEF LeakedIsNobodys
  <2>2. CASE Holds(o) /\ n = socket[o].m_fd
    <3>1. fd_table[n] = own[o]
      BY <2>2 DEF HoldersNameOwn
    <3>2. \A p \in Objects : own'[p] # fd_table[n]
      BY <1>1, <1>2, <1>4, <3>1 DEF OwnFiles
    <3> QED BY <1>1, <3>1, <3>2 DEF ArrivalsNew
  <2> QED BY <1>10, <2>1, <2>2
<1>15. EachNamed'
  <2> SUFFICES ASSUME NEW m \in Fds, fd_table[m] # NULL, m \notin leaked'
               PROVE  \/ \E p \in Objects : Holds(p)' /\ socket'[p].m_fd = m
                      \/ \E p \in Objects : Arrives(p) /\ request[p].ACCEPT.fd = m
    BY <1>2, <1>5 DEF EachNamed
  <2>1. CASE \E p \in Objects : Holds(p) /\ socket[p].m_fd = m
    BY <1>4, <1>5, <1>10, <2>1
  <2> QED BY <1>10, <2>1 DEF EachNamed
<1>16. ClosingIsLast' /\ RequestsHaveSocket'
  BY <1>1, <1>2, <1>4, <1>5 DEF ClosingIsLast, RequestsHaveSocket, Operations
<1>17. RequestsOnOwnFile'
  BY <1>1, <1>2, <1>4, <1>5 DEF RequestsOnOwnFile, Requests
<1>18. AcceptsListen'
  BY <1>2, <1>4, <1>8, <1>9 DEF AcceptsListen
<1>19. ConnectsAreStreams'
  <2>1. \A p \in Objects : request[p].CONNECT # NULL =>
           socket'[p] = socket[p] /\ file'[own'[p]] = file[own[p]]
    BY <1>4, <1>8, <1>9
  <2>2. request' = request
    BY <1>2
  <2> QED BY ONLY ConnectsAreStreams, <2>1, <2>2 DEF ConnectsAreStreams, is_stream
<1>20. HeldStreams'
  BY <1>4, <1>5, <1>9 DEF HeldStreams, is_stream
<1>21. ConnectionsAreStreams'
  BY <1>2, <1>4, <1>7 DEF ConnectionsAreStreams, is_stream
<1>22. MembersJoined' /\ LeaveSucceeds'
  <2>1. \A p \in member \ closing : Holds(p)
    BY DEF MembersJoined, Holds, Closed
  <2>2. \A p \in member' : p \in member /\ p # o /\ socket'[p] = socket[p] /\ own'[p] = own[p]
    BY <1>2, <1>4
  <2>3. \A p \in member' \ closing' : p \in member \ closing /\ file'[own[p]] = file[own[p]]
    BY <1>2, <1>9, <2>1, <2>2
  <2>4. MembersJoined'
    BY <2>2, <2>3 DEF MembersJoined
  <2> QED BY <1>2, <2>4 DEF LeaveSucceeds
<1>23. ConnectsWhereAsked'
  <2>1. \A p \in Objects : request[p].CONNECT # NULL =>
           request[p].CONNECT.file = own[p] /\ file'[own[p]] = file[own[p]]
    BY <1>8, <1>9 DEF RequestsOnOwnFile, Requests, Operations
  <2>2. request' = request
    BY <1>2
  <2> QED BY <2>1, <2>2 DEF ConnectsWhereAsked
<1> QED BY <1>11, <1>12, <1>13, <1>14, <1>15, <1>16, <1>17, <1>18, <1>19, <1>20, <1>21, <1>22, <1>23

\* After a restart nothing is left but ports that are remembered.
LEMMA RestartStep == ASSUME Restart PROVE IInv'
<1>1. NewFile \in FileStates
  BY DEF NewFile, FileStates
<1>2. TypeOK'
  BY <1>1 DEF Restart, TypeOK
<1>3. \A o \in Objects : ~Holds(o)' /\ ~Arrives(o)' /\ Requests(o)' = {}
  BY DEF Restart, Holds, Arrives, Requests, Operations
<1>4. Calls'
  BY SocketsAssumption DEF Restart, Calls, HearingReceives, ClosedInCallback, MakingIsNew
<1> QED
  BY <1>2, <1>3, <1>4
  DEF Restart, IInv, Tables, OwnFiles, DescriptorsUnshared, HoldersNameOwn, ServedArrive,
      ArrivalsNew, EachNamed, LeakedIsNobodys,
      ClosingIsLast, RequestsHaveSocket, RequestsOnOwnFile, AcceptsListen, ConnectsAreStreams,
      HeldStreams, MembersJoined, ConnectionsAreStreams, ConnectsWhereAsked, LeaveSucceeds,
      Operations

\* A step that leaves the receives and the constructor that are running alone.
LEMMA KeepsCalls ==
    ASSUME Calls, making' \in {making, NULL}, hearing' = hearing, closing' \subseteq closing,
           making # NULL => socket' = socket,
           \A p \in Objects : making = p => request'[p] = request[p],
           \A p \in Objects : hearing = p => request'[p].RECV = request[p].RECV,
           \A p \in closing : request'[p].RECV # NULL => request[p].RECV # NULL
    PROVE  Calls'
<1>1. HearingReceives' /\ ClosedInCallback'
  BY DEF Calls, HearingReceives, ClosedInCallback
<1>2. MakingIsNew'
  BY SocketsAssumption DEF Calls, MakingIsNew
<1> QED BY <1>1, <1>2 DEF Calls

\* A step about one request, that of an object whose callback does not run, that
\* begins no receive.
LEMMA KeepsCallsOfRequest ==
    ASSUME Calls, TypeOK, making' = making, hearing' = hearing, closing' \subseteq closing,
           making # NULL => socket' = socket,
           NEW o \in Objects, NEW op \in Operations, NEW r,
           making # o, request' = [request EXCEPT ![o][op] = r],
           op = "RECV" => hearing # o /\ request[o].RECV # NULL
    PROVE  Calls'
<1>1. \A p \in Objects : p # o => request'[p] = request[p]
  BY DEF TypeOK
<1>2. op # "RECV" => request'[o].RECV = request[o].RECV
  BY DEF TypeOK, Operations
<1> QED BY <1>1, <1>2, KeepsCalls

\* The kernel serves a request: not that of an object that is being made, nor the
\* receive a callback runs for.
LEMMA ServedKeepsCalls ==
    ASSUME IInv, NEW o \in Objects, NEW op \in Operations, Pending(o, op), NEW r,
           request' = [request EXCEPT ![o][op] = r],
           UNCHANGED <<socket, closing, making, hearing>>
    PROVE  Calls'
<1>1. request[o][op] # NULL /\ ~request[o][op].done
  BY DEF Pending
<1>2. making # o
  BY <1>1 DEF IInv, Calls, MakingIsNew
<1>3. op = "RECV" => hearing # o
  BY <1>1 DEF IInv, Calls, HearingReceives
<1> QED BY <1>1, <1>2, <1>3, KeepsCallsOfRequest DEF IInv, Tables

\* Which callback and which constructor run, and what a closed socket receives,
\* after a step of a disciplined program.
LEMMA CallsStep ==
    ASSUME IInv, CloseDiscipline, Next
    PROVE  Calls'
<1> USE DEF IInv, Tables
<1>1. ASSUME NEW why, Dies(why) PROVE Calls'
  BY <1>1, KeepsCalls DEF Dies, callVars
<1>2. ASSUME NEW o \in Objects, NEW wanted \in Wanted, NEW port \in Ports,
             create_socket(o, wanted[1], wanted[2], port)
      PROVE  Calls'
  <2>1. CASE /\ Absent(o) /\ making' = o /\ closing' = closing \ {o}
             /\ \E f \in Files, n \in Fds :
                   socket' = [socket EXCEPT ![o] =
                      [m_type |-> wanted[1], m_kind |-> wanted[2], m_port |-> port,
                       m_fd |-> n, m_mreq |-> NULL]]
             /\ hearing' = hearing /\ request' = request
    <3>1. PICK n \in Fds : socket' = [socket EXCEPT ![o] =
             [m_type |-> wanted[1], m_kind |-> wanted[2], m_port |-> port,
              m_fd |-> n, m_mreq |-> NULL]]
      BY <2>1
    <3>2. socket'[o].m_port = port
      BY <3>1 DEF TypeOK
    <3>3. socket'[o] # NULL
      <4>1. wanted[1] \in SocketTypes /\ wanted[2] \in SocketKinds /\ port \in PortNumbers
        BY SocketsAssumption
      <4> DEFINE state == [m_type |-> wanted[1], m_kind |-> wanted[2], m_port |-> port,
                           m_fd |-> n, m_mreq |-> NULL]
      <4>2. state \in SocketStates
        BY <4>1 DEF SocketStates
      <4>3. socket'[o] = state
        BY <3>1 DEF TypeOK
      <4> HIDE DEF state
      <4> QED BY <4>2, <4>3, SocketsAssumption
    <3>4. \A op \in Operations : request[o][op] = NULL
      BY <2>1 DEF Absent, Requests
    <3> QED BY <2>1, <3>2, <3>3, <3>4 DEF Calls, HearingReceives, ClosedInCallback, MakingIsNew
  <2> QED BY <1>1, <1>2, <2>1 DEF create_socket
<1>3. ASSUME NEW o \in Objects, set_reuse_address(o) \/ bind(o) \/ set_multicast_ttl(o) \/ listen(o)
      PROVE  Calls'
  <2>1. \/ \E why : Dies(why)
        \/ /\ making' \in {making, NULL}
           /\ UNCHANGED <<hearing, closing, socket, request>>
    BY <1>3 DEF set_reuse_address, bind, set_multicast_ttl, listen, callVars
  <2> QED BY <1>1, <2>1, KeepsCalls
<1>4. ASSUME NEW o \in Objects,
             \/ \E g \in Groups : join_multicast_group(o, g)
             \/ leave_multicast_group(o) \/ mcast_bind(o)
      PROVE  Calls'
  <2>1. making = NULL /\ UNCHANGED <<making, hearing, closing, request>>
    BY <1>4 DEF join_multicast_group, leave_multicast_group, mcast_bind, Idle, callVars
  <2> QED BY <2>1, KeepsCalls
<1>5. ASSUME NEW o \in Objects, NEW op \in Operations, submit(o, op) PROVE Calls'
  <2>1. /\ making = NULL /\ making' = making /\ hearing' = hearing
        /\ o \notin closing /\ request[o][op] = NULL
        /\ request' = [request EXCEPT ![o][op] = Submitted(o)]
        /\ closing' = IF op = "CLOSE" THEN closing \cup {o} ELSE closing
        /\ op = "CLOSE" => request[o].RECV = NULL \/ hearing = o
    BY <1>5 DEF submit, Idle, callVars, Fits, CloseDiscipline
  <2>2. /\ \A p \in Objects : p # o => request'[p] = request[p]
        /\ op # "RECV" => request'[o].RECV = request[o].RECV
    BY <2>1 DEF TypeOK, Operations
  <2>3. HearingReceives'
    BY <2>1, <2>2 DEF Calls, HearingReceives
  <2>4. ClosedInCallback'
    BY <2>1, <2>2 DEF Calls, ClosedInCallback
  <2>5. MakingIsNew'
    BY <2>1, SocketsAssumption DEF MakingIsNew
  <2> QED BY <2>3, <2>4, <2>5 DEF Calls
<1>6. ASSUME NEW o \in Objects, NEW host \in Hosts, NEW port \in Ports,
             submit_connect(o, host, port)
      PROVE  Calls'
  <2>1. making = NULL /\ UNCHANGED <<making, hearing, closing>>
    BY <1>6 DEF submit_connect, Idle, callVars
  <2>2. \/ request' = request
        \/ \E r : request' = [request EXCEPT ![o].CONNECT = r]
    BY <1>6 DEF submit_connect
  <2>3. \A p \in Objects : request'[p].RECV = request[p].RECV
    BY <2>2 DEF TypeOK, Operations
  <2> QED BY <2>1, <2>3, KeepsCalls, SocketsAssumption DEF TypeOK
<1>7. ASSUME NEW o \in Objects, KernelAccepts(o) PROVE Calls'
  <2>1. PICK n \in Fds : request' = [request EXCEPT ![o].ACCEPT.done = TRUE, ![o].ACCEPT.fd = n]
    BY <1>7 DEF KernelAccepts
  <2>2. making # o
    BY <1>7 DEF KernelAccepts, Pending, Calls, MakingIsNew, Operations
  <2>3. /\ \A p \in Objects : p # o => request'[p] = request[p]
        /\ request'[o].RECV = request[o].RECV
    BY <2>1 DEF TypeOK, Operations
  <2>4. UNCHANGED <<socket, closing, making, hearing>>
    BY <1>7 DEF KernelAccepts, callVars
  <2> QED BY <2>2, <2>3, <2>4, KeepsCalls DEF TypeOK
<1>8. ASSUME NEW o \in Objects, KernelConnects(o) PROVE Calls'
  BY <1>8, ServedKeepsCalls DEF KernelConnects, Finish, callVars, Operations
<1>9. ASSUME NEW o \in Objects, NEW op \in Operations, KernelRefuses(o, op) PROVE Calls'
  BY <1>9, ServedKeepsCalls DEF KernelRefuses, Finish, callVars
<1>10. ASSUME NEW o \in Objects, NEW op \in Operations, KernelTransfers(o, op) PROVE Calls'
  BY <1>10, ServedKeepsCalls DEF KernelTransfers, Finish, callVars
<1>11. ASSUME NEW o \in Objects, KernelCloses(o) PROVE Calls'
  BY <1>11, ServedKeepsCalls DEF KernelCloses, Finish, callVars, Operations
<1>12. ASSUME NEW o \in Objects,
              \/ \E new \in Objects, stale \in Stale : AcceptReturns(o, new, stale)
              \/ AcceptResubmits(o)
       PROVE  Calls'
  <2>1. /\ making = NULL /\ making' = making /\ hearing' = hearing /\ closing' \subseteq closing
        /\ request' = [request EXCEPT ![o]["ACCEPT"] = Submitted(o)]
    BY <1>12 DEF AcceptReturns, AcceptResubmits, Handled, callVars
  <2> QED BY <2>1, KeepsCallsOfRequest, SocketsAssumption DEF Operations
<1>13. ASSUME NEW o \in Objects, RecvCalls(o) PROVE Calls'
  <2>1. /\ making = NULL /\ making' = making /\ hearing = NULL /\ hearing' = o
        /\ closing' = closing /\ request' = request
        /\ request[o].RECV # NULL /\ request[o].RECV.done
    BY <1>13 DEF RecvCalls, Handled, Done
  <2> QED BY <2>1, SocketsAssumption
          DEF Calls, HearingReceives, ClosedInCallback, MakingIsNew, TypeOK
<1>14. ASSUME NEW o \in Objects, RecvResubmits(o) PROVE Calls'
  <2>1. /\ making = NULL /\ making' = making /\ hearing = NULL /\ hearing' = hearing
        /\ closing' = closing /\ request[o].RECV # NULL
        /\ request' = [request EXCEPT ![o]["RECV"] = Submitted(o)]
    BY <1>14 DEF RecvResubmits, Handled, Done, callVars
  <2> QED BY <2>1, KeepsCallsOfRequest, SocketsAssumption DEF Operations
<1>15. ASSUME NEW o \in Objects, RecvReturns(o) PROVE Calls'
  <2>1. /\ making = NULL /\ making' = making /\ hearing = o /\ hearing' = NULL /\ closing' = closing
    BY <1>15 DEF RecvReturns, Idle
  <2>2. PICK r : /\ request' = [request EXCEPT ![o]["RECV"] = r]
                 /\ r = NULL \/ o \notin closing
    BY <1>15 DEF RecvReturns, CloseDiscipline
  <2>3. /\ request'[o].RECV = r
        /\ \A p \in Objects : p # o => request'[p] = request[p]
    BY <2>2 DEF TypeOK, Operations
  <2> QED BY <2>1, <2>2, <2>3, SocketsAssumption
          DEF Calls, HearingReceives, ClosedInCallback, MakingIsNew
<1>16. ASSUME NEW o \in Objects, NEW op \in Operations, OnceReturns(o, op) PROVE Calls'
  <2>1. /\ making = NULL /\ making' = making /\ hearing' = hearing /\ closing' = closing
        /\ request' = [request EXCEPT ![o][op] = NULL] /\ op # "RECV"
    BY <1>16 DEF OnceReturns, Handled, callVars
  <2> QED BY <2>1, KeepsCallsOfRequest, SocketsAssumption
<1>17. ASSUME NEW o \in Objects, Drop(o) PROVE Calls'
  <2>1. /\ making = NULL /\ UNCHANGED <<making, hearing, request>> /\ closing' \subseteq closing
    BY <1>17 DEF Drop, Idle, callVars
  <2> QED BY <2>1, KeepsCalls
<1>18. ASSUME NEW port \in Ports, KernelForgets(port) PROVE Calls'
  BY <1>18, KeepsCalls DEF KernelForgets, callVars
<1>19. CASE Restart
  BY <1>19, RestartStep
<1> QED BY <1>2, <1>3, <1>4, <1>5, <1>6, <1>7, <1>8, <1>9, <1>10, <1>11, <1>12, <1>13, <1>14,
           <1>15, <1>16, <1>17, <1>18, <1>19 DEF Next

-----------------------------------------------------------------------------
(* The theorems.                                                           *)

\* Whatever step is taken, the tables stay as they should be.
LEMMA TablesStep ==
    ASSUME IInv, CloseDiscipline, Next
    PROVE  Tables'
<1>1. ASSUME NEW o \in Objects, NEW wanted \in Wanted, NEW port \in Ports,
             create_socket(o, wanted[1], wanted[2], port)
      PROVE  Tables'
  <2>1. wanted[1] \in SocketTypes /\ wanted[2] \in SocketKinds
    BY SocketsAssumption
  <2>2. CASE Dies("type") \/ Dies("fd")
    BY <2>2, DiesStep
  <2>3. CASE aborted' = aborted
    BY <1>1, <2>1, <2>3, CreateStep
  <2> QED BY <1>1, <2>2, <2>3 DEF create_socket
<1>2. ASSUME NEW o \in Objects, set_reuse_address(o) PROVE Tables'
  BY <1>2, ReuseStep
<1>3. ASSUME NEW o \in Objects, bind(o) PROVE Tables'
  BY <1>3, BindStep
<1>4. ASSUME NEW o \in Objects, set_multicast_ttl(o) PROVE Tables'
  BY <1>4, TtlStep
<1>5. ASSUME NEW o \in Objects, listen(o) PROVE Tables'
  BY <1>5, ListenStep
<1>6. ASSUME NEW o \in Objects, NEW g \in Groups, join_multicast_group(o, g) PROVE Tables'
  BY <1>6, JoinStep
<1>7. ASSUME NEW o \in Objects, leave_multicast_group(o) PROVE Tables'
  BY <1>7, LeaveStep
<1>8. ASSUME NEW o \in Objects, mcast_bind(o) PROVE Tables'
  BY <1>8, McastBindStep
<1>9. ASSUME NEW o \in Objects, NEW op \in Operations, submit(o, op) PROVE Tables'
  BY <1>9, SubmitStep
<1>10. ASSUME NEW o \in Objects, NEW host \in Hosts, NEW port \in Ports,
              submit_connect(o, host, port)
       PROVE  Tables'
  BY <1>10, ConnectStep
<1>11. ASSUME NEW o \in Objects, KernelAccepts(o) PROVE Tables'
  BY <1>11, KernelAcceptsStep
<1>12. ASSUME NEW o \in Objects, KernelConnects(o) PROVE Tables'
  BY <1>12, KernelConnectsStep
<1>13. ASSUME NEW o \in Objects, NEW op \in Operations, KernelRefuses(o, op) PROVE Tables'
  BY <1>13, RefusesStep
<1>14. ASSUME NEW o \in Objects, NEW op \in Operations, KernelTransfers(o, op) PROVE Tables'
  BY <1>14, TransferStep
<1>15. ASSUME NEW o \in Objects, KernelCloses(o) PROVE Tables'
  BY <1>15, KernelClosesStep
<1>16. ASSUME NEW o \in Objects, NEW new \in Objects, NEW stale \in Stale,
              AcceptReturns(o, new, stale)
       PROVE  Tables'
  BY <1>16, AcceptReturnsStep
<1>17. ASSUME NEW o \in Objects, AcceptResubmits(o) PROVE Tables'
  BY <1>17, AcceptResubmitsStep
<1>18. ASSUME NEW o \in Objects, RecvCalls(o) PROVE Tables'
  BY <1>18, RecvCallsStep
<1>19. ASSUME NEW o \in Objects, RecvResubmits(o) PROVE Tables'
  BY <1>19, RecvResubmitsStep
<1>20. ASSUME NEW o \in Objects, RecvReturns(o) PROVE Tables'
  BY <1>20, RecvStep
<1>21. ASSUME NEW o \in Objects, NEW op \in Operations, OnceReturns(o, op) PROVE Tables'
  BY <1>21, OnceStep
<1>22. ASSUME NEW o \in Objects, Drop(o) PROVE Tables'
  BY <1>22, DropStep
<1>23. ASSUME NEW port \in Ports, KernelForgets(port) PROVE Tables'
  BY <1>23, UnchangedStep
  DEF KernelForgets, callVars, historyVars, IInv, Tables, TypeOK, LeaveSucceeds
<1>24. CASE Restart
  BY <1>24, RestartStep DEF IInv
<1> QED BY <1>1, <1>2, <1>3, <1>4, <1>5, <1>6, <1>7, <1>8, <1>9, <1>10, <1>11, <1>12, <1>13,
           <1>14, <1>15, <1>16, <1>17, <1>18, <1>19, <1>20, <1>21, <1>22, <1>23, <1>24 DEF Next

\* The invariant of the sockets, when the program closes none while a receive is
\* on its way outside a callback, and no callback asks for more after the close.
THEOREM SocketsInvariant ==
    ASSUME CloseDiscipline
    PROVE  Spec => []IInv
<1>1. Init => IInv
  BY InitInv
<1>2. IInv /\ [Next]_vars => IInv'
  <2> SUFFICES ASSUME IInv, [Next]_vars PROVE IInv'
    OBVIOUS
  <2>1. CASE Next
    BY <2>1, TablesStep, CallsStep DEF IInv
  <2>2. CASE UNCHANGED vars
    <3>1. Tables'
      BY <2>2, UnchangedStep
      DEF vars, kernelVars, callVars, historyVars, IInv, Tables, TypeOK, LeaveSucceeds
    <3>2. Calls'
      BY <2>2, KeepsCalls DEF vars, callVars, IInv
    <3> QED BY <3>1, <3>2 DEF IInv
  <2> QED BY <2>1, <2>2
<1> QED BY <1>1, <1>2, PTL DEF Spec

\* However descriptor numbers are used again, a request is about the file its
\* socket was made for: a receive that IOUring.cpp:722 submits again, with or
\* without an answer of its callback, finds the socket not closed.
THEOREM RequestsStayOnTheirFiles == ASSUME CloseDiscipline PROVE Spec => []RequestsOnOwnFile
<1>1. IInv => RequestsOnOwnFile
  BY DEF IInv, Tables
<1> QED BY <1>1, SocketsInvariant, PTL

\* A socket that was not closed finds its own file, and each open descriptor has
\* one owner, or none since an object or a result was let go of unclosed.
THEOREM DescriptorsHaveOneOwner == ASSUME CloseDiscipline PROVE Spec => []DescriptorsOwned
<1>1. IInv => DescriptorsOwned
  <2> SUFFICES ASSUME IInv, Running PROVE DescriptorsOwned
    BY DEF DescriptorsOwned
  <2> USE DEF IInv, Tables
  <2>1. \A n \in Fds : \A o \in Objects : o \in Arriving(n) <=> Arrives(o) /\ request[o].ACCEPT.fd = n
    BY SocketsAssumption DEF Arriving, Arrives, Done
  <2>2. ASSUME NEW n \in Fds, fd_table[n] # NULL, NEW o \in Objects, Holds(o), socket[o].m_fd = n
        PROVE  n \notin leaked /\ Arriving(n) = {} /\ Holders(n) = {o}
    <3>1. socket[o] # NULL /\ own[o] = fd_table[n]
      BY <2>2 DEF HoldersNameOwn, Holds
    <3>2. Arriving(n) = {}
      BY <2>1, <3>1 DEF ArrivalsNew, Arriving
    <3>3. Holders(n) = {o}
      BY <2>2, <3>1 DEF OwnFiles, Holders
    <3>4. n \notin leaked
      BY <3>1 DEF LeakedIsNobodys
    <3> QED BY <3>2, <3>3, <3>4
  <2>3. ASSUME NEW n \in Fds, fd_table[n] # NULL,
               NEW o \in Objects, Arrives(o), request[o].ACCEPT.fd = n
        PROVE  n \notin leaked /\ Holders(n) = {} /\ Arriving(n) = {o}
    <3>1. Holders(n) = {}
      BY <2>3 DEF ArrivalsNew, Holders
    <3>2. Arriving(n) = {o}
      BY <2>1, <2>3 DEF ArrivalsNew, Arriving
    <3>3. n \notin leaked
      BY <2>3 DEF LeakedIsNobodys
    <3> QED BY <3>1, <3>2, <3>3
  <2>4. ASSUME NEW n \in leaked
        PROVE  Holders(n) = {} /\ Arriving(n) = {}
    <3>1. n \in Fds
      BY DEF TypeOK
    <3>2. Holders(n) = {}
      BY DEF LeakedIsNobodys, Holders
    <3>3. Arriving(n) = {}
      BY <2>1, <3>1 DEF LeakedIsNobodys, Arriving
    <3> QED BY <3>2, <3>3
  <2>5. ASSUME NEW o \in Objects, socket[o] # NULL, o \notin closing
        PROVE  Resolve(o) = own[o]
    BY <2>5 DEF HoldersNameOwn, Holds, Closed, Resolve
  <2>6. ASSUME NEW n \in Fds, fd_table[n] # NULL
        PROVE  \/ n \notin leaked /\ Arriving(n) = {} /\ \E o \in Objects : Holders(n) = {o}
               \/ n \notin leaked /\ Holders(n) = {} /\ \E o \in Objects : Arriving(n) = {o}
               \/ n \in leaked /\ Holders(n) = {} /\ Arriving(n) = {}
    BY <2>2, <2>3, <2>4, <2>6 DEF EachNamed
  <2> QED BY <2>5, <2>6 DEF DescriptorsOwned
<1> QED BY <1>1, SocketsInvariant, PTL

\* A connection is served as a stream, whatever its address says.
THEOREM ConnectionsServedAsStreams == ASSUME CloseDiscipline PROVE Spec => []ConnectionsAreStreams
<1>1. IInv => ConnectionsAreStreams
  BY DEF IInv, Tables
<1> QED BY <1>1, SocketsInvariant, PTL

\* A connect reaches the host and the port that were asked for.
THEOREM ConnectsReachTheirTarget == ASSUME CloseDiscipline PROVE Spec => []ConnectsWhereAsked
<1>1. IInv => ConnectsWhereAsked
  BY DEF IInv, Tables
<1> QED BY <1>1, SocketsInvariant, PTL

\* Leaving a group never ends the process.
THEOREM LeavesSucceed == ASSUME CloseDiscipline PROVE Spec => []LeaveSucceeds
<1>1. IInv => LeaveSucceeds
  BY DEF IInv, Tables
<1> QED BY <1>1, SocketsInvariant, PTL

\* The tables keep their types.
THEOREM SocketTypesKept == ASSUME CloseDiscipline PROVE Spec => []TypeOK
<1>1. IInv => TypeOK
  BY DEF IInv, Tables
<1> QED BY <1>1, SocketsInvariant, PTL

-----------------------------------------------------------------------------
(* Which ports are refused.                                                *)

\* A file that has a port shares it: the option was set before bind, and a
\* connection inherits it from the file that listened.
PortsShared == \A f \in Files : file[f].port # NULL => file[f].reuse

\* What is done to an object once it was made, or for it.
ObjectStep(o) ==
    \/ \E g \in Groups : join_multicast_group(o, g)
    \/ leave_multicast_group(o)
    \/ mcast_bind(o)
    \/ \E op \in Operations : submit(o, op)
    \/ \E host \in Hosts, port \in Ports : submit_connect(o, host, port)
    \/ KernelAccepts(o)
    \/ KernelConnects(o)
    \/ \E op \in Operations : KernelRefuses(o, op)
    \/ \E op \in Operations : KernelTransfers(o, op)
    \/ KernelCloses(o)
    \/ \E new \in Objects, stale \in Stale : AcceptReturns(o, new, stale)
    \/ AcceptResubmits(o)
    \/ RecvCalls(o)
    \/ RecvResubmits(o)
    \/ RecvReturns(o)
    \/ \E op \in Operations : OnceReturns(o, op)
    \/ Drop(o)

\* None of these steps refuses a port.
LEMMA ObjectStepRefusesNone ==
    ASSUME NEW o \in Objects, ObjectStep(o)
    PROVE  aborted' # "bind"
<1>1. CASE \E g \in Groups : join_multicast_group(o, g)
  BY <1>1 DEF join_multicast_group, Idle, Running
<1>2. CASE leave_multicast_group(o) \/ mcast_bind(o)
  BY <1>2 DEF leave_multicast_group, mcast_bind, Idle, Running
<1>3. CASE \E op \in Operations : submit(o, op) \/ OnceReturns(o, op)
  BY <1>3 DEF submit, OnceReturns, Handled, Done, Idle, Running
<1>4. CASE \E host \in Hosts, port \in Ports : submit_connect(o, host, port)
  BY <1>4 DEF submit_connect, Idle, Running
<1>5. CASE KernelAccepts(o)
  BY <1>5 DEF KernelAccepts, Pending, Running
<1>6. CASE KernelConnects(o) \/ KernelCloses(o)
  BY <1>6 DEF KernelConnects, KernelCloses, Pending, Running
<1>7. CASE \E op \in Operations : KernelTransfers(o, op) \/ KernelRefuses(o, op)
  BY <1>7 DEF KernelTransfers, KernelRefuses, Pending, Running
<1>8. CASE \E new \in Objects, stale \in Stale : AcceptReturns(o, new, stale)
  BY <1>8 DEF AcceptReturns, Handled, Done, Running
<1>9. CASE AcceptResubmits(o) \/ RecvCalls(o) \/ RecvResubmits(o)
  BY <1>9 DEF AcceptResubmits, RecvCalls, RecvResubmits, Handled, Done, Running
<1>10. CASE RecvReturns(o) \/ Drop(o)
  BY <1>10 DEF RecvReturns, Drop, Idle, Running
<1> QED BY <1>1, <1>2, <1>3, <1>4, <1>5, <1>6, <1>7, <1>8, <1>9, <1>10 DEF ObjectStep

\* Whatever step is taken, the option stays where there is a port.
LEMMA PortsSharedStep ==
    ASSUME IInv, PortsShared, Next
    PROVE  PortsShared'
<1> USE DEF PortsShared, IInv, Tables, TypeOK
<1>1. CASE file' = file
  BY <1>1
<1>2. ASSUME NEW f \in Files, NEW new \in FileStates, file' = [file EXCEPT ![f] = new],
             new.port # NULL => new.reuse
      PROVE  PortsShared'
  BY <1>2
<1>3. NewFile \in FileStates /\ NewFile.port = NULL
  BY DEF NewFile, FileStates
<1>4. ASSUME NEW o \in Objects, NEW wanted \in Wanted, NEW port \in Ports,
             create_socket(o, wanted[1], wanted[2], port), file' # file
      PROVE  PortsShared'
  <2> DEFINE made == [NewFile EXCEPT !.is = IF wanted[1] = "IPV4_UDP" THEN "datagram" ELSE "stream"]
  <2>1. made \in FileStates /\ made.port = NULL
    BY DEF NewFile, FileStates
  <2>2. \E f \in Files : file' = [file EXCEPT ![f] = made]
    BY <1>4 DEF create_socket, Dies, kernelVars
  <2> HIDE DEF made
  <2> QED BY <1>2, <2>1, <2>2
<1>5. ASSUME NEW o \in Objects, set_reuse_address(o) PROVE PortsShared'
  <2>1. own[o] \in Files /\ Resolve(o) = own[o] /\ file[own[o]] \in FileStates
    BY <1>5, MakingIsHeld DEF set_reuse_address
  <2> DEFINE new == [file[own[o]] EXCEPT !.reuse = TRUE]
  <2>2. new \in FileStates /\ new.reuse
    BY <2>1 DEF FileStates
  <2>3. file' = [file EXCEPT ![own[o]] = new]
    BY <1>5, <2>1 DEF set_reuse_address
  <2> HIDE DEF new
  <2> QED BY <1>2, <2>1, <2>2, <2>3
<1>6. ASSUME NEW o \in Objects, bind(o), file' # file PROVE PortsShared'
  <2>1. /\ own[o] \in Files /\ Resolve(o) = own[o] /\ file[own[o]] \in FileStates
        /\ socket[o].m_port \in Ports
    BY <1>6, MakingIsHeld DEF bind
  <2> DEFINE new == [file[own[o]] EXCEPT !.port = socket[o].m_port]
  <2>2. file[own[o]].reuse
    BY <1>6, <2>1 DEF bind, after_reuse
  <2>3. new \in FileStates /\ new.reuse
    BY <2>1, <2>2 DEF FileStates
  <2>4. file' = [file EXCEPT ![own[o]] = new]
    BY <1>6, <2>1 DEF bind, Dies, kernelVars
  <2> HIDE DEF new
  <2> QED BY <1>2, <2>1, <2>3, <2>4
<1>7. ASSUME NEW o \in Objects, listen(o), file' # file PROVE PortsShared'
  <2>1. own[o] \in Files /\ Resolve(o) = own[o] /\ file[own[o]] \in FileStates
    BY <1>7, MakingIsHeld DEF listen
  <2> DEFINE new == [file[own[o]] EXCEPT !.is = "listening"]
  <2>2. new \in FileStates /\ (new.port # NULL => new.reuse)
    BY <2>1 DEF FileStates
  <2>3. file' = [file EXCEPT ![own[o]] = new]
    BY <1>7, <2>1 DEF listen, Dies, kernelVars
  <2> HIDE DEF new
  <2> QED BY <1>2, <2>1, <2>2, <2>3
<1>8. ASSUME NEW f, NEW G, file' = [file EXCEPT ![f].groups = G]
      PROVE  PortsShared'
  BY <1>8 DEF FileStates
<1>9. ASSUME NEW o \in Objects, NEW g \in Groups, join_multicast_group(o, g), file' # file
      PROVE  PortsShared'
  <2>1. file' = [file EXCEPT ![Resolve(o)].groups = file[Resolve(o)].groups \cup {g}]
    BY <1>9 DEF join_multicast_group
  <2> QED BY <1>8, <2>1
<1>10. ASSUME NEW o \in Objects, leave_multicast_group(o), file' # file PROVE PortsShared'
  <2>1. file' = [file EXCEPT ![Resolve(o)].groups = file[Resolve(o)].groups \ {socket[o].m_mreq}]
    BY <1>10 DEF leave_multicast_group
  <2> QED BY <1>8, <2>1
<1>11. ASSUME NEW o \in Objects, mcast_bind(o) PROVE PortsShared'
  BY <1>11 DEF mcast_bind, FileStates
<1>12. ASSUME NEW o \in Objects, KernelAccepts(o) PROVE PortsShared'
  <2>1. request[o].ACCEPT \in RequestStates /\ request[o].ACCEPT.file # NULL
    BY <1>12, ServedIsRequest DEF KernelAccepts, Pending, Operations
  <2>2. request[o].ACCEPT.file \in Files
    BY <2>1 DEF RequestStates
  <2> DEFINE a == request[o].ACCEPT.file
             new == [NewFile EXCEPT !.is = "connected", !.port = file[a].port, !.reuse = file[a].reuse]
  <2>3. file[a] \in FileStates
    BY <2>2
  <2>4. new \in FileStates /\ (new.port # NULL => new.reuse)
    <3>1. file[a].port \in Ports \cup {NULL} /\ file[a].reuse \in BOOLEAN
      BY <2>3 DEF FileStates
    <3>2. file[a].port # NULL => file[a].reuse
      BY <2>2
    <3> QED BY <3>1, <3>2 DEF NewFile, FileStates
  <2>5. \E f \in Files : file' = [file EXCEPT ![f] = new]
    BY <1>12 DEF KernelAccepts
  <2> HIDE DEF new
  <2> QED BY <1>2, <2>4, <2>5
<1>13. ASSUME NEW o \in Objects, KernelConnects(o) PROVE PortsShared'
  BY <1>13 DEF KernelConnects, FileStates
<1>14. ASSUME NEW o \in Objects, Drop(o) PROVE PortsShared'
  BY <1>14, <1>3 DEF Drop
<1>15. CASE Restart
  BY <1>15, <1>3 DEF Restart
<1>16. ASSUME NEW o \in Objects, set_multicast_ttl(o) PROVE file' = file
  BY <1>16 DEF set_multicast_ttl, Dies, kernelVars
<1>17. ASSUME NEW o \in Objects, NEW op \in Operations,
              submit(o, op) \/ KernelRefuses(o, op) \/ KernelTransfers(o, op) \/ OnceReturns(o, op)
       PROVE  file' = file
  BY <1>17 DEF submit, KernelRefuses, KernelTransfers, OnceReturns, kernelVars
<1>18. ASSUME NEW o \in Objects,
              \/ \E host \in Hosts, port \in Ports : submit_connect(o, host, port)
              \/ \E new \in Objects, stale \in Stale : AcceptReturns(o, new, stale)
              \/ KernelCloses(o) \/ AcceptResubmits(o)
              \/ RecvCalls(o) \/ RecvResubmits(o) \/ RecvReturns(o)
       PROVE  file' = file
  BY <1>18 DEF submit_connect, AcceptReturns, KernelCloses, AcceptResubmits, RecvCalls,
               RecvResubmits, RecvReturns, kernelVars
<1>19. ASSUME NEW port \in Ports, KernelForgets(port) PROVE file' = file
  BY <1>19 DEF KernelForgets
<1> HIDE DEF PortsShared, IInv, Tables, TypeOK
<1> QED BY <1>1, <1>4, <1>5, <1>6, <1>7, <1>9, <1>10, <1>11, <1>12, <1>13, <1>14, <1>15, <1>16,
           <1>17, <1>18, <1>19 DEF Next

\* A bind that is refused its port finds a stream that listens on it.
LEMMA RefusedByListener ==
    ASSUME IInv, PortsShared, NEW o \in Objects, bind(o), "bind" \in BindErrors(o)
    PROVE  /\ making = o /\ is_stream(o)
           /\ \E f \in Files : /\ f # Resolve(o) /\ Open(f)
                               /\ file[f].is = "listening" /\ file[f].port = socket[o].m_port
<1>1. /\ making = o /\ own[o] \in Files /\ Resolve(o) = own[o] /\ Holds(o)
      /\ file[own[o]] \in FileStates /\ socket[o].m_port \in Ports /\ socket[o].m_port # NULL
  BY MakingIsHeld, SocketsAssumption DEF bind
<1>2. file[own[o]].reuse
  BY <1>1 DEF bind, after_reuse
<1>3. Conflict(own[o], socket[o].m_port)
  BY <1>1 DEF BindErrors
<1>4. PICK g \in OnPort(own[o], socket[o].m_port) : file[g].is = "listening" \/ ~file[g].reuse
  BY <1>2, <1>3 DEF Conflict
<1>5. /\ g \in Files /\ g # own[o] /\ Open(g) /\ file[g].port = socket[o].m_port
      /\ Datagram(g) <=> Datagram(own[o])
  BY <1>4 DEF OnPort
<1>6. file[g].is = "listening"
  BY <1>1, <1>4, <1>5 DEF PortsShared
<1>7. file[own[o]].is # "datagram"
  BY <1>5, <1>6 DEF Datagram
<1>8. is_stream(o)
  <2>1. file[own[o]].is \in {"stream", "listening", "connected"}
    BY <1>1, <1>7 DEF FileStates
  <2>2. own[o] # NULL
    BY <1>1, SocketsAssumption
  <2> QED BY <1>1, <2>1, <2>2 DEF IInv, Tables, HeldStreams, ConnectionsAreStreams
<1> QED BY <1>1, <1>5, <1>6, <1>8

\* Within the process a port is refused only by a file that listens on it: the
\* option is set before every bind, whatever lingers on the port and however
\* often the server was started again.
THEOREM PortsRefusedByListeners == ASSUME CloseDiscipline PROVE Spec => []RefusedByListenerOnly
<1> DEFINE Ported == PortsShared /\ RefusedByListenerOnly
<1>1. Init => Ported
  BY DEF Init, NewFile, PortsShared, RefusedByListenerOnly
<1>2. IInv /\ Ported /\ [Next]_vars => Ported'
  <2> SUFFICES ASSUME IInv, Ported, [Next]_vars PROVE Ported'
    OBVIOUS
  <2>1. PortsShared'
    <3>1. CASE Next
      BY <3>1, PortsSharedStep
    <3>2. CASE UNCHANGED vars
      BY <3>2 DEF vars, kernelVars, PortsShared
    <3> QED BY <3>1, <3>2
  <2>2. SUFFICES ASSUME aborted' = "bind" PROVE RefusedByListenerOnly'
    BY <2>1 DEF RefusedByListenerOnly
  <2>3. ASSUME \E o \in Objects :
                  /\ making = o /\ is_stream(o)
                  /\ \E f \in Files : /\ f # Resolve(o) /\ Open(f)
                                      /\ file[f].is = "listening" /\ file[f].port = socket[o].m_port,
               UNCHANGED <<socket, making, fd_table, file, request>>
        PROVE  RefusedByListenerOnly'
    <3>1. PICK o \in Objects, f \in Files :
             /\ making = o /\ is_stream(o)
             /\ f # Resolve(o) /\ Open(f)
             /\ file[f].is = "listening" /\ file[f].port = socket[o].m_port
      BY <2>3
    <3>2. is_stream(o)' /\ f # Resolve(o)' /\ Open(f)'
      BY <2>3, <3>1 DEF is_stream, Resolve, Open, Requests
    <3> QED BY <2>3, <3>1, <3>2 DEF RefusedByListenerOnly
  <2>4. ASSUME aborted = "bind", UNCHANGED <<socket, making, fd_table, file, request>>
        PROVE  RefusedByListenerOnly'
    BY <2>3, <2>4 DEF RefusedByListenerOnly
  <2>5. ASSUME NEW o \in Objects, bind(o) PROVE RefusedByListenerOnly'
    <3>1. aborted = "no"
      BY <2>5 DEF bind, Running
    <3>2. Dies("bind") /\ "bind" \in BindErrors(o)
      BY <2>2, <2>5, <3>1 DEF bind, Dies
    <3>3. UNCHANGED <<socket, making, fd_table, file, request>>
      BY <3>2 DEF Dies, kernelVars, callVars
    <3> QED BY <2>3, <2>5, <3>2, <3>3, RefusedByListener
  <2>6. ASSUME NEW o \in Objects, NEW wanted \in Wanted, NEW port \in Ports,
               create_socket(o, wanted[1], wanted[2], port)
        PROVE  FALSE
    BY <2>2, <2>6 DEF create_socket, Dies, Idle, Running
  <2>7. ASSUME NEW o \in Objects, set_reuse_address(o) \/ set_multicast_ttl(o) \/ listen(o)
        PROVE  FALSE
    BY <2>2, <2>7 DEF set_reuse_address, set_multicast_ttl, listen, Dies, Running
  <2>8. ASSUME NEW o \in Objects, ObjectStep(o) PROVE FALSE
    BY <2>2, <2>8, ObjectStepRefusesNone
  <2>9. ASSUME NEW port \in Ports, KernelForgets(port) PROVE RefusedByListenerOnly'
    BY <2>2, <2>4, <2>9 DEF KernelForgets, callVars
  <2>10. CASE Restart
    BY <2>2, <2>10 DEF Restart
  <2>11. CASE UNCHANGED vars
    BY <2>2, <2>4, <2>11 DEF vars, kernelVars, callVars
  <2>12. \/ \E o \in Objects, wanted \in Wanted, port \in Ports :
              create_socket(o, wanted[1], wanted[2], port)
         \/ \E o \in Objects : bind(o)
         \/ \E o \in Objects : set_reuse_address(o) \/ set_multicast_ttl(o) \/ listen(o)
         \/ \E o \in Objects : ObjectStep(o)
         \/ \E port \in Ports : KernelForgets(port)
         \/ Restart
         \/ UNCHANGED vars
    BY DEF Next, ObjectStep
  <2> QED BY <2>5, <2>6, <2>7, <2>8, <2>9, <2>10, <2>11, <2>12
<1>3. Ported => RefusedByListenerOnly
  OBVIOUS
<1> HIDE DEF Ported
<1> QED BY <1>1, <1>2, <1>3, SocketsInvariant, PTL DEF Spec
=============================================================================
