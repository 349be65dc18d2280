---------------------------- MODULE DnsResolver ----------------------------
(***************************************************************************)
(* src/IOUring.cpp: resolve_hostname, which attaches the handlers given    *)
(* for a host name to one asynchronous lookup, and the thread glibc starts *)
(* when a lookup ends, which runs trigger_hostname_resolve_callbacks over  *)
(* the same vector.  Nothing locks it.                                     *)
(*                                                                         *)
(* A step of the notification thread is one element of a loop; between two *)
(* steps other notification threads run, and resolve_hostname, called by   *)
(* the application's thread or by the handler that was just called.  The   *)
(* caller's string is taken to live as long as its lookup.                 *)
(***************************************************************************)
EXTENDS Integers, Sequences, FiniteSets

CONSTANTS
    Hosts,      \* the names the application asks for
    Literals,   \* those IPAddress::parse understands
    Gaicbs,     \* addresses operator new may return for a gaicb
    NULL,
    MaxCalls    \* bound: calls of resolve_hostname

ASSUME ResolverAssumption ==
    /\ Literals \subseteq Hosts
    /\ NULL \notin Hosts \cup Gaicbs
    /\ "failed" \notin Hosts
    /\ MaxCalls \in Nat

VARIABLES
    m_hostname_DNS_requests, \* the vector of RequestInfo
    allocated,      \* gaicbs that exist
    ar_result,      \* ar_result[p]: NULL, or the host whose addresses it lists
    lookup,         \* lookup[n]: what glibc does about the name n
    thread,         \* thread[n]: the notification thread of n's lookup
    aborted,        \* "crash" once freed memory was used with that effect
    asked,          \* asked[f]: the name of call f, which came with handler f
    heard           \* heard[f]: the results handler f was called with

vars == <<m_hostname_DNS_requests, allocated, ar_result, lookup, thread, aborted, asked, heard>>

Handlers == 1 .. MaxCalls

requests == m_hostname_DNS_requests
Results == Hosts \cup {"failed"}
RequestInfo == [hostname : Hosts, request : Gaicbs \cup {NULL}, handlers : Seq(Handlers)]

\* A vector of n elements that grew by push_back: the elements move when this
\* changes.
Capacity(n) == IF n = 0 THEN 0 ELSE CHOOSE c \in {2 ^ e : e \in 0 .. n} : n <= c /\ c < 2 * n

Idle == [at |-> "none", ptr |-> NULL, entry |-> 1, end |-> 0, next |-> 1, stop |-> 0, result |-> "failed"]

Init ==
    /\ m_hostname_DNS_requests = << >>
    /\ allocated = {}
    /\ ar_result = [p \in Gaicbs |-> NULL]
    /\ lookup = [n \in Hosts |-> "none"]
    /\ thread = [n \in Hosts |-> Idle]
    /\ aborted = "no"
    /\ asked = << >>
    /\ heard = [f \in Handlers |-> << >>]

Running == aborted = "no"

-----------------------------------------------------------------------------
(* resolve_hostname.                                                       *)

Ask(f, n) ==
    /\ Running
    /\ f = Len(asked) + 1
    /\ asked' = Append(asked, n)

resolve_literal(f, n) ==
    /\ n \in Literals
    /\ Ask(f, n)
    /\ heard' = [heard EXCEPT ![f] = Append(@, n)]
    /\ UNCHANGED <<m_hostname_DNS_requests, allocated, ar_result, lookup, thread, aborted>>

resolve_duplicate(f, n) ==
    /\ n \notin Literals
    /\ Ask(f, n)
    /\ \E i \in DOMAIN requests :
          /\ requests[i].hostname = n
          /\ m_hostname_DNS_requests' = [requests EXCEPT ![i].handlers = Append(@, f)]
    /\ UNCHANGED <<allocated, ar_result, lookup, thread, aborted, heard>>

\* The handler of the first call is not put in the new element.  What
\* getaddrinfo_a returns is not looked at: it may have refused the lookup.
resolve_first(f, n) ==
    /\ n \notin Literals
    /\ Ask(f, n)
    /\ \A i \in DOMAIN requests : requests[i].hostname # n
    /\ \E p \in Gaicbs \ allocated :
          /\ m_hostname_DNS_requests' =
                Append(requests, [hostname |-> n, request |-> p, handlers |-> << >>])
          /\ allocated' = allocated \cup {p}
          /\ ar_result' = [ar_result EXCEPT ![p] = NULL]
          /\ thread' = [thread EXCEPT ![n].ptr = p]
    /\ \E accepted \in {"working", "refused"} : lookup' = [lookup EXCEPT ![n] = accepted]
    /\ UNCHANGED <<aborted, heard>>

resolve_hostname(f, n) ==
    resolve_literal(f, n) \/ resolve_duplicate(f, n) \/ resolve_first(f, n)

-----------------------------------------------------------------------------
(* glibc, and the notification thread.                                     *)

\* A lookup ends and its thread begins the loop over the vector, whose end is
\* read once.
LookupEnds(n) ==
    /\ Running
    /\ lookup[n] = "working"
    /\ \/ /\ lookup' = [lookup EXCEPT ![n] = "resolved"]
          /\ ar_result' = [ar_result EXCEPT ![thread[n].ptr] = n]
       \/ /\ lookup' = [lookup EXCEPT ![n] = "failed"]
          /\ UNCHANGED ar_result
    /\ thread' = [thread EXCEPT ![n].at = "loop", ![n].end = Len(requests)]
    /\ UNCHANGED <<m_hostname_DNS_requests, allocated, aborted, asked, heard>>

\* Mutant: the end of the vector is read in each turn.
LoopingToEnd(n) == Running /\ thread[n].at = "loop" /\ thread[n].entry <= Len(requests)

Looping(n) == Running /\ thread[n].at = "loop" /\ thread[n].entry <= thread[n].end
It(n) == requests[thread[n].entry]

\* The vector has moved since the loop began: the thread reads the storage it left.
Moved(n) == Capacity(Len(requests)) # Capacity(thread[n].end)
HandlersMoved(n) == Capacity(Len(It(n).handlers)) # Capacity(thread[n].stop)

\* Mutant: any unfinished request is taken for the one that ended.
MatchesAny(n) == It(n).request # NULL

Matches(n) == It(n).request # NULL /\ It(n).request = thread[n].ptr

NextEntry(n) ==
    thread' = [thread EXCEPT ![n] = [Idle EXCEPT !.at = "loop", !.ptr = thread[n].ptr,
                                     !.entry = thread[n].entry + 1, !.end = thread[n].end]]

SkipEntry(n) ==
    /\ Looping(n)
    /\ ~Moved(n)
    /\ ~Matches(n)
    /\ NextEntry(n)
    /\ UNCHANGED <<m_hostname_DNS_requests, allocated, ar_result, lookup, aborted, asked, heard>>

\* An element that was moved from has no request; or its memory is gone.
ReadMovedEntry(n) ==
    /\ Looping(n)
    /\ Moved(n)
    /\ \/ NextEntry(n) /\ UNCHANGED aborted
       \/ aborted' = "crash" /\ UNCHANGED thread
    /\ UNCHANGED <<m_hostname_DNS_requests, allocated, ar_result, lookup, asked, heard>>

\* Mutant: the loop over the handlers begins one too early.
BeginBeforeFirst(n, result) ==
    thread' = [thread EXCEPT ![n].at = "handlers", ![n].next = 0,
                             ![n].stop = Len(It(n).handlers), ![n].result = result]

BeginHandlers(n, result) ==
    thread' = [thread EXCEPT ![n].at = "handlers", ![n].next = 1,
                             ![n].stop = Len(It(n).handlers), ![n].result = result]

\* Mutant: the handlers of a failed lookup are not called.
FailureContinues(n) ==
    /\ Looping(n)
    /\ ~Moved(n)
    /\ Matches(n)
    /\ ar_result[It(n).request] = NULL
    /\ NextEntry(n)
    /\ UNCHANGED <<m_hostname_DNS_requests, allocated, ar_result, lookup, aborted, asked, heard>>

AnswerFailed(n) ==
    /\ Looping(n)
    /\ ~Moved(n)
    /\ Matches(n)
    /\ ar_result[It(n).request] = NULL
    /\ BeginHandlers(n, "failed")
    /\ UNCHANGED <<m_hostname_DNS_requests, allocated, ar_result, lookup, aborted, asked, heard>>

\* Mutant: the pointer to the request stays after free.
AnswerKeepsPointer(n) ==
    /\ Looping(n)
    /\ ~Moved(n)
    /\ Matches(n)
    /\ ar_result[It(n).request] # NULL
    /\ BeginHandlers(n, ar_result[It(n).request])
    /\ allocated' = allocated \ {It(n).request}
    /\ ar_result' = [ar_result EXCEPT ![It(n).request] = NULL]
    /\ UNCHANGED <<m_hostname_DNS_requests, lookup, aborted, asked, heard>>

AnswerResolved(n) ==
    /\ Looping(n)
    /\ ~Moved(n)
    /\ Matches(n)
    /\ ar_result[It(n).request] # NULL
    /\ BeginHandlers(n, ar_result[It(n).request])
    /\ allocated' = allocated \ {It(n).request}
    /\ ar_result' = [ar_result EXCEPT ![It(n).request] = NULL]
    /\ m_hostname_DNS_requests' = [requests EXCEPT ![thread[n].entry].request = NULL]
    /\ UNCHANGED <<lookup, aborted, asked, heard>>

Calling(n) == Running /\ thread[n].at = "handlers"

\* A handler that moved is an empty function, or its memory is gone.
CallHandler(n) ==
    /\ Calling(n)
    /\ thread[n].next <= thread[n].stop
    /\ IF HandlersMoved(n)
       THEN aborted' = "crash" /\ UNCHANGED <<thread, heard>>
       ELSE /\ heard' = [heard EXCEPT ![It(n).handlers[thread[n].next]] =
                            Append(@, thread[n].result)]
            /\ thread' = [thread EXCEPT ![n].next = @ + 1]
            /\ UNCHANGED aborted
    /\ UNCHANGED <<m_hostname_DNS_requests, allocated, ar_result, lookup, asked>>

HandlersCalled(n) ==
    /\ Calling(n)
    /\ thread[n].next > thread[n].stop
    /\ NextEntry(n)
    /\ UNCHANGED <<m_hostname_DNS_requests, allocated, ar_result, lookup, aborted, asked, heard>>

ThreadEnds(n) ==
    /\ Running
    /\ thread[n].at = "loop"
    /\ thread[n].entry > thread[n].end
    /\ thread' = [thread EXCEPT ![n] = [Idle EXCEPT !.at = "ended"]]
    /\ UNCHANGED <<m_hostname_DNS_requests, allocated, ar_result, lookup, aborted, asked, heard>>

trigger_hostname_resolve_callbacks(n) ==
    \/ SkipEntry(n)
    \/ ReadMovedEntry(n)
    \/ AnswerFailed(n)
    \/ AnswerResolved(n)
    \/ CallHandler(n)
    \/ HandlersCalled(n)
    \/ ThreadEnds(n)

Next ==
    \E n \in Hosts :
       \/ \E f \in Handlers : resolve_hostname(f, n)
       \/ LookupEnds(n)
       \/ trigger_hostname_resolve_callbacks(n)

Spec == Init /\ [][Next]_vars

\* The resolver has timeouts, so a lookup ends; a thread that was started runs.
LiveSpec ==
    /\ Spec
    /\ \A n \in Hosts : WF_vars(LookupEnds(n)) /\ WF_vars(trigger_hostname_resolve_callbacks(n))

-----------------------------------------------------------------------------
(* Properties.                                                             *)

\* Types; a loop stays within what it began with.
TypeOK ==
    /\ requests \in Seq(RequestInfo)
    /\ allocated \subseteq Gaicbs
    /\ ar_result \in [Gaicbs -> Hosts \cup {NULL}]
    /\ lookup \in [Hosts -> {"none", "refused", "working", "resolved", "failed"}]
    /\ aborted \in {"no", "crash"}
    /\ asked \in Seq(Hosts) /\ Len(asked) <= MaxCalls
    /\ heard \in [Handlers -> Seq(Results)]
    /\ \A n \in Hosts :
          LET t == thread[n] IN
          /\ t.at \in {"none", "loop", "handlers", "ended"}
          /\ t.ptr \in Gaicbs \cup {NULL}
          /\ t.result \in Results
          /\ t.end \in 0 .. Len(requests) /\ t.entry \in 1 .. t.end + 1
          /\ t.stop \in Nat /\ t.next \in 1 .. t.stop + 1

\* No handler is called twice, although the address of a freed request may be
\* that of a new one while the thread of the first still walks the vector.
AnsweredOnce == \A f \in Handlers : Len(heard[f]) <= 1

\* A handler hears what the lookup of its own name brought, and not before that
\* lookup ended.
AnswersOwnHost ==
    \A f \in Handlers : \A i \in DOMAIN heard[f] : f \in DOMAIN asked /\
       LET n == asked[f] IN
       \/ heard[f][i] = n /\ (n \in Literals \/ lookup[n] = "resolved")
       \/ heard[f][i] = "failed" /\ n \notin Literals /\ lookup[n] = "failed"

\* Each request in the vector exists and is no other element's; the one glibc
\* works on is still there to be found.
RequestsUnshared ==
    /\ \A i, j \in DOMAIN requests :
          requests[i].request # NULL =>
             /\ requests[i].request \in allocated
             /\ requests[i].request = requests[j].request => i = j
    /\ \A n \in Hosts : lookup[n] = "working" =>
          \E i \in DOMAIN requests :
             requests[i].hostname = n /\ requests[i].request = thread[n].ptr

\* A handler that was added while the lookup was under way is called, unless the
\* process crashes or the vector moves while the thread of that lookup looks for
\* the request: in the storage it still reads no element has one.
Attached(f) ==
    \E i \in DOMAIN requests :
       /\ lookup[requests[i].hostname] = "working"
       /\ \E j \in DOMAIN requests[i].handlers : requests[i].handlers[j] = f
LosesRequest(n) == thread[n].at = "loop" /\ Moved(n)
AttachedAnswered ==
    \A f \in Handlers :
       Attached(f) ~> \/ heard[f] # << >>
                      \/ ~Running
                      \/ f \in DOMAIN asked /\ LosesRequest(asked[f])

\* IOUring.hpp:130 "requests for this hostname:": the element of a name holds the
\* handler of each call that asked for it, those to be called with the result.
RequestsForThisHostname ==
    \A i \in DOMAIN requests : \A f \in DOMAIN asked :
       asked[f] = requests[i].hostname =>
          \E j \in DOMAIN requests[i].handlers : requests[i].handlers[j] = f
=============================================================================
