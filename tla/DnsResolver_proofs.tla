------------------------- MODULE DnsResolver_proofs -------------------------
(***************************************************************************)
(* Proofs about DnsResolver, for any names, addresses of requests and      *)
(* number of calls, and whatever a vector that moved under its reader does *)
(* to it.                                                                  *)
(*                                                                         *)
(* A notification thread looks for the address of its request, and that    *)
(* address may be used again once the request was freed.  What saves it is *)
(* the end of the vector, read once: within it an element with the address *)
(* of the thread is the one of its own name, and the position of the       *)
(* thread tells which of the handlers in it were called.                   *)
(***************************************************************************)
EXTENDS DnsResolver, TLAPS

-----------------------------------------------------------------------------
(* The inductive invariant.                                                *)

ThreadStates ==
    [at : {"none", "loop", "handlers", "ended"}, ptr : Gaicbs \cup {NULL},
     entry : Nat \ {0}, end : Nat, next : Nat \ {0}, stop : Nat, result : Results]

Typed ==
    /\ requests \in Seq(RequestInfo)
    /\ allocated \subseteq Gaicbs
    /\ ar_result \in [Gaicbs -> Hosts \cup {NULL}]
    /\ lookup \in [Hosts -> {"none", "refused", "working", "resolved", "failed"}]
    /\ thread \in [Hosts -> ThreadStates]
    /\ aborted \in {"no", "crash"}
    /\ asked \in Seq(Hosts) /\ Len(asked) <= MaxCalls
    /\ heard \in [Handlers -> Seq(Results)]

\* A thread runs when its lookup ended, within the vector as it was then; it calls
\* the handlers of the element of its name, with the result of its lookup.
Bounded(n) ==
    /\ thread[n].end <= Len(requests)
    /\ thread[n].entry <= thread[n].end + 1
    /\ thread[n].next <= thread[n].stop + 1
Started(n) == thread[n].at # "none" => lookup[n] \in {"resolved", "failed"}
CallsOwn(n) ==
    thread[n].at = "handlers" =>
       /\ thread[n].entry <= thread[n].end
       /\ It(n).hostname = n
       /\ thread[n].stop <= Len(It(n).handlers)
       /\ thread[n].result = IF lookup[n] = "resolved" THEN n ELSE "failed"
FindsOwn(n) ==
    thread[n].at # "none" =>
       \A i \in 1 .. thread[n].end :
          requests[i].request = thread[n].ptr /\ requests[i].request # NULL =>
             requests[i].hostname = n

\* An element has a name that is looked up; its request exists and has the answer.
Element(i) ==
    /\ requests[i].hostname \notin Literals
    /\ lookup[requests[i].hostname] # "none"
    /\ requests[i].request # NULL =>
          /\ requests[i].request \in allocated
          /\ ar_result[requests[i].request] =
                IF lookup[requests[i].hostname] = "resolved" THEN requests[i].hostname ELSE NULL

\* A thread t has passed the handler at position j of element i.
Passed(t, i, j) ==
    \/ t.at = "ended"
    \/ t.at \in {"loop", "handlers"} /\ t.entry > i
    \/ t.at = "handlers" /\ t.entry = i /\ t.next > j

\* Handlers are added once, to the element of the name they asked for, and called
\* when the thread passes them.
Waiting(i) ==
    /\ \A j \in DOMAIN requests[i].handlers :
          /\ requests[i].handlers[j] \in DOMAIN asked
          /\ asked[requests[i].handlers[j]] = requests[i].hostname
          /\ heard[requests[i].handlers[j]] # << >> => Passed(thread[requests[i].hostname], i, j)
    /\ \A j, k \in DOMAIN requests[i].handlers :
          requests[i].handlers[j] = requests[i].handlers[k] => j = k

OneEach ==
    /\ \A i, j \in DOMAIN requests : requests[i].hostname = requests[j].hostname => i = j
    /\ \A i, j \in DOMAIN requests :
          requests[i].request # NULL /\ requests[i].request = requests[j].request => i = j

WorkedOn ==
    \A n \in Hosts : lookup[n] = "working" =>
       \E i \in DOMAIN requests :
          /\ requests[i].hostname = n /\ requests[i].request = thread[n].ptr
          /\ thread[n].ptr # NULL

\* A name whose lookup began has its element.
Requested ==
    \A n \in Hosts : lookup[n] # "none" => \E i \in DOMAIN requests : requests[i].hostname = n

Unasked == \A f \in Handlers : f \notin DOMAIN asked => heard[f] = << >>

IInv ==
    /\ Typed
    /\ \A n \in Hosts : Bounded(n) /\ Started(n) /\ CallsOwn(n) /\ FindsOwn(n)
    /\ \A i \in DOMAIN requests : Element(i) /\ Waiting(i)
    /\ OneEach
    /\ WorkedOn
    /\ Requested
    /\ Unasked
    /\ AnsweredOnce
    /\ AnswersOwnHost

-----------------------------------------------------------------------------
(* Sequences, elements and threads.                                        *)

\* An element is added behind the others.
LEMMA Appended ==
    ASSUME NEW S, NEW s \in Seq(S), NEW e \in S
    PROVE  LET t == Append(s, e) IN
           /\ t \in Seq(S) /\ Len(t) = Len(s) + 1 /\ Len(s) \in Nat
           /\ DOMAIN s = 1 .. Len(s) /\ DOMAIN t = 1 .. Len(s) + 1
           /\ \A i \in 1 .. Len(s) : t[i] = s[i]
           /\ t[Len(s) + 1] = e
  OBVIOUS

\* One element is replaced.
LEMMA Replaced ==
    ASSUME NEW S, NEW s \in Seq(S), NEW i \in DOMAIN s, NEW e \in S
    PROVE  LET t == [s EXCEPT ![i] = e] IN
           /\ t \in Seq(S) /\ Len(t) = Len(s) /\ Len(s) \in Nat
           /\ DOMAIN s = 1 .. Len(s) /\ DOMAIN t = 1 .. Len(s)
           /\ t[i] = e
           /\ \A k \in DOMAIN s : k # i => t[k] = s[k]
  OBVIOUS

\* The fields of an element.
LEMMA ElementType ==
    ASSUME Typed, NEW i \in DOMAIN requests
    PROVE  /\ requests[i] \in RequestInfo
           /\ requests[i].hostname \in Hosts
           /\ requests[i].request \in Gaicbs \cup {NULL}
           /\ requests[i].handlers \in Seq(Handlers)
           /\ Len(requests) \in Nat /\ DOMAIN requests = 1 .. Len(requests)
           /\ \A j \in DOMAIN requests[i].handlers : requests[i].handlers[j] \in Handlers
<1>1. requests[i] \in RequestInfo /\ Len(requests) \in Nat /\ DOMAIN requests = 1 .. Len(requests)
  BY DEF Typed
<1>2. /\ requests[i].hostname \in Hosts
      /\ requests[i].request \in Gaicbs \cup {NULL}
      /\ requests[i].handlers \in Seq(Handlers)
  BY <1>1 DEF RequestInfo
<1>3. \A j \in DOMAIN requests[i].handlers : requests[i].handlers[j] \in Handlers
  BY <1>2
<1> QED BY <1>1, <1>2, <1>3

\* The fields of a thread.
LEMMA ThreadType ==
    ASSUME Typed, NEW n \in Hosts
    PROVE  /\ thread[n].at \in {"none", "loop", "handlers", "ended"}
           /\ thread[n].ptr \in Gaicbs \cup {NULL}
           /\ thread[n].entry \in Nat \ {0} /\ thread[n].end \in Nat
           /\ thread[n].next \in Nat \ {0} /\ thread[n].stop \in Nat
           /\ thread[n].result \in Results
<1>1. thread[n] \in ThreadStates
  BY DEF Typed
<1> QED BY <1>1 DEF ThreadStates

\* A thread that does nothing.
LEMMA IdleIs ==
    /\ Idle \in ThreadStates
    /\ Idle.ptr = NULL /\ Idle.entry = 1 /\ Idle.end = 0 /\ Idle.next = 1 /\ Idle.stop = 0
  BY DEF Idle, ThreadStates, Results

\* Only the thread of n changes.
Others(n) ==
    /\ thread' \in [Hosts -> ThreadStates]
    /\ \A m \in Hosts \ {n} : thread'[m] = thread[m]

\* The thread goes on to the next element.
LEMMA NextEntryIs ==
    ASSUME Typed, NEW n \in Hosts, NextEntry(n)
    PROVE  /\ Others(n)
           /\ thread'[n].at = "loop" /\ thread'[n].ptr = thread[n].ptr
           /\ thread'[n].entry = thread[n].entry + 1 /\ thread'[n].end = thread[n].end
           /\ thread'[n].next = 1 /\ thread'[n].stop = 0
<1>1. PICK ptr \in Gaicbs \cup {NULL}, entry \in Nat \ {0}, end \in Nat :
         ptr = thread[n].ptr /\ entry = thread[n].entry + 1 /\ end = thread[n].end
  BY ThreadType
<1>2. PICK t : t = [Idle EXCEPT !.at = "loop", !.ptr = ptr, !.entry = entry, !.end = end]
  OBVIOUS
<1>3. /\ t \in ThreadStates
      /\ t.at = "loop" /\ t.ptr = ptr /\ t.entry = entry /\ t.end = end
      /\ t.next = Idle.next /\ t.stop = Idle.stop
  <2>1. PICK r \in ThreadStates : r = Idle
    BY IdleIs
  <2>2. t = [r EXCEPT !.at = "loop", !.ptr = ptr, !.entry = entry, !.end = end]
    BY <1>2, <2>1
  <2>3. /\ t \in ThreadStates
        /\ t.at = "loop" /\ t.ptr = ptr /\ t.entry = entry /\ t.end = end
        /\ t.next = r.next /\ t.stop = r.stop
    <3>1. t \in ThreadStates
      BY <2>2 DEF ThreadStates
    <3>2. t.at = "loop" /\ t.ptr = ptr /\ t.entry = entry /\ t.end = end
      BY <2>2 DEF ThreadStates
    <3>3. t.next = r.next /\ t.stop = r.stop
      BY <2>2 DEF ThreadStates
    <3> QED BY <3>1, <3>2, <3>3
  <2> QED BY <2>1, <2>3
<1>4. thread' = [thread EXCEPT ![n] = t]
  BY <1>1, <1>2 DEF NextEntry
<1>5. thread'[n] = t /\ Others(n)
  BY <1>3, <1>4 DEF Typed, Others
<1> QED BY <1>1, <1>3, <1>5, IdleIs

\* The thread ends.
LEMMA ThreadEndsIs ==
    ASSUME Typed, NEW n \in Hosts, thread' = [thread EXCEPT ![n] = [Idle EXCEPT !.at = "ended"]]
    PROVE  /\ Others(n)
           /\ thread'[n].at = "ended" /\ thread'[n].ptr = NULL
           /\ thread'[n].entry = 1 /\ thread'[n].end = 0
           /\ thread'[n].next = 1 /\ thread'[n].stop = 0
<1> DEFINE t == [Idle EXCEPT !.at = "ended"]
<1>1. /\ t \in ThreadStates
      /\ t.at = "ended" /\ t.ptr = NULL /\ t.entry = 1 /\ t.end = 0
      /\ t.next = 1 /\ t.stop = 0
  BY IdleIs DEF ThreadStates
<1>2. thread' = [thread EXCEPT ![n] = t]
  OBVIOUS
<1> HIDE DEF t
<1>3. thread'[n] = t /\ Others(n)
  BY <1>1, <1>2 DEF Typed, Others
<1> QED BY <1>1, <1>3

\* The thread begins to call the handlers of an element.
LEMMA BeginHandlersIs ==
    ASSUME Typed, NEW n \in Hosts, NEW result \in Results, BeginHandlers(n, result),
           thread[n].entry \in DOMAIN requests
    PROVE  /\ Others(n)
           /\ thread'[n].at = "handlers" /\ thread'[n].ptr = thread[n].ptr
           /\ thread'[n].entry = thread[n].entry /\ thread'[n].end = thread[n].end
           /\ thread'[n].next = 1 /\ thread'[n].stop = Len(It(n).handlers)
           /\ thread'[n].result = result
<1>1. PICK next \in Nat \ {0}, stop \in Nat : next = 1 /\ stop = Len(It(n).handlers)
  <2>1. It(n).handlers \in Seq(Handlers)
    BY ElementType DEF It
  <2>2. Len(It(n).handlers) \in Nat
    BY <2>1
  <2>3. 1 \in Nat \ {0}
    OBVIOUS
  <2> QED BY <2>2, <2>3, Zenon
<1>2. PICK t : t = [thread[n] EXCEPT !.at = "handlers", !.next = next, !.stop = stop,
                                     !.result = result]
  OBVIOUS
<1>3. thread' = [thread EXCEPT ![n] = t]
  BY <1>1, <1>2 DEF BeginHandlers, Typed
<1>4. /\ t \in ThreadStates
      /\ t.at = "handlers" /\ t.next = next /\ t.stop = stop /\ t.result = result
      /\ t.ptr = thread[n].ptr /\ t.entry = thread[n].entry /\ t.end = thread[n].end
  <2>1. PICK r \in ThreadStates : r = thread[n]
    BY DEF Typed
  <2>2. t = [r EXCEPT !.at = "handlers", !.next = next, !.stop = stop, !.result = result]
    BY <1>2, <2>1
  <2>3. /\ t \in ThreadStates
        /\ t.at = "handlers" /\ t.next = next /\ t.stop = stop /\ t.result = result
        /\ t.ptr = r.ptr /\ t.entry = r.entry /\ t.end = r.end
    <3>1. t \in ThreadStates
      BY <2>2 DEF ThreadStates
    <3>2. t.at = "handlers" /\ t.next = next /\ t.stop = stop /\ t.result = result
      BY <2>2 DEF ThreadStates
    <3>3. t.ptr = r.ptr /\ t.entry = r.entry /\ t.end = r.end
      BY <2>2 DEF ThreadStates
    <3> QED BY <3>1, <3>2, <3>3
  <2> QED BY <2>1, <2>3
<1>5. thread'[n] = t /\ Others(n)
  BY <1>3, <1>4 DEF Typed, Others
<1> QED BY <1>1, <1>4, <1>5

\* What is to be shown of the handlers of an element after a step.
LEMMA WaitingNext ==
    ASSUME NEW i,
           \A j \in DOMAIN requests'[i].handlers :
              /\ requests'[i].handlers[j] \in DOMAIN asked'
              /\ asked'[requests'[i].handlers[j]] = requests'[i].hostname
              /\ heard'[requests'[i].handlers[j]] # << >> =>
                    Passed(thread'[requests'[i].hostname], i, j),
           \A j, k \in DOMAIN requests'[i].handlers :
              requests'[i].handlers[j] = requests'[i].handlers[k] => j = k
    PROVE  Waiting(i)'
  BY DEF Waiting, Passed

-----------------------------------------------------------------------------
(* The invariant is inductive: steps of a thread that change nothing else. *)

\* A thread whose lookup ended moves, and passes no handler back.
LEMMA ThreadMoves ==
    ASSUME IInv, NEW n \in Hosts, Others(n), lookup[n] # "working",
           UNCHANGED <<requests, allocated, ar_result, lookup, aborted, asked, heard>>,
           Bounded(n)', Started(n)', CallsOwn(n)', FindsOwn(n)',
           \A i, j \in Nat : Passed(thread[n], i, j) => Passed(thread'[n], i, j)
    PROVE  IInv'
<1>1. Typed'
  BY DEF IInv, Typed, Others
<1>2. \A m \in Hosts : Bounded(m)' /\ Started(m)' /\ CallsOwn(m)' /\ FindsOwn(m)'
  <2> SUFFICES ASSUME NEW m \in Hosts \ {n}
               PROVE  Bounded(m)' /\ Started(m)' /\ CallsOwn(m)' /\ FindsOwn(m)'
    OBVIOUS
  <2>1. thread'[m] = thread[m]
    BY DEF Others
  <2> QED BY <2>1 DEF IInv, Bounded, Started, CallsOwn, FindsOwn, It
<1>3. ASSUME NEW i \in DOMAIN requests'
      PROVE  Element(i)' /\ Waiting(i)'
  <2>1. /\ i \in DOMAIN requests /\ Element(i) /\ Waiting(i) /\ requests[i].hostname \in Hosts
        /\ i \in Nat /\ \A j \in DOMAIN requests[i].handlers : j \in Nat
    BY ElementType DEF IInv
  <2>2. Element(i)'
    BY <2>1 DEF Element
  <2>3. \A j \in Nat : Passed(thread[requests[i].hostname], i, j) => Passed(thread'[requests[i].hostname], i, j)
    <3>1. CASE requests[i].hostname = n
      BY <2>1, <3>1 DEF Passed
    <3>2. CASE requests[i].hostname # n
      BY <2>1, <3>2 DEF Others, Passed
    <3> QED BY <3>1, <3>2
  <2>4. Waiting(i)'
    BY <2>1, <2>3 DEF Waiting
  <2> QED BY <2>2, <2>4
<1>4. OneEach' /\ Requested' /\ Unasked' /\ AnsweredOnce' /\ AnswersOwnHost'
  BY DEF IInv, OneEach, Requested, Unasked, AnsweredOnce, AnswersOwnHost
<1>5. WorkedOn'
  BY DEF IInv, WorkedOn, Others
<1> QED BY <1>1, <1>2, <1>3, <1>4, <1>5 DEF IInv

\* A thread that runs has a lookup that ended.
LEMMA Runs ==
    ASSUME IInv, NEW n \in Hosts, thread[n].at # "none"
    PROVE  /\ lookup[n] # "working" /\ lookup[n] # "none"
           /\ Typed /\ Bounded(n) /\ Started(n) /\ CallsOwn(n) /\ FindsOwn(n)
  BY DEF IInv, Started

\* The thread goes on to the next element.
LEMMA NextEntryStep ==
    ASSUME IInv, NEW n \in Hosts, NextEntry(n),
           thread[n].at \in {"loop", "handlers"}, thread[n].entry <= thread[n].end,
           UNCHANGED <<requests, allocated, ar_result, lookup, aborted, asked, heard>>
    PROVE  IInv'
<1>1. /\ lookup[n] # "working"
      /\ Typed /\ Bounded(n) /\ Started(n) /\ CallsOwn(n) /\ FindsOwn(n)
  BY Runs
<1>2. /\ Others(n)
      /\ thread'[n].at = "loop" /\ thread'[n].ptr = thread[n].ptr
      /\ thread'[n].entry = thread[n].entry + 1 /\ thread'[n].end = thread[n].end
      /\ thread'[n].next = 1 /\ thread'[n].stop = 0
  BY <1>1, NextEntryIs
<1>3. /\ thread[n].entry \in Nat \ {0} /\ thread[n].end \in Nat
  BY <1>1, ThreadType
<1>4. Bounded(n)'
  BY <1>1, <1>2, <1>3 DEF Bounded
<1>5. Started(n)' /\ CallsOwn(n)' /\ FindsOwn(n)'
  BY <1>1, <1>2 DEF Started, CallsOwn, FindsOwn
<1>6. ASSUME NEW i \in Nat, NEW j \in Nat, Passed(thread[n], i, j)
      PROVE  Passed(thread'[n], i, j)
  <2>1. thread[n].entry > i \/ thread[n].entry = i
    BY <1>6 DEF Passed
  <2>2. thread'[n].entry > i
    BY <1>2, <1>3, <2>1
  <2> QED BY <1>2, <2>2 DEF Passed
<1> QED BY <1>1, <1>2, <1>4, <1>5, <1>6, ThreadMoves

\* The thread ends.
LEMMA ThreadEndsStep ==
    ASSUME IInv, NEW n \in Hosts, ThreadEnds(n)
    PROVE  IInv'
<1>1. /\ UNCHANGED <<requests, allocated, ar_result, lookup, aborted, asked, heard>>
      /\ thread[n].at = "loop"
      /\ thread' = [thread EXCEPT ![n] = [Idle EXCEPT !.at = "ended"]]
  BY DEF ThreadEnds, requests
<1>2. lookup[n] # "working" /\ Typed /\ Bounded(n) /\ Started(n)
  BY <1>1, Runs
<1>3. /\ Others(n)
      /\ thread'[n].at = "ended" /\ thread'[n].ptr = NULL
      /\ thread'[n].entry = 1 /\ thread'[n].end = 0
      /\ thread'[n].next = 1 /\ thread'[n].stop = 0
  BY <1>1, <1>2, ThreadEndsIs
<1>4. Bounded(n)'
  BY <1>1, <1>2, <1>3 DEF Bounded, Typed
<1>5. Started(n)' /\ CallsOwn(n)' /\ FindsOwn(n)'
  BY <1>1, <1>2, <1>3 DEF Started, CallsOwn, FindsOwn
<1>6. \A i, j \in Nat : Passed(thread'[n], i, j)
  BY <1>3 DEF Passed
<1> QED BY <1>1, <1>2, <1>3, <1>4, <1>5, <1>6, ThreadMoves

\* Within the vector as it was, the element with the address of the thread is that of
\* its name, and has the answer of its lookup.
LEMMA MatchIsOwn ==
    ASSUME IInv, NEW n \in Hosts, Looping(n), Matches(n)
    PROVE  /\ thread[n].entry \in DOMAIN requests /\ thread[n].at = "loop"
           /\ thread[n].entry <= thread[n].end
           /\ It(n).hostname = n /\ It(n).request \in Gaicbs /\ It(n).request = thread[n].ptr
           /\ It(n).request \in allocated
           /\ ar_result[It(n).request] = IF lookup[n] = "resolved" THEN n ELSE NULL
<1> DEFINE i == thread[n].entry
<1>1. /\ thread[n].at = "loop" /\ i <= thread[n].end
      /\ requests[i].request # NULL /\ requests[i].request = thread[n].ptr
  BY DEF Looping, Matches, It
<1>2. Typed /\ Bounded(n) /\ FindsOwn(n)
  BY <1>1, Runs
<1>3. /\ i \in Nat \ {0} /\ thread[n].end \in Nat
      /\ Len(requests) \in Nat /\ DOMAIN requests = 1 .. Len(requests)
  BY <1>2, ThreadType DEF Typed
<1>4. i \in DOMAIN requests /\ i \in 1 .. thread[n].end
  BY <1>1, <1>2, <1>3 DEF Bounded
<1>5. requests[i].hostname = n
  BY <1>1, <1>2, <1>4 DEF FindsOwn
<1>6. requests[i].request \in Gaicbs
  BY <1>1, <1>2, <1>4, ElementType
<1>7. Element(i)
  BY <1>4 DEF IInv
<1> QED BY <1>1, <1>4, <1>5, <1>6, <1>7 DEF Element, It

\* The handlers of a lookup that failed are going to be called.
LEMMA AnswerFailedStep ==
    ASSUME IInv, NEW n \in Hosts, AnswerFailed(n)
    PROVE  IInv'
<1>1. /\ UNCHANGED <<requests, allocated, ar_result, lookup, aborted, asked, heard>>
      /\ Looping(n) /\ Matches(n) /\ ar_result[It(n).request] = NULL
      /\ BeginHandlers(n, "failed")
  BY DEF AnswerFailed, requests
<1>2. /\ thread[n].entry \in DOMAIN requests /\ thread[n].at = "loop"
      /\ thread[n].entry <= thread[n].end
      /\ It(n).hostname = n
      /\ ar_result[It(n).request] = IF lookup[n] = "resolved" THEN n ELSE NULL
  BY <1>1, MatchIsOwn
<1>3. lookup[n] # "resolved"
  BY <1>1, <1>2, ResolverAssumption
<1>4. lookup[n] # "working" /\ Typed /\ Bounded(n) /\ Started(n) /\ FindsOwn(n)
  BY <1>2, Runs
<1>5. /\ Others(n)
      /\ thread'[n].at = "handlers" /\ thread'[n].ptr = thread[n].ptr
      /\ thread'[n].entry = thread[n].entry /\ thread'[n].end = thread[n].end
      /\ thread'[n].next = 1 /\ thread'[n].stop = Len(It(n).handlers)
      /\ thread'[n].result = "failed"
  BY <1>1, <1>2, <1>4, BeginHandlersIs DEF Results
<1>6. It(n)' = It(n) /\ Len(It(n).handlers) \in Nat
  BY <1>1, <1>2, <1>4, <1>5, ElementType DEF It
<1>7. Bounded(n)'
  BY <1>1, <1>4, <1>5, <1>6 DEF Bounded
<1>8. Started(n)' /\ FindsOwn(n)'
  BY <1>1, <1>2, <1>4, <1>5 DEF Started, FindsOwn
<1>9. CallsOwn(n)'
  BY <1>1, <1>2, <1>3, <1>5, <1>6 DEF CallsOwn
<1>10. \A i, j \in Nat : Passed(thread[n], i, j) => Passed(thread'[n], i, j)
  BY <1>2, <1>5 DEF Passed
<1> QED BY <1>1, <1>4, <1>5, <1>7, <1>8, <1>9, <1>10, ThreadMoves

\* The process crashes.
LEMMA CrashStep ==
    ASSUME IInv, aborted' = "crash",
           UNCHANGED <<requests, allocated, ar_result, lookup, thread, asked, heard>>
    PROVE  IInv'
<1>1. Typed'
  BY DEF IInv, Typed
<1>2. \A n \in Hosts : Bounded(n)' /\ Started(n)' /\ CallsOwn(n)' /\ FindsOwn(n)'
  BY DEF IInv, Bounded, Started, CallsOwn, FindsOwn, It
<1>3. \A i \in DOMAIN requests' : Element(i)' /\ Waiting(i)'
  BY DEF IInv, Element, Waiting, Passed
<1>4. OneEach' /\ Requested' /\ WorkedOn' /\ Unasked' /\ AnsweredOnce' /\ AnswersOwnHost'
  BY DEF IInv, OneEach, Requested, WorkedOn, Unasked, AnsweredOnce, AnswersOwnHost
<1> QED BY <1>1, <1>2, <1>3, <1>4 DEF IInv

-----------------------------------------------------------------------------
(* The invariant is inductive: resolve_hostname.                           *)

\* A call has a handler that no call had before.
LEMMA AskIs ==
    ASSUME IInv, NEW f \in Handlers, NEW n \in Hosts, Ask(f, n)
    PROVE  /\ f \notin DOMAIN asked /\ heard[f] = << >>
           /\ asked' \in Seq(Hosts) /\ Len(asked') <= MaxCalls
           /\ DOMAIN asked' = DOMAIN asked \cup {f}
           /\ asked'[f] = n
           /\ \A g \in DOMAIN asked : asked'[g] = asked[g]
<1>1. f = Len(asked) + 1 /\ asked' = Append(asked, n) /\ asked \in Seq(Hosts)
  BY DEF Ask, IInv, Typed
<1>2. /\ asked' \in Seq(Hosts) /\ Len(asked') = Len(asked) + 1 /\ Len(asked) \in Nat
      /\ DOMAIN asked = 1 .. Len(asked) /\ DOMAIN asked' = 1 .. Len(asked) + 1
      /\ \A i \in 1 .. Len(asked) : asked'[i] = asked[i]
      /\ asked'[Len(asked) + 1] = n
  BY <1>1, Appended
<1>3. Len(asked') <= MaxCalls
  BY <1>1, <1>2 DEF Handlers
<1>4. f \notin DOMAIN asked /\ DOMAIN asked' = DOMAIN asked \cup {f}
  BY <1>1, <1>2
<1>5. heard[f] = << >>
  BY <1>4 DEF IInv, Unasked
<1> QED BY <1>1, <1>2, <1>3, <1>4, <1>5

\* What was heard stays right when a call is added that heard nothing yet.
LEMMA HeardStays ==
    ASSUME IInv, NEW f \in Handlers, NEW n \in Hosts, Ask(f, n), UNCHANGED heard,
           \A m \in Hosts : lookup[m] \in {"resolved", "failed"} => lookup'[m] = lookup[m]
    PROVE  Unasked' /\ AnsweredOnce' /\ AnswersOwnHost'
<1>1. /\ f \notin DOMAIN asked /\ heard[f] = << >>
      /\ DOMAIN asked' = DOMAIN asked \cup {f}
      /\ asked'[f] = n
      /\ \A g \in DOMAIN asked : asked'[g] = asked[g]
  BY AskIs
<1>2. Unasked' /\ AnsweredOnce'
  BY <1>1 DEF IInv, Unasked, AnsweredOnce
<1>3. ASSUME NEW g \in Handlers, NEW i \in DOMAIN heard'[g]
      PROVE  /\ g \in DOMAIN asked'
             /\ \/ heard'[g][i] = asked'[g] /\ (asked'[g] \in Literals \/ lookup'[asked'[g]] = "resolved")
                \/ heard'[g][i] = "failed" /\ asked'[g] \notin Literals /\ lookup'[asked'[g]] = "failed"
  <2>1. /\ g \in DOMAIN asked
        /\ \/ heard[g][i] = asked[g] /\ (asked[g] \in Literals \/ lookup[asked[g]] = "resolved")
           \/ heard[g][i] = "failed" /\ asked[g] \notin Literals /\ lookup[asked[g]] = "failed"
    BY <1>3 DEF IInv, AnswersOwnHost
  <2>2. g \in DOMAIN asked' /\ asked'[g] = asked[g] /\ asked[g] \in Hosts
    BY <1>1, <2>1 DEF IInv, Typed
  <2> QED BY <2>1, <2>2
<1> QED BY <1>2, <1>3 DEF AnswersOwnHost

\* A literal is answered at once.
LEMMA LiteralStep ==
    ASSUME IInv, NEW f \in Handlers, NEW n \in Hosts, resolve_literal(f, n)
    PROVE  IInv'
<1>1. /\ UNCHANGED <<requests, allocated, ar_result, lookup, thread, aborted>>
      /\ n \in Literals /\ Ask(f, n)
      /\ heard' = [heard EXCEPT ![f] = Append(heard[f], n)]
  BY DEF resolve_literal, requests
<1>2. /\ f \notin DOMAIN asked /\ heard[f] = << >>
      /\ asked' \in Seq(Hosts) /\ Len(asked') <= MaxCalls
      /\ DOMAIN asked' = DOMAIN asked \cup {f}
      /\ asked'[f] = n
      /\ \A g \in DOMAIN asked : asked'[g] = asked[g]
  BY <1>1, AskIs
<1>3. PICK answer \in Seq(Results) : answer = <<n>>
  <2>1. n \in Results
    BY DEF Results
  <2>2. <<n>> \in Seq(Results)
    BY <2>1
  <2> QED BY <2>2, Zenon
<1>4. heard' = [heard EXCEPT ![f] = answer] /\ heard \in [Handlers -> Seq(Results)]
  BY <1>1, <1>2, <1>3 DEF IInv, Typed
<1>5. /\ heard' \in [Handlers -> Seq(Results)] /\ heard'[f] = answer
      /\ \A g \in Handlers \ {f} : heard'[g] = heard[g]
  BY <1>4
<1>6. Typed'
  BY <1>1, <1>2, <1>5 DEF IInv, Typed
<1>7. \A m \in Hosts : Bounded(m)' /\ Started(m)' /\ CallsOwn(m)' /\ FindsOwn(m)'
  BY <1>1 DEF IInv, Bounded, Started, CallsOwn, FindsOwn, It
<1>8. ASSUME NEW i \in DOMAIN requests'
      PROVE  Element(i)' /\ Waiting(i)'
  <2>1. i \in DOMAIN requests /\ Element(i) /\ Waiting(i)
    BY <1>1, <1>8 DEF IInv
  <2>2. \A j \in DOMAIN requests[i].handlers :
           requests[i].handlers[j] \in Handlers /\ requests[i].handlers[j] # f
    BY <1>2, <2>1, ElementType DEF IInv, Waiting
  <2>3. Waiting(i)'
    BY <1>1, <1>2, <1>5, <2>1, <2>2 DEF Waiting, Passed
  <2> QED BY <1>1, <2>1, <2>3 DEF Element
<1>9. OneEach' /\ Requested' /\ WorkedOn'
  BY <1>1 DEF IInv, OneEach, Requested, WorkedOn
<1>10. Len(answer) = 1 /\ DOMAIN answer = {1} /\ answer[1] = n
  BY <1>3
<1>11. Unasked' /\ AnsweredOnce'
  <2>1. Unasked'
    BY <1>2, <1>5 DEF IInv, Unasked
  <2>2. \A g \in Handlers : Len(heard[g]) <= 1
    BY DEF IInv, AnsweredOnce
  <2>3. \A g \in Handlers : Len(heard'[g]) <= 1
    <3> SUFFICES ASSUME NEW g \in Handlers PROVE Len(heard'[g]) <= 1
      OBVIOUS
    <3>1. CASE g = f
      <4>1. heard'[g] = answer
        BY <1>5, <3>1
      <4>2. Len(heard'[g]) = Len(answer)
        BY <4>1, Zenon
      <4>3. Len(answer) <= 1
        BY <1>10
      <4> QED BY <4>2, <4>3, Zenon
    <3>2. CASE g # f
      BY <1>5, <2>2, <3>2
    <3> QED BY <3>1, <3>2
  <2> QED BY <2>1, <2>3 DEF AnsweredOnce
<1>12. AnswersOwnHost'
  <2> SUFFICES ASSUME NEW g \in Handlers, NEW i \in DOMAIN heard'[g]
               PROVE  /\ g \in DOMAIN asked'
                      /\ \/ heard'[g][i] = asked'[g] /\ (asked'[g] \in Literals \/ lookup'[asked'[g]] = "resolved")
                         \/ heard'[g][i] = "failed" /\ asked'[g] \notin Literals /\ lookup'[asked'[g]] = "failed"
    BY DEF AnswersOwnHost
  <2>1. CASE g = f
    BY <1>1, <1>2, <1>5, <1>10, <2>1
  <2>2. CASE g # f
    <3>1. heard'[g] = heard[g]
      BY <1>5, <2>2
    <3> QED BY <1>1, <1>2, <3>1 DEF IInv, AnswersOwnHost
  <2> QED BY <2>1, <2>2
<1> QED BY <1>6, <1>7, <1>8, <1>9, <1>11, <1>12 DEF IInv

\* A handler is added to the element of its name.
LEMMA DuplicateStep ==
    ASSUME IInv, NEW f \in Handlers, NEW n \in Hosts, resolve_duplicate(f, n)
    PROVE  IInv'
<1>1. PICK i \in DOMAIN requests :
         /\ requests[i].hostname = n
         /\ requests' = [requests EXCEPT ![i].handlers = Append(@, f)]
  BY DEF resolve_duplicate, requests
<1>2. /\ UNCHANGED <<allocated, ar_result, lookup, thread, aborted, heard>>
      /\ Ask(f, n)
  BY DEF resolve_duplicate
<1>3. /\ f \notin DOMAIN asked /\ heard[f] = << >>
      /\ asked' \in Seq(Hosts) /\ Len(asked') <= MaxCalls
      /\ DOMAIN asked' = DOMAIN asked \cup {f}
      /\ asked'[f] = n
      /\ \A g \in DOMAIN asked : asked'[g] = asked[g]
  BY <1>2, AskIs
<1>4. /\ requests[i] \in RequestInfo /\ requests[i].handlers \in Seq(Handlers)
      /\ requests \in Seq(RequestInfo)
  BY ElementType DEF IInv, Typed
<1>5. PICK hs \in Seq(Handlers) : hs = Append(requests[i].handlers, f)
  <2>1. Append(requests[i].handlers, f) \in Seq(Handlers)
    BY <1>4
  <2> QED BY <2>1, Zenon
<1>6. PICK e : e = [requests[i] EXCEPT !.handlers = hs]
  OBVIOUS
<1>7. /\ e \in RequestInfo
      /\ e.hostname = requests[i].hostname /\ e.request = requests[i].request /\ e.handlers = hs
  BY <1>4, <1>5, <1>6 DEF RequestInfo
<1>8. requests' = [requests EXCEPT ![i] = e]
  BY <1>1, <1>5, <1>6
<1>9. /\ requests' \in Seq(RequestInfo) /\ Len(requests') = Len(requests)
      /\ Len(requests) \in Nat
      /\ DOMAIN requests = 1 .. Len(requests) /\ DOMAIN requests' = DOMAIN requests
      /\ requests'[i] = e
      /\ \A k \in DOMAIN requests : k # i => requests'[k] = requests[k]
  BY <1>4, <1>7, <1>8, Replaced
<1>10. /\ Len(hs) = Len(requests[i].handlers) + 1 /\ Len(requests[i].handlers) \in Nat
       /\ DOMAIN requests[i].handlers = 1 .. Len(requests[i].handlers)
       /\ DOMAIN hs = 1 .. Len(requests[i].handlers) + 1
       /\ \A j \in DOMAIN requests[i].handlers : hs[j] = requests[i].handlers[j]
       /\ hs[Len(requests[i].handlers) + 1] = f
  BY <1>4, <1>5, Appended
<1>11. \A k \in DOMAIN requests :
          requests'[k].hostname = requests[k].hostname /\ requests'[k].request = requests[k].request
  BY <1>7, <1>9
<1>12. Typed'
  BY <1>2, <1>3, <1>9 DEF IInv, Typed
<1>13. ASSUME NEW m \in Hosts
       PROVE  Bounded(m)' /\ Started(m)' /\ CallsOwn(m)' /\ FindsOwn(m)'
  <2>1. Bounded(m) /\ Started(m) /\ CallsOwn(m) /\ FindsOwn(m)
    BY DEF IInv
  <2>2. thread[m].entry \in Nat \ {0} /\ thread[m].end \in Nat /\ thread[m].stop \in Nat
    BY ThreadType DEF IInv
  <2>3. Bounded(m)' /\ Started(m)'
    BY <1>2, <1>9, <2>1 DEF Bounded, Started
  <2>4. FindsOwn(m)'
    <3>1. 1 .. thread[m].end \subseteq DOMAIN requests
      BY <1>9, <2>1, <2>2 DEF Bounded
    <3> QED BY <1>2, <1>11, <2>1, <3>1 DEF FindsOwn
  <2>5. CallsOwn(m)'
    <3> SUFFICES ASSUME thread[m].at = "handlers"
                 PROVE  CallsOwn(m)'
      BY <1>2 DEF CallsOwn
    <3>1. thread[m].entry \in DOMAIN requests
      BY <1>9, <2>1, <2>2 DEF Bounded, CallsOwn
    <3>2. thread[m].stop <= Len(requests'[thread[m].entry].handlers)
      <4>1. thread[m].stop <= Len(requests[thread[m].entry].handlers)
        BY <2>1 DEF CallsOwn, It
      <4>2. CASE thread[m].entry = i
        BY <1>7, <1>9, <1>10, <2>2, <4>1, <4>2
      <4>3. CASE thread[m].entry # i
        BY <1>9, <3>1, <4>1, <4>3
      <4> QED BY <4>2, <4>3
    <3> QED BY <1>2, <1>11, <2>1, <3>1, <3>2 DEF CallsOwn, It
  <2> QED BY <2>3, <2>4, <2>5
<1>14. ASSUME NEW k \in DOMAIN requests'
       PROVE  Element(k)' /\ Waiting(k)'
  <2>1. /\ k \in DOMAIN requests /\ Element(k) /\ Waiting(k)
    BY <1>9 DEF IInv
  <2>2. Element(k)'
    BY <1>2, <1>11, <2>1 DEF Element
  <2>3. CASE k # i
    <3>1. requests'[k] = requests[k]
      BY <1>9, <2>1, <2>3
    <3>2. Waiting(k)'
      BY <1>2, <1>3, <2>1, <3>1, WaitingNext DEF Waiting
    <3> QED BY <2>2, <3>2
  <2>4. CASE k = i
    <3>1. ASSUME NEW j \in DOMAIN hs
          PROVE  /\ hs[j] \in DOMAIN asked' /\ asked'[hs[j]] = n
                 /\ heard[hs[j]] # << >> => Passed(thread[n], i, j)
                 /\ hs[j] = f <=> j = Len(requests[i].handlers) + 1
      <4>1. CASE j \in DOMAIN requests[i].handlers
        <5>1. /\ hs[j] \in DOMAIN asked /\ asked[hs[j]] = n
              /\ heard[hs[j]] # << >> => Passed(thread[n], i, j)
          BY <1>1, <1>10, <2>1, <2>4, <4>1 DEF Waiting
        <5>2. hs[j] # f /\ j # Len(requests[i].handlers) + 1
          BY <1>3, <1>10, <4>1, <5>1
        <5> QED BY <1>3, <5>1, <5>2
      <4>2. CASE j = Len(requests[i].handlers) + 1
        BY <1>3, <1>10, <4>2
      <4> QED BY <1>10, <4>1, <4>2
    <3>2. ASSUME NEW j \in DOMAIN hs, NEW l \in DOMAIN hs, hs[j] = hs[l]
          PROVE  j = l
      BY <1>10, <2>1, <2>4, <3>1, <3>2 DEF Waiting
    <3>3. requests'[k].handlers = hs /\ requests'[k].hostname = n
      BY <1>1, <1>7, <1>9, <2>4
    <3>4. Waiting(k)'
      BY <1>2, <2>4, <3>1, <3>2, <3>3, WaitingNext
    <3> QED BY <2>2, <3>4
  <2> QED BY <2>2, <2>3, <2>4
<1>15. OneEach' /\ Requested' /\ WorkedOn'
  BY <1>2, <1>9, <1>11 DEF IInv, OneEach, Requested, WorkedOn
<1>16. Unasked' /\ AnsweredOnce' /\ AnswersOwnHost'
  BY <1>2, HeardStays
<1> QED BY <1>12, <1>13, <1>14, <1>15, <1>16 DEF IInv

\* A lookup begins only for a name that had none.
LEMMA FirstIs ==
    ASSUME IInv, NEW n \in Hosts, \A i \in DOMAIN requests : requests[i].hostname # n
    PROVE  lookup[n] = "none" /\ thread[n].at = "none"
<1>1. lookup[n] = "none"
  BY DEF IInv, Requested
<1> QED BY <1>1, Runs

\* The thread of a new lookup gets the address of its request.
LEMMA PointerIs ==
    ASSUME Typed, NEW n \in Hosts, NEW p \in Gaicbs, thread' = [thread EXCEPT ![n].ptr = p]
    PROVE  /\ Others(n)
           /\ thread'[n].ptr = p
           /\ thread'[n].at = thread[n].at
           /\ thread'[n].entry = thread[n].entry /\ thread'[n].end = thread[n].end
           /\ thread'[n].next = thread[n].next /\ thread'[n].stop = thread[n].stop
<1>1. PICK r \in ThreadStates : r = thread[n]
  BY DEF Typed
<1>2. PICK t : t = [r EXCEPT !.ptr = p]
  OBVIOUS
<1>3. t \in ThreadStates
  BY <1>2 DEF ThreadStates
<1>4. t.ptr = p
  BY <1>1, <1>2 DEF ThreadStates
<1>5. t.at = r.at /\ t.entry = r.entry /\ t.end = r.end /\ t.next = r.next /\ t.stop = r.stop
  BY <1>1, <1>2 DEF ThreadStates
<1>6. thread' = [thread EXCEPT ![n] = t]
  BY <1>1, <1>2
<1>7. thread'[n] = t /\ Others(n)
  BY <1>3, <1>6 DEF Typed, Others
<1> QED BY <1>1, <1>4, <1>5, <1>7

\* The first call for a name begins its lookup.
LEMMA FirstStep ==
    ASSUME IInv, NEW f \in Handlers, NEW n \in Hosts, resolve_first(f, n)
    PROVE  IInv'
<1>1. PICK p \in Gaicbs \ allocated :
         /\ requests' = Append(requests, [hostname |-> n, request |-> p, handlers |-> << >>])
         /\ allocated' = allocated \cup {p}
         /\ ar_result' = [ar_result EXCEPT ![p] = NULL]
         /\ thread' = [thread EXCEPT ![n].ptr = p]
  BY DEF resolve_first, requests
<1>2. PICK accepted \in {"working", "refused"} : lookup' = [lookup EXCEPT ![n] = accepted]
  BY DEF resolve_first
<1>3. /\ UNCHANGED <<aborted, heard>>
      /\ Ask(f, n) /\ n \notin Literals
      /\ \A i \in DOMAIN requests : requests[i].hostname # n
  BY DEF resolve_first
<1>4. /\ DOMAIN asked' = DOMAIN asked \cup {f}
      /\ asked' \in Seq(Hosts) /\ Len(asked') <= MaxCalls
      /\ \A g \in DOMAIN asked : asked'[g] = asked[g]
  BY <1>3, AskIs
<1>5. lookup[n] = "none" /\ thread[n].at = "none"
  BY <1>3, FirstIs
<1>6. Typed
  BY DEF IInv
<1>7. PICK e : e = [hostname |-> n, request |-> p, handlers |-> << >>]
  OBVIOUS
<1>8. e \in RequestInfo /\ e.hostname = n /\ e.request = p /\ e.handlers = << >>
  BY <1>7 DEF RequestInfo
<1>9. requests' = Append(requests, e) /\ requests \in Seq(RequestInfo)
  BY <1>1, <1>6, <1>7 DEF Typed
<1>10. /\ requests' \in Seq(RequestInfo) /\ Len(requests') = Len(requests) + 1
       /\ Len(requests) \in Nat
       /\ DOMAIN requests = 1 .. Len(requests) /\ DOMAIN requests' = 1 .. Len(requests) + 1
       /\ \A i \in 1 .. Len(requests) : requests'[i] = requests[i]
       /\ requests'[Len(requests) + 1] = e
  BY <1>8, <1>9, Appended
<1>11. /\ Others(n)
       /\ thread'[n].ptr = p /\ thread'[n].at = "none"
       /\ thread'[n].entry = thread[n].entry /\ thread'[n].end = thread[n].end
       /\ thread'[n].next = thread[n].next /\ thread'[n].stop = thread[n].stop
  BY <1>1, <1>5, <1>6, PointerIs
<1>12. /\ lookup' \in [Hosts -> {"none", "refused", "working", "resolved", "failed"}]
       /\ lookup'[n] \in {"working", "refused"}
       /\ \A m \in Hosts \ {n} : lookup'[m] = lookup[m]
  BY <1>2, <1>6 DEF Typed
<1>13. /\ ar_result' \in [Gaicbs -> Hosts \cup {NULL}] /\ ar_result'[p] = NULL
       /\ \A q \in Gaicbs \ {p} : ar_result'[q] = ar_result[q]
  BY <1>1, <1>6 DEF Typed
<1>14. p \in Gaicbs /\ p \notin allocated /\ p # NULL
  BY ResolverAssumption
<1>15. Typed'
  BY <1>1, <1>3, <1>4, <1>6, <1>10, <1>11, <1>12, <1>13 DEF Typed, Others
<1>16. ASSUME NEW m \in Hosts
       PROVE  Bounded(m)' /\ Started(m)' /\ CallsOwn(m)' /\ FindsOwn(m)'
  <2>1. /\ Bounded(m) /\ Started(m) /\ CallsOwn(m) /\ FindsOwn(m)
        /\ thread[m].entry \in Nat \ {0} /\ thread[m].end \in Nat
    BY <1>6, ThreadType DEF IInv
  <2>2. CASE m = n
    <3>1. Bounded(m)'
      BY <1>10, <1>11, <2>1, <2>2 DEF Bounded
    <3>2. Started(m)' /\ CallsOwn(m)' /\ FindsOwn(m)'
      BY <1>11, <2>2 DEF Started, CallsOwn, FindsOwn
    <3> QED BY <3>1, <3>2
  <2>3. CASE m # n
    <3>1. thread'[m] = thread[m] /\ lookup'[m] = lookup[m]
      BY <1>11, <1>12, <2>3 DEF Others
    <3>2. Bounded(m)' /\ Started(m)'
      BY <1>10, <2>1, <3>1 DEF Bounded, Started
    <3>3. \A i \in 1 .. thread[m].end : requests'[i] = requests[i]
      BY <1>10, <2>1 DEF Bounded
    <3>4. FindsOwn(m)'
      BY <2>1, <3>1, <3>3 DEF FindsOwn
    <3>5. CallsOwn(m)'
      BY <2>1, <3>1, <3>3 DEF CallsOwn, It
    <3> QED BY <3>2, <3>4, <3>5
  <2> QED BY <2>2, <2>3
<1>17. ASSUME NEW k \in DOMAIN requests'
       PROVE  Element(k)' /\ Waiting(k)'
  <2>1. CASE k = Len(requests) + 1
    <3>1. requests'[k] = e
      BY <1>10, <2>1
    <3>2. Element(k)'
      BY <1>1, <1>3, <1>8, <1>12, <1>13, <3>1 DEF Element
    <3>3. Waiting(k)'
      BY <1>8, <3>1, WaitingNext
    <3> QED BY <3>2, <3>3
  <2>2. CASE k \in DOMAIN requests
    <3>1. /\ requests'[k] = requests[k] /\ Element(k) /\ Waiting(k)
          /\ requests[k].hostname \in Hosts \ {n}
          /\ requests[k].request \in Gaicbs \cup {NULL}
      BY <1>3, <1>6, <1>10, <2>2, ElementType DEF IInv
    <3>2. lookup'[requests[k].hostname] = lookup[requests[k].hostname]
      BY <1>12, <3>1
    <3>3. thread'[requests[k].hostname] = thread[requests[k].hostname]
      BY <1>11, <3>1 DEF Others
    <3>4. Element(k)'
      BY <1>1, <1>13, <1>14, <3>1, <3>2 DEF Element
    <3>5. Waiting(k)'
      BY <1>3, <1>4, <3>1, <3>3, WaitingNext DEF Waiting
    <3> QED BY <3>4, <3>5
  <2> QED BY <1>10, <2>1, <2>2
<1>18. OneEach'
  <2>1. \A i \in DOMAIN requests : requests[i].request # p
    BY <1>14 DEF IInv, Element
  <2>2. ASSUME NEW i \in DOMAIN requests', NEW j \in DOMAIN requests',
               requests'[i].hostname = requests'[j].hostname
        PROVE  i = j
    BY <1>3, <1>8, <1>10, <2>2 DEF IInv, OneEach
  <2>3. ASSUME NEW i \in DOMAIN requests', NEW j \in DOMAIN requests',
               requests'[i].request # NULL, requests'[i].request = requests'[j].request
        PROVE  i = j
    BY <1>8, <1>10, <2>1, <2>3 DEF IInv, OneEach
  <2> QED BY <2>2, <2>3 DEF OneEach
<1>19. WorkedOn' /\ Requested'
  <2>1. ASSUME NEW m \in Hosts
        PROVE  /\ lookup'[m] = "working" =>
                     \E i \in DOMAIN requests' :
                        /\ requests'[i].hostname = m /\ requests'[i].request = thread'[m].ptr
                        /\ thread'[m].ptr # NULL
               /\ lookup'[m] # "none" => \E i \in DOMAIN requests' : requests'[i].hostname = m
    <3>1. CASE m = n
      BY <1>8, <1>10, <1>11, <1>14, <3>1
    <3>2. CASE m # n
      <4>1. thread'[m] = thread[m] /\ lookup'[m] = lookup[m]
        BY <1>11, <1>12, <3>2 DEF Others
      <4> QED BY <1>10, <4>1 DEF IInv, WorkedOn, Requested
    <3> QED BY <3>1, <3>2
  <2> QED BY <2>1 DEF WorkedOn, Requested
<1>20. Unasked' /\ AnsweredOnce' /\ AnswersOwnHost'
  <2>1. \A m \in Hosts : lookup[m] \in {"resolved", "failed"} => lookup'[m] = lookup[m]
    BY <1>5, <1>12
  <2> QED BY <1>3, <2>1, HeardStays
<1> QED BY <1>15, <1>16, <1>17, <1>18, <1>19, <1>20 DEF IInv

-----------------------------------------------------------------------------
(* The invariant is inductive: the lookup ends, and is answered.           *)

\* The thread begins its walk, up to the end as it is now.
LEMMA WalkIs ==
    ASSUME Typed, NEW n \in Hosts,
           thread' = [thread EXCEPT ![n].at = "loop", ![n].end = Len(requests)]
    PROVE  /\ Others(n)
           /\ thread'[n].at = "loop" /\ thread'[n].end = Len(requests)
           /\ thread'[n].ptr = thread[n].ptr /\ thread'[n].entry = thread[n].entry
           /\ thread'[n].next = thread[n].next /\ thread'[n].stop = thread[n].stop
<1>1. PICK r \in ThreadStates : r = thread[n]
  BY DEF Typed
<1>2. PICK end \in Nat : end = Len(requests)
  <2>1. Len(requests) \in Nat
    BY DEF Typed
  <2> QED BY <2>1, Zenon
<1>3. PICK t : t = [r EXCEPT !.at = "loop", !.end = end]
  OBVIOUS
<1>4. t \in ThreadStates
  BY <1>1, <1>2, <1>3 DEF ThreadStates
<1>5. t.at = "loop" /\ t.end = end
  BY <1>1, <1>3 DEF ThreadStates
<1>6. t.ptr = r.ptr /\ t.entry = r.entry /\ t.next = r.next /\ t.stop = r.stop
  BY <1>1, <1>3 DEF ThreadStates
<1>7. thread' = [thread EXCEPT ![n] = t]
  BY <1>1, <1>2, <1>3 DEF Typed
<1>8. thread'[n] = t /\ Others(n)
  BY <1>4, <1>7 DEF Typed, Others
<1> QED BY <1>1, <1>2, <1>5, <1>6, <1>8

\* A lookup ends.
LEMMA LookupEndsStep ==
    ASSUME IInv, NEW n \in Hosts, LookupEnds(n)
    PROVE  IInv'
<1>1. /\ lookup[n] = "working"
      /\ UNCHANGED <<requests, allocated, aborted, asked, heard>>
      /\ thread' = [thread EXCEPT ![n].at = "loop", ![n].end = Len(requests)]
  BY DEF LookupEnds, requests
<1>2. Typed
  BY DEF IInv
<1>3. thread[n].at = "none"
  BY <1>1, Runs
<1>4. PICK k \in DOMAIN requests :
         requests[k].hostname = n /\ requests[k].request = thread[n].ptr /\ thread[n].ptr # NULL
  BY <1>1 DEF IInv, WorkedOn
<1>5. thread[n].ptr \in Gaicbs
  BY <1>2, <1>4, ThreadType
<1>6. /\ lookup' \in [Hosts -> {"none", "refused", "working", "resolved", "failed"}]
      /\ lookup'[n] \in {"resolved", "failed"}
      /\ \A m \in Hosts \ {n} : lookup'[m] = lookup[m]
  BY <1>2 DEF LookupEnds, Typed
<1>7. Element(k) /\ ar_result[thread[n].ptr] = NULL
  BY <1>1, <1>4 DEF IInv, Element
<1>8. /\ ar_result' \in [Gaicbs -> Hosts \cup {NULL}]
      /\ ar_result'[thread[n].ptr] = IF lookup'[n] = "resolved" THEN n ELSE NULL
      /\ \A q \in Gaicbs \ {thread[n].ptr} : ar_result'[q] = ar_result[q]
  <2>1. CASE lookup' = [lookup EXCEPT ![n] = "resolved"]
             /\ ar_result' = [ar_result EXCEPT ![thread[n].ptr] = n]
    BY <1>2, <1>5, <2>1 DEF Typed
  <2>2. CASE lookup' = [lookup EXCEPT ![n] = "failed"] /\ UNCHANGED ar_result
    BY <1>2, <1>7, <2>2 DEF Typed
  <2> QED BY <2>1, <2>2 DEF LookupEnds
<1>9. /\ Others(n)
      /\ thread'[n].at = "loop" /\ thread'[n].end = Len(requests)
      /\ thread'[n].ptr = thread[n].ptr /\ thread'[n].entry = thread[n].entry
      /\ thread'[n].next = thread[n].next /\ thread'[n].stop = thread[n].stop
  BY <1>1, <1>2, WalkIs
<1>10. Typed'
  BY <1>1, <1>2, <1>6, <1>8, <1>9 DEF Typed, Others
<1>11. Len(requests) \in Nat /\ DOMAIN requests = 1 .. Len(requests)
  BY <1>2 DEF Typed
<1>12. ASSUME NEW m \in Hosts
       PROVE  Bounded(m)' /\ Started(m)' /\ CallsOwn(m)' /\ FindsOwn(m)'
  <2>1. /\ Bounded(m) /\ Started(m) /\ CallsOwn(m) /\ FindsOwn(m)
        /\ thread[m].entry \in Nat \ {0} /\ thread[m].end \in Nat
    BY <1>2, ThreadType DEF IInv
  <2>2. CASE m = n
    <3>1. Bounded(m)'
      BY <1>1, <1>9, <1>11, <2>1, <2>2 DEF Bounded
    <3>2. Started(m)' /\ CallsOwn(m)'
      BY <1>6, <1>9, <2>2 DEF Started, CallsOwn
    <3>3. \A i \in DOMAIN requests : requests[i].request = requests[k].request => i = k
      BY <1>4 DEF IInv, OneEach
    <3>4. FindsOwn(m)'
      BY <1>1, <1>4, <1>9, <1>11, <2>2, <3>3 DEF FindsOwn
    <3> QED BY <3>1, <3>2, <3>4
  <2>3. CASE m # n
    <3>1. thread'[m] = thread[m] /\ lookup'[m] = lookup[m]
      BY <1>6, <1>9, <2>3 DEF Others
    <3> QED BY <1>1, <2>1, <3>1 DEF Bounded, Started, CallsOwn, FindsOwn, It
  <2> QED BY <2>2, <2>3
<1>13. ASSUME NEW i \in DOMAIN requests'
       PROVE  Element(i)' /\ Waiting(i)'
  <2>1. /\ i \in DOMAIN requests /\ Element(i) /\ Waiting(i)
        /\ requests[i].hostname \in Hosts
        /\ requests[i].request \in Gaicbs \cup {NULL}
    BY <1>1, <1>2, <1>13, ElementType DEF IInv
  <2>2. CASE requests[i].hostname = n
    <3>1. i = k
      BY <1>4, <2>1, <2>2 DEF IInv, OneEach
    <3>2. Element(i)'
      BY <1>1, <1>4, <1>6, <1>8, <2>1, <3>1 DEF Element
    <3>3. \A j \in DOMAIN requests[i].handlers : heard[requests[i].handlers[j]] = << >>
      BY <1>3, <2>1, <2>2 DEF Waiting, Passed
    <3>4. Waiting(i)'
      BY <1>1, <2>1, <3>3, WaitingNext DEF Waiting
    <3> QED BY <3>2, <3>4
  <2>3. CASE requests[i].hostname # n
    <3>1. /\ thread'[requests[i].hostname] = thread[requests[i].hostname]
          /\ lookup'[requests[i].hostname] = lookup[requests[i].hostname]
      BY <1>6, <1>9, <2>1, <2>3 DEF Others
    <3>2. requests[i].request # thread[n].ptr
      BY <1>4, <2>1, <2>3 DEF IInv, OneEach
    <3>3. Element(i)'
      BY <1>1, <1>8, <2>1, <3>1, <3>2 DEF Element
    <3>4. Waiting(i)'
      BY <1>1, <2>1, <3>1, WaitingNext DEF Waiting
    <3> QED BY <3>3, <3>4
  <2> QED BY <2>2, <2>3
<1>14. OneEach' /\ Requested'
  BY <1>1, <1>6 DEF IInv, OneEach, Requested
<1>15. WorkedOn'
  BY <1>1, <1>6, <1>9 DEF IInv, WorkedOn, Others
<1>16. Unasked' /\ AnsweredOnce'
  BY <1>1 DEF IInv, Unasked, AnsweredOnce
<1>17. AnswersOwnHost'
  <2>1. ASSUME NEW g \in Handlers, NEW i \in DOMAIN heard[g]
        PROVE  /\ g \in DOMAIN asked
               /\ \/ heard[g][i] = asked[g] /\ (asked[g] \in Literals \/ lookup'[asked[g]] = "resolved")
                  \/ heard[g][i] = "failed" /\ asked[g] \notin Literals /\ lookup'[asked[g]] = "failed"
    <3>1. /\ g \in DOMAIN asked
          /\ \/ heard[g][i] = asked[g] /\ (asked[g] \in Literals \/ lookup[asked[g]] = "resolved")
             \/ heard[g][i] = "failed" /\ asked[g] \notin Literals /\ lookup[asked[g]] = "failed"
      BY DEF IInv, AnswersOwnHost
    <3>2. asked[g] \in Hosts
      BY <1>2, <3>1 DEF Typed
    <3>3. asked[g] # n => lookup'[asked[g]] = lookup[asked[g]]
      BY <1>6, <3>2
    <3> QED BY <1>1, <3>1, <3>3
  <2> QED BY <1>1, <2>1 DEF AnswersOwnHost
<1> QED BY <1>10, <1>12, <1>13, <1>14, <1>15, <1>16, <1>17 DEF IInv

\* The answer is taken: the request is freed, and its handlers are going to be called.
LEMMA AnswerResolvedStep ==
    ASSUME IInv, NEW n \in Hosts, AnswerResolved(n)
    PROVE  IInv'
<1> DEFINE k == thread[n].entry
           q == It(n).request
<1>1. /\ UNCHANGED <<lookup, aborted, asked, heard>>
      /\ Looping(n) /\ Matches(n) /\ ar_result[q] # NULL
      /\ BeginHandlers(n, ar_result[q])
      /\ allocated' = allocated \ {q}
      /\ ar_result' = [ar_result EXCEPT ![q] = NULL]
      /\ requests' = [requests EXCEPT ![k].request = NULL]
  BY DEF AnswerResolved, requests
<1>2. /\ k \in DOMAIN requests /\ thread[n].at = "loop"
      /\ k <= thread[n].end
      /\ It(n).hostname = n /\ q \in Gaicbs /\ q = thread[n].ptr
      /\ ar_result[q] = IF lookup[n] = "resolved" THEN n ELSE NULL
  BY <1>1, MatchIsOwn
<1>3. It(n) = requests[k] /\ q = requests[k].request
  BY DEF It
<1> HIDE DEF k, q
<1>4. lookup[n] = "resolved" /\ ar_result[q] = n
  BY <1>1, <1>2
<1>5. Typed /\ Bounded(n) /\ Started(n) /\ FindsOwn(n)
  BY <1>2, Runs
<1>6. /\ Others(n)
      /\ thread'[n].at = "handlers" /\ thread'[n].ptr = thread[n].ptr
      /\ thread'[n].entry = k /\ thread'[n].end = thread[n].end
      /\ thread'[n].next = 1 /\ thread'[n].stop = Len(requests[k].handlers)
      /\ thread'[n].result = n
  <2>1. n \in Results
    BY DEF Results
  <2> QED BY <1>1, <1>2, <1>3, <1>4, <1>5, <2>1, BeginHandlersIs DEF k
<1>7. /\ requests[k] \in RequestInfo /\ Len(requests[k].handlers) \in Nat
      /\ requests \in Seq(RequestInfo)
  BY <1>2, <1>5, ElementType DEF Typed
<1>8. PICK none \in Gaicbs \cup {NULL} : none = NULL
  OBVIOUS
<1>9. PICK e : e = [requests[k] EXCEPT !.request = none]
  OBVIOUS
<1>10. /\ e \in RequestInfo
       /\ e.hostname = n /\ e.request = NULL /\ e.handlers = requests[k].handlers
  BY <1>2, <1>3, <1>7, <1>8, <1>9 DEF RequestInfo
<1>11. requests' = [requests EXCEPT ![k] = e]
  BY <1>1, <1>8, <1>9
<1>12. /\ requests' \in Seq(RequestInfo) /\ Len(requests') = Len(requests)
       /\ Len(requests) \in Nat
       /\ DOMAIN requests = 1 .. Len(requests) /\ DOMAIN requests' = DOMAIN requests
       /\ requests'[k] = e
       /\ \A i \in DOMAIN requests : i # k => requests'[i] = requests[i]
  BY <1>2, <1>7, <1>10, <1>11, Replaced
<1>13. /\ ar_result' \in [Gaicbs -> Hosts \cup {NULL}]
       /\ \A p \in Gaicbs \ {q} : ar_result'[p] = ar_result[p]
  BY <1>1, <1>2, <1>5 DEF Typed
<1>14. \A i \in DOMAIN requests :
          /\ requests'[i].hostname = requests[i].hostname
          /\ requests'[i].handlers = requests[i].handlers
          /\ requests'[i].request # NULL => i # k /\ requests'[i].request = requests[i].request
  BY <1>2, <1>3, <1>10, <1>12
<1>15. Typed'
  BY <1>1, <1>5, <1>6, <1>12, <1>13 DEF Typed, Others
<1>16. ASSUME NEW m \in Hosts
       PROVE  Bounded(m)' /\ Started(m)' /\ CallsOwn(m)' /\ FindsOwn(m)'
  <2>1. /\ Bounded(m) /\ Started(m) /\ CallsOwn(m) /\ FindsOwn(m)
        /\ thread[m].entry \in Nat \ {0} /\ thread[m].end \in Nat
    BY <1>5, ThreadType DEF IInv
  <2>2. /\ thread'[m].end = thread[m].end /\ thread'[m].ptr = thread[m].ptr
        /\ thread'[m].entry = thread[m].entry
        /\ thread[m].at # "none" <=> thread'[m].at # "none"
    BY <1>2, <1>6 DEF Others, k
  <2>3. FindsOwn(m)'
    <3>1. 1 .. thread[m].end \subseteq DOMAIN requests
      BY <1>12, <2>1 DEF Bounded
    <3> QED BY <1>14, <2>1, <2>2, <3>1 DEF FindsOwn
  <2>4. Started(m)'
    BY <1>1, <2>1, <2>2 DEF Started
  <2>5. CASE m = n
    <3>1. Bounded(m)'
      BY <1>6, <1>7, <1>12, <2>1, <2>2, <2>5 DEF Bounded
    <3>2. It(n)' = e
      BY <1>6, <1>12 DEF It
    <3>3. thread'[n].stop = Len(e.handlers) /\ thread'[n].stop \in Nat
      BY <1>6, <1>7, <1>10
    <3>4. CallsOwn(n)'
      BY <1>1, <1>2, <1>4, <1>6, <1>10, <3>2, <3>3 DEF CallsOwn
    <3> QED BY <2>3, <2>4, <2>5, <3>1, <3>4
  <2>6. CASE m # n
    <3>1. thread'[m] = thread[m]
      BY <1>6, <2>6 DEF Others
    <3>2. Bounded(m)'
      BY <1>12, <2>1, <3>1 DEF Bounded
    <3>3. thread[m].entry <= thread[m].end => thread[m].entry \in DOMAIN requests
      BY <1>12, <2>1 DEF Bounded
    <3>4. CallsOwn(m)'
      BY <1>1, <1>14, <2>1, <3>1, <3>3 DEF CallsOwn, It
    <3> QED BY <2>3, <2>4, <3>2, <3>4
  <2> QED BY <2>5, <2>6
<1>17. ASSUME NEW i \in DOMAIN requests'
       PROVE  Element(i)' /\ Waiting(i)'
  <2>1. /\ i \in DOMAIN requests /\ Element(i) /\ Waiting(i)
        /\ requests[i].hostname \in Hosts
        /\ requests[i].request \in Gaicbs \cup {NULL}
    BY <1>5, <1>12, <1>17, ElementType DEF IInv
  <2>2. requests'[i].request # NULL => requests[i].request # q
    BY <1>2, <1>3, <1>14, <2>1 DEF IInv, OneEach
  <2>3. Element(i)'
    BY <1>1, <1>13, <1>14, <2>1, <2>2 DEF Element
  <2>4. \A j \in DOMAIN requests[i].handlers :
           Passed(thread[requests[i].hostname], i, j) => Passed(thread'[requests[i].hostname], i, j)
    <3>1. CASE requests[i].hostname = n
      BY <1>2, <1>6, <3>1 DEF Passed, k
    <3>2. CASE requests[i].hostname # n
      BY <1>6, <2>1, <3>2 DEF Others, Passed
    <3> QED BY <3>1, <3>2
  <2>5. Waiting(i)'
    BY <1>1, <1>14, <2>1, <2>4, WaitingNext DEF Waiting
  <2> QED BY <2>3, <2>5
<1>18. OneEach' /\ Requested'
  <2>1. OneEach'
    BY <1>12, <1>14 DEF IInv, OneEach
  <2>2. Requested'
    BY <1>1, <1>12, <1>14 DEF IInv, Requested
  <2> QED BY <2>1, <2>2
<1>19. WorkedOn'
  <2> SUFFICES ASSUME NEW m \in Hosts, lookup[m] = "working"
               PROVE  \E i \in DOMAIN requests' :
                         /\ requests'[i].hostname = m /\ requests'[i].request = thread'[m].ptr
                         /\ thread'[m].ptr # NULL
    BY <1>1 DEF WorkedOn
  <2>1. m # n /\ thread'[m] = thread[m]
    BY <1>4, <1>6 DEF Others
  <2>2. PICK i \in DOMAIN requests :
           /\ requests[i].hostname = m /\ requests[i].request = thread[m].ptr
           /\ thread[m].ptr # NULL
    BY DEF IInv, WorkedOn
  <2>3. requests'[i] = requests[i]
    BY <1>2, <1>3, <1>12, <2>1, <2>2
  <2> QED BY <1>12, <2>1, <2>2, <2>3
<1>20. Unasked' /\ AnsweredOnce' /\ AnswersOwnHost'
  BY <1>1 DEF IInv, Unasked, AnsweredOnce, AnswersOwnHost
<1> QED BY <1>15, <1>16, <1>17, <1>18, <1>19, <1>20 DEF IInv

\* The thread goes past one handler.
LEMMA PassIs ==
    ASSUME Typed, NEW n \in Hosts, thread' = [thread EXCEPT ![n].next = @ + 1]
    PROVE  /\ Others(n)
           /\ thread'[n].next = thread[n].next + 1
           /\ thread'[n].at = thread[n].at /\ thread'[n].ptr = thread[n].ptr
           /\ thread'[n].entry = thread[n].entry /\ thread'[n].end = thread[n].end
           /\ thread'[n].stop = thread[n].stop /\ thread'[n].result = thread[n].result
<1>1. PICK r \in ThreadStates : r = thread[n]
  BY DEF Typed
<1>2. PICK next \in Nat \ {0} : next = thread[n].next + 1
  <2>1. thread[n].next + 1 \in Nat \ {0}
    BY ThreadType
  <2> QED BY <2>1, Zenon
<1>3. PICK t : t = [r EXCEPT !.next = next]
  OBVIOUS
<1>4. t \in ThreadStates
  BY <1>1, <1>2, <1>3 DEF ThreadStates
<1>5. t.next = next
  BY <1>1, <1>3 DEF ThreadStates
<1>6. /\ t.at = r.at /\ t.ptr = r.ptr /\ t.entry = r.entry /\ t.end = r.end
      /\ t.stop = r.stop /\ t.result = r.result
  BY <1>1, <1>3 DEF ThreadStates
<1>7. thread' = [thread EXCEPT ![n] = t]
  BY <1>1, <1>2, <1>3 DEF Typed
<1>8. thread'[n] = t /\ Others(n)
  BY <1>4, <1>7 DEF Typed, Others
<1> QED BY <1>1, <1>2, <1>5, <1>6, <1>8

\* A handler is called, and was not called before.
LEMMA CallHandlerStep ==
    ASSUME IInv, NEW n \in Hosts, CallHandler(n)
    PROVE  IInv'
<1> DEFINE k == thread[n].entry
           j == thread[n].next
           f == requests[k].handlers[j]
           result == thread[n].result
<1>1. /\ UNCHANGED <<requests, allocated, ar_result, lookup, asked>>
      /\ thread[n].at = "handlers" /\ j <= thread[n].stop
  BY DEF CallHandler, Calling, requests
<1>2. CASE HandlersMoved(n)
  BY <1>1, <1>2, CrashStep DEF CallHandler
<1>3. CASE ~HandlersMoved(n)
  <2>1. /\ heard' = [heard EXCEPT ![f] = Append(@, result)]
        /\ thread' = [thread EXCEPT ![n].next = @ + 1]
        /\ UNCHANGED aborted
    BY <1>3 DEF CallHandler, It
  <2>2. /\ lookup[n] \in {"resolved", "failed"} /\ lookup[n] # "working"
        /\ Typed /\ Bounded(n) /\ Started(n) /\ CallsOwn(n) /\ FindsOwn(n)
    BY <1>1, Runs DEF Started
  <2>3. /\ k \in Nat \ {0} /\ j \in Nat \ {0} /\ thread[n].end \in Nat /\ thread[n].stop \in Nat
        /\ result \in Results
    BY <2>2, ThreadType
  <2>4. /\ k \in DOMAIN requests /\ k <= thread[n].end
        /\ requests[k].hostname = n
        /\ thread[n].stop <= Len(requests[k].handlers)
        /\ result = IF lookup[n] = "resolved" THEN n ELSE "failed"
    BY <1>1, <2>2, <2>3 DEF CallsOwn, Bounded, It, Typed
  <2>5. /\ Element(k) /\ Waiting(k) /\ requests[k].handlers \in Seq(Handlers)
        /\ n \notin Literals
    BY <2>2, <2>4, ElementType DEF IInv, Element
  <2>6. j \in DOMAIN requests[k].handlers
    BY <1>1, <2>3, <2>4, <2>5
  <2>7. f \in Handlers /\ f \in DOMAIN asked /\ asked[f] = n
    BY <2>2, <2>4, <2>5, <2>6, ElementType DEF Waiting
  <2>8. heard[f] = << >>
    <3>1. ~Passed(thread[n], k, j)
      BY <1>1, <2>3 DEF Passed
    <3> QED BY <2>4, <2>5, <2>6, <3>1 DEF Waiting
  <2>9. PICK answer \in Seq(Results) : answer = <<result>>
    <3>1. <<result>> \in Seq(Results)
      BY <2>3
    <3> QED BY <3>1, Zenon
  <2>10. Len(answer) = 1 /\ DOMAIN answer = {1} /\ answer[1] = result
    BY <2>9
  <2>11. /\ heard' \in [Handlers -> Seq(Results)] /\ heard'[f] = answer
         /\ \A g \in Handlers \ {f} : heard'[g] = heard[g]
    <3>1. Append(heard[f], result) = answer
      BY <2>8, <2>9
    <3>2. heard' = [heard EXCEPT ![f] = answer]
      BY <2>1, <3>1
    <3> QED BY <2>2, <2>7, <3>2 DEF Typed
  <2>12. /\ Others(n)
         /\ thread'[n].next = j + 1
         /\ thread'[n].at = "handlers" /\ thread'[n].ptr = thread[n].ptr
         /\ thread'[n].entry = k /\ thread'[n].end = thread[n].end
         /\ thread'[n].stop = thread[n].stop /\ thread'[n].result = result
    BY <1>1, <2>1, <2>2, PassIs
  <2> HIDE DEF k, j, f, result
  <2>13. Typed'
    BY <1>1, <2>1, <2>2, <2>11, <2>12 DEF Typed, Others
  <2>14. ASSUME NEW m \in Hosts
         PROVE  Bounded(m)' /\ Started(m)' /\ CallsOwn(m)' /\ FindsOwn(m)'
    <3>1. Bounded(m) /\ Started(m) /\ CallsOwn(m) /\ FindsOwn(m)
      BY DEF IInv
    <3>2. CASE m = n
      <4>1. Bounded(m)'
        BY <1>1, <2>2, <2>3, <2>12, <3>2 DEF Bounded, k, j
      <4>2. Started(m)' /\ FindsOwn(m)'
        BY <1>1, <2>2, <2>12, <3>2 DEF Started, FindsOwn
      <4>3. CallsOwn(m)'
        BY <1>1, <2>4, <2>12, <3>2 DEF CallsOwn, It
      <4> QED BY <4>1, <4>2, <4>3
    <3>3. CASE m # n
      <4>1. thread'[m] = thread[m]
        BY <2>12, <3>3 DEF Others
      <4> QED BY <1>1, <3>1, <4>1 DEF Bounded, Started, CallsOwn, FindsOwn, It
    <3> QED BY <3>2, <3>3
  <2>15. ASSUME NEW i \in DOMAIN requests'
         PROVE  Element(i)' /\ Waiting(i)'
    <3>1. /\ i \in DOMAIN requests /\ Element(i) /\ Waiting(i)
          /\ requests[i].hostname \in Hosts
          /\ \A l \in DOMAIN requests[i].handlers : requests[i].handlers[l] \in Handlers
      BY <1>1, <2>2, <2>15, ElementType DEF IInv
    <3>2. Element(i)'
      BY <1>1, <3>1 DEF Element
    <3>3. \A l \in DOMAIN requests[i].handlers :
             Passed(thread[requests[i].hostname], i, l) => Passed(thread'[requests[i].hostname], i, l)
      <4>1. CASE requests[i].hostname = n
        <5>1. i = k
          BY <2>4, <3>1, <4>1 DEF IInv, OneEach
        <5>2. \A l \in DOMAIN requests[i].handlers : l \in Nat
          BY <2>5, <5>1
        <5> QED BY <1>1, <2>3, <2>12, <4>1, <5>1, <5>2 DEF Passed, k, j
      <4>2. CASE requests[i].hostname # n
        BY <2>12, <3>1, <4>2 DEF Others, Passed
      <4> QED BY <4>1, <4>2
    <3>4. ASSUME NEW l \in DOMAIN requests[i].handlers, heard'[requests[i].handlers[l]] # << >>
          PROVE  Passed(thread'[requests[i].hostname], i, l)
      <4>1. CASE requests[i].handlers[l] = f
        <5>1. requests[i].hostname = n
          BY <2>7, <3>1, <4>1 DEF Waiting
        <5>2. i = k
          BY <2>4, <3>1, <5>1 DEF IInv, OneEach
        <5>3. l = j
          BY <2>5, <2>6, <4>1, <5>2 DEF Waiting, f
        <5> QED BY <2>3, <2>12, <5>1, <5>2, <5>3 DEF Passed
      <4>2. CASE requests[i].handlers[l] # f
        <5>1. heard[requests[i].handlers[l]] # << >>
          BY <2>11, <3>1, <3>4, <4>2
        <5> QED BY <3>1, <3>3, <5>1 DEF Waiting
      <4> QED BY <4>1, <4>2
    <3>5. Waiting(i)'
      BY <1>1, <3>1, <3>4, WaitingNext DEF Waiting
    <3> QED BY <3>2, <3>5
  <2>16. OneEach' /\ Requested'
    BY <1>1 DEF IInv, OneEach, Requested
  <2>17. WorkedOn'
    BY <1>1, <2>2, <2>12 DEF IInv, WorkedOn, Others
  <2>18. Unasked' /\ AnsweredOnce'
    <3>1. Unasked'
      BY <1>1, <2>7, <2>11 DEF IInv, Unasked
    <3>2. ASSUME NEW g \in Handlers
          PROVE  Len(heard'[g]) <= 1
      <4>1. CASE g = f
        <5>1. Len(heard'[g]) = Len(answer)
          BY <2>11, <4>1, Zenon
        <5>2. Len(answer) <= 1
          BY <2>10
        <5> QED BY <5>1, <5>2, Zenon
      <4>2. CASE g # f
        <5>1. heard'[g] = heard[g]
          BY <2>11, <3>2, <4>2
        <5> QED BY <3>2, <5>1 DEF IInv, AnsweredOnce
      <4> QED BY <4>1, <4>2
    <3> QED BY <3>1, <3>2 DEF AnsweredOnce
  <2>19. AnswersOwnHost'
    <3>1. ASSUME NEW g \in Handlers, NEW i \in DOMAIN heard'[g]
          PROVE  /\ g \in DOMAIN asked
                 /\ \/ heard'[g][i] = asked[g] /\ (asked[g] \in Literals \/ lookup[asked[g]] = "resolved")
                    \/ heard'[g][i] = "failed" /\ asked[g] \notin Literals /\ lookup[asked[g]] = "failed"
      <4>1. CASE g = f
        BY <2>2, <2>4, <2>5, <2>7, <2>10, <2>11, <3>1, <4>1
      <4>2. CASE g # f
        <5>1. heard'[g] = heard[g]
          BY <2>11, <3>1, <4>2
        <5> QED BY <3>1, <5>1 DEF IInv, AnswersOwnHost
      <4> QED BY <4>1, <4>2
    <3> QED BY <1>1, <3>1 DEF AnswersOwnHost
  <2> QED BY <2>13, <2>14, <2>15, <2>16, <2>17, <2>18, <2>19 DEF IInv
<1> QED BY <1>2, <1>3

-----------------------------------------------------------------------------
(* The invariant holds.                                                    *)

\* It holds at first.
LEMMA InitIInv == Init => IInv
<1> SUFFICES ASSUME Init PROVE IInv
  OBVIOUS
<1>1. /\ requests = << >> /\ asked = << >>
      /\ thread = [n \in Hosts |-> Idle]
      /\ heard = [f \in Handlers |-> << >>]
      /\ lookup = [n \in Hosts |-> "none"]
  BY DEF Init, requests
<1>2. DOMAIN requests = {} /\ DOMAIN asked = {} /\ Len(requests) = 0 /\ Len(asked) = 0
  BY <1>1
<1>3. Typed
  <2>1. thread \in [Hosts -> ThreadStates]
    BY <1>1, IdleIs
  <2>2. /\ requests \in Seq(RequestInfo) /\ asked \in Seq(Hosts)
        /\ heard \in [Handlers -> Seq(Results)]
    BY <1>1
  <2>3. Len(asked) <= MaxCalls
    BY <1>2, ResolverAssumption
  <2>4. /\ allocated \subseteq Gaicbs /\ aborted \in {"no", "crash"}
        /\ ar_result \in [Gaicbs -> Hosts \cup {NULL}]
    BY DEF Init
  <2>5. lookup \in [Hosts -> {"none", "refused", "working", "resolved", "failed"}]
    BY <1>1
  <2> QED BY <2>1, <2>2, <2>3, <2>4, <2>5 DEF Typed
<1>4. ASSUME NEW n \in Hosts
      PROVE  Bounded(n) /\ Started(n) /\ CallsOwn(n) /\ FindsOwn(n)
  <2>1. thread[n] = Idle /\ Idle.at = "none"
    BY <1>1 DEF Idle
  <2>2. Bounded(n)
    BY <1>2, <2>1, IdleIs DEF Bounded
  <2> QED BY <2>1, <2>2 DEF Started, CallsOwn, FindsOwn
<1>5. \A f \in Handlers : heard[f] = << >> /\ Len(heard[f]) = 0 /\ DOMAIN heard[f] = {}
  BY <1>1
<1>6. AnsweredOnce /\ AnswersOwnHost /\ Unasked
  BY <1>5 DEF AnsweredOnce, AnswersOwnHost, Unasked
<1>7. OneEach
  BY <1>2 DEF OneEach
<1>8. WorkedOn /\ Requested
  BY <1>1 DEF WorkedOn, Requested
<1> QED BY <1>2, <1>3, <1>4, <1>6, <1>7, <1>8 DEF IInv

\* It is kept by every step.
LEMMA NextIInv == IInv /\ [Next]_vars => IInv'
<1> SUFFICES ASSUME IInv, [Next]_vars PROVE IInv'
  OBVIOUS
<1>1. CASE UNCHANGED vars
  <2>1. Typed'
    BY <1>1 DEF IInv, Typed, vars, requests
  <2>2. \A n \in Hosts : Bounded(n)' /\ Started(n)' /\ CallsOwn(n)' /\ FindsOwn(n)'
    BY <1>1 DEF IInv, Bounded, Started, CallsOwn, FindsOwn, It, vars, requests
  <2>3. \A i \in DOMAIN requests' : Element(i)' /\ Waiting(i)'
    BY <1>1 DEF IInv, Element, Waiting, Passed, vars, requests
  <2>4. OneEach' /\ Requested' /\ WorkedOn' /\ Unasked' /\ AnsweredOnce' /\ AnswersOwnHost'
    BY <1>1 DEF IInv, OneEach, Requested, WorkedOn, Unasked, AnsweredOnce, AnswersOwnHost, vars, requests
  <2> QED BY <2>1, <2>2, <2>3, <2>4 DEF IInv
<1>2. ASSUME NEW n \in Hosts, NEW f \in Handlers, resolve_hostname(f, n)
      PROVE  IInv'
  BY <1>2, LiteralStep, DuplicateStep, FirstStep DEF resolve_hostname
<1>3. ASSUME NEW n \in Hosts, LookupEnds(n)
      PROVE  IInv'
  BY <1>3, LookupEndsStep
<1>4. ASSUME NEW n \in Hosts, trigger_hostname_resolve_callbacks(n)
      PROVE  IInv'
  <2>1. CASE SkipEntry(n)
    BY <2>1, NextEntryStep DEF SkipEntry, Looping, requests
  <2>2. CASE ReadMovedEntry(n)
    BY <2>2, NextEntryStep, CrashStep DEF ReadMovedEntry, Looping, requests
  <2>3. CASE AnswerFailed(n)
    BY <2>3, AnswerFailedStep
  <2>4. CASE AnswerResolved(n)
    BY <2>4, AnswerResolvedStep
  <2>5. CASE CallHandler(n)
    BY <2>5, CallHandlerStep
  <2>6. CASE HandlersCalled(n)
    <3>1. thread[n].at = "handlers" /\ NextEntry(n)
      BY <2>6 DEF HandlersCalled, Calling
    <3>2. thread[n].entry <= thread[n].end
      BY <3>1 DEF IInv, CallsOwn
    <3> QED BY <2>6, <3>1, <3>2, NextEntryStep DEF HandlersCalled, requests
  <2>7. CASE ThreadEnds(n)
    BY <2>7, ThreadEndsStep
  <2> QED BY <1>4, <2>1, <2>2, <2>3, <2>4, <2>5, <2>6, <2>7 DEF trigger_hostname_resolve_callbacks
<1> QED BY <1>1, <1>2, <1>3, <1>4 DEF Next

\* Each name has one element at most and each request one; a thread that walks the
\* vector finds under the address of its request the element of its own name, and has
\* called of its handlers those before its position.
THEOREM ResolverInvariant == Spec => []IInv
<1>1. Init => IInv
  BY InitIInv
<1>2. IInv /\ [Next]_vars => IInv'
  BY NextIInv
<1> QED BY <1>1, <1>2, PTL DEF Spec

\* The fields of the resolver keep their types, and a loop the bounds it began with.
THEOREM ResolverTypes == Spec => []TypeOK
<1>1. IInv => TypeOK
  <2> SUFFICES ASSUME IInv PROVE TypeOK
    OBVIOUS
  <2>1. Typed
    BY DEF IInv
  <2>2. Len(requests) \in Nat
    BY <2>1 DEF Typed
  <2>3. ASSUME NEW n \in Hosts
        PROVE  /\ thread[n].at \in {"none", "loop", "handlers", "ended"}
               /\ thread[n].ptr \in Gaicbs \cup {NULL}
               /\ thread[n].result \in Results
               /\ thread[n].end \in 0 .. Len(requests) /\ thread[n].entry \in 1 .. thread[n].end + 1
               /\ thread[n].stop \in Nat /\ thread[n].next \in 1 .. thread[n].stop + 1
    BY <2>1, <2>2, ThreadType DEF IInv, Bounded
  <2> QED BY <2>1, <2>3 DEF TypeOK, Typed
<1> QED BY <1>1, ResolverInvariant, PTL

\* No handler of resolve_hostname is called twice, although the address of a freed
\* request may be that of a new one while a thread walks the vector.
THEOREM HandlersCalledOnce == Spec => []AnsweredOnce
<1>1. IInv => AnsweredOnce
  BY DEF IInv
<1> QED BY <1>1, ResolverInvariant, PTL

\* A handler hears what the lookup of its own name brought, after that lookup ended.
THEOREM HandlersHearOwn == Spec => []AnswersOwnHost
<1>1. IInv => AnswersOwnHost
  BY DEF IInv
<1> QED BY <1>1, ResolverInvariant, PTL

\* A request in the vector exists and has one element; the one glibc works on is there
\* to be found when its lookup ends.
THEOREM RequestsOwned == Spec => []RequestsUnshared
<1>1. IInv => RequestsUnshared
  BY DEF IInv, RequestsUnshared, OneEach, WorkedOn, Element
<1> QED BY <1>1, ResolverInvariant, PTL
=============================================================================
