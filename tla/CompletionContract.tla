------------------------ MODULE CompletionContract ------------------------
(***************************************************************************)
(* What a user of the ring relies on, one request at a time: a callback    *)
(* runs only for an item whose own request has completed, once for each    *)
(* completion, one callback at a time; an item that was released hears     *)
(* nothing more.  A connect or a send may be given up after a failure      *)
(* without its callback (that is what the code does).                      *)
(***************************************************************************)
EXTENDS Naturals

CONSTANTS Items, NoKind, OnceKinds, RepeatKinds, StreamingKinds

VARIABLES
    kind,   \* kind[k]: what item k asks for, NoKind before it is submitted
    phase,  \* phase[k]: idle, held by its user, pending, or calling
    done    \* done[k]: completions of k's request not yet passed on

Kinds == OnceKinds \cup RepeatKinds \cup StreamingKinds
contractVars == <<kind, phase, done>>

Init ==
    /\ kind = [k \in Items |-> NoKind]
    /\ phase = [k \in Items |-> "idle"]
    /\ done = [k \in Items |-> 0]

Acquire(k) ==
    /\ phase[k] = "idle" /\ done[k] = 0
    /\ phase' = [phase EXCEPT ![k] = "held"]
    /\ UNCHANGED <<kind, done>>

Submit(k, op) ==
    /\ phase[k] \in {"idle", "held"} /\ done[k] = 0
    /\ phase' = [phase EXCEPT ![k] = "pending"]
    /\ kind' = [kind EXCEPT ![k] = op]
    /\ UNCHANGED done

\* The operating system finishes k's request: only a streaming request goes on
\* completing before the previous completion was passed on.
Complete(k) ==
    /\ kind[k] # NoKind
    /\ kind[k] \notin StreamingKinds => phase[k] = "pending" /\ done[k] = 0
    /\ done' = [done EXCEPT ![k] = @ + 1]
    /\ UNCHANGED <<kind, phase>>

Call(k) ==
    /\ phase[k] = "pending" /\ done[k] > 0
    /\ \A j \in Items : phase[j] # "calling"
    /\ phase' = [phase EXCEPT ![k] = "calling"]
    /\ done' = [done EXCEPT ![k] = @ - 1]
    /\ UNCHANGED kind

Keep(k) ==
    /\ phase' = [phase EXCEPT ![k] = "pending"]
    /\ UNCHANGED kind

Forget(k) ==
    /\ phase' = [phase EXCEPT ![k] = "idle"]
    /\ kind' = [kind EXCEPT ![k] = NoKind]

\* The callback returns: a request made once is over, an accept goes on, and a
\* receive does what its callback says.
Return(k) ==
    /\ phase[k] = "calling"
    /\ \/ kind[k] \notin OnceKinds /\ Keep(k)
       \/ kind[k] # "ACCEPT" /\ Forget(k)
    /\ UNCHANGED done

\* A failed completion is consumed without a callback.
Fail(k) ==
    /\ phase[k] = "pending" /\ done[k] > 0
    /\ \A j \in Items : phase[j] # "calling"
    /\ done' = [done EXCEPT ![k] = @ - 1]
    /\ \/ kind[k] \in OnceKinds \ {"CLOSE"} /\ Forget(k)
       \/ kind[k] \notin OnceKinds /\ Keep(k)

Next ==
    \E k \in Items :
       \/ Acquire(k)
       \/ \E op \in Kinds : Submit(k, op)
       \/ Complete(k)
       \/ Call(k)
       \/ Return(k)
       \/ Fail(k)

Spec == Init /\ [][Next]_contractVars
=============================================================================
