--------------------------- MODULE NetworkAdapter ---------------------------
(***************************************************************************)
(* The NetworkAdapter of src/IOUringInterface.cpp: init waits until its    *)
(* interface has an IPv4 address, tunes it and asks for the name of the    *)
(* host.  Meanwhile the interface gets and loses addresses.                *)
(***************************************************************************)
EXTENDS IPAddress, Sequences, FiniteSetsExt

CONSTANTS
    Interface,      \* m_interface_name
    Answers         \* what getifaddrs may say: sequences of addresses

Entry(name, family, addr) == [ifa_name |-> name, family |-> family, addr |-> addr]

ASSUME AdapterAssumption ==
    \A answer \in Answers :
       /\ answer \in Seq({answer[i] : i \in DOMAIN answer})
       /\ \A i \in DOMAIN answer :
             answer[i] = Entry(answer[i].ifa_name, answer[i].family, answer[i].addr)

\* The commands of tune set tx-usecs, rx-usecs, rx-frames and tx-frames.
Commands == 4

VARIABLES
    adapter,        \* the members of the adapter, and how far init is
    interfaces      \* what getifaddrs would say now

adapterVars == <<adapter, interfaces>>

\* told is for the properties: the last answer.
AdapterInit ==
    /\ \E m_tune \in BOOLEAN :
          adapter = [at |-> "asking", m_tune |-> m_tune, m_interface_ip4 |-> NULL,
                     m_interface_ip6 |-> NULL, m_hostname |-> FALSE, commands |-> 0,
                     told |-> << >>]
    /\ interfaces \in Answers

AdapterReady == adapter.at = "ready"
AdapterAborted == adapter.at = "aborted"

Reconfigure ==
    /\ adapter.at = "asking"
    /\ interfaces' \in Answers
    /\ UNCHANGED adapter

Abort == adapter' = [adapter EXCEPT !.at = "aborted"]

\* Mutant: the addresses of all interfaces are looked at.
MineByFamily(answer, family) == {i \in DOMAIN answer : answer[i].family = family}

\* Where an answer has the addresses of a family that try_get_interface_ip does
\* not skip.
Mine(answer, family) ==
    {i \in DOMAIN answer : answer[i].ifa_name = Interface /\ answer[i].family = family}

\* Each is stored over the one before.
Stored(old, answer, family) ==
    IF Mine(answer, family) = {} THEN old ELSE answer[Max(Mine(answer, family))].addr

\* Mutant: the loop asks once.
AsksOnce ==
    /\ adapter.at = "asking" /\ adapter.told = << >>
    /\ adapter' = [adapter EXCEPT
          !.m_interface_ip4 = Stored(@, interfaces, "AF_INET"),
          !.told = interfaces]
    /\ UNCHANGED interfaces

\* One turn of the loop of retrieve_interface_ip, with the second it sleeps.
try_get_interface_ip ==
    /\ adapter.at = "asking"
    /\ adapter.m_interface_ip4 = NULL
    /\ \/ Abort
       \/ adapter' = [adapter EXCEPT
             !.m_interface_ip4 = Stored(@, interfaces, "AF_INET"),
             !.m_interface_ip6 = Stored(@, interfaces, "AF_INET6"),
             !.told = interfaces]
    /\ UNCHANGED interfaces

\* The loop ends; tune does nothing unless it was asked for.  Bound: what the
\* interface has is not followed any further, as nothing asks again.
retrieved ==
    /\ adapter.at = "asking"
    /\ adapter.m_interface_ip4 # NULL
    /\ adapter' = [adapter EXCEPT !.at = IF adapter.m_tune THEN "tuning" ELSE "naming"]
    /\ interfaces' = << >>

\* A command of tune: only the first may fail.
tune ==
    /\ adapter.at = "tuning"
    /\ \/ adapter' = [adapter EXCEPT
             !.commands = @ + 1,
             !.at = IF adapter.commands + 1 = Commands THEN "naming" ELSE "tuning"]
       \/ adapter.commands > 0 /\ Abort
    /\ UNCHANGED interfaces

get_hostname ==
    /\ adapter.at = "naming"
    /\ \/ Abort
       \/ adapter' = [adapter EXCEPT !.at = "ready", !.m_hostname = TRUE]
    /\ UNCHANGED interfaces

AdapterStep == try_get_interface_ip \/ retrieved \/ tune \/ get_hostname

-----------------------------------------------------------------------------
(* Properties.                                                             *)

\* An address the adapter has is one its own interface had when it was asked,
\* never that of another interface of the machine; a later turn of the loop may
\* only replace it by a newer one.
AddressIsOwn ==
    adapter.m_interface_ip4 # NULL =>
       \E i \in DOMAIN adapter.told : adapter.told[i] =
          Entry(Interface, "AF_INET", adapter.m_interface_ip4)

\* Once the interface keeps an IPv4 address the wait of init ends, although the
\* addresses came and went before.
HasIPv4 == Mine(interfaces, "AF_INET") # {}
WaitEnds == <>[]HasIPv4 => <>(adapter.at # "asking")
=============================================================================
