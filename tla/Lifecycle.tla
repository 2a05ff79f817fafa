------------------------------- MODULE Lifecycle -------------------------------
(***************************************************************************)
(* Loading and unloading the module: mod_init and mod_exit of              *)
(* firewall_module/mod_install.c with netlink_init and netlink_release     *)
(* (netlink_k.c), conn_init, conn_exit and the timer callback (connect.c), *)
(* against what else runs meanwhile: packets that enter the registered     *)
(* hooks, clients that talk to the netlink socket, the timer.              *)
(*                                                                         *)
(* The kernel's part, as mod_install.c uses it: text is freed only when no *)
(* packet is in a hook (hooks run under RCU and freeing waits for readers) *)
(* and between two rounds of the timer, which are CONN_ROLL_INTERVAL       *)
(* apart; a client's open socket holds a reference to the module, without  *)
(* which rmmod starts and after which no socket opens; del_timer does not  *)
(* wait for a callback that is running.                                    *)
(***************************************************************************)
EXTENDS Integers, FiniteSets, Sequences

CONSTANTS
    Packet,    \* contexts that packets come in
    Client,    \* client processes
    MayFail    \* may the allocation of the table fail?

ASSUME LifecycleAssumption == MayFail \in BOOLEAN

VARIABLES
    step,      \* what mod_init or mod_exit does next
    hooked,    \* the registered hooks
    sock,      \* nlsock exists
    table,     \* ctable is not NULL
    timer,     \* conn_timer is pending
    callback,  \* where conn_timer_callback is
    inHook,    \* the hook each packet is in
    client,    \* where each client is
    stray,     \* a timer is pending whose text is gone
    fault,     \* the fault that stopped the machine, and who ran into it
    failed,    \* the table could not be allocated (history)
    caught     \* some conn_exit met a running callback (history)

lifeVars == <<step, hooked, sock, table, timer, callback, inHook, client, stray, fault, failed, caught>>

\* In the order in which mod_init registers and mod_exit unregisters them.
Hooks == <<"nfop_in", "nfop_out", "natop_in">>

HookNames == {Hooks[i] : i \in 1..3}

Loading == {"register", "netlink_init", "conn_init", "add_timer"}

Unloading == {"unregister", "netlink_release", "conn_exit", "free"}

NoFault == <<"none", "nobody">>

LifeInit ==
    /\ step = "gone" /\ hooked = {} /\ sock = FALSE /\ table = FALSE
    /\ timer = FALSE /\ callback = "idle"
    /\ inHook = [p \in Packet |-> "none"]
    /\ client = [u \in Client |-> "closed"]
    /\ stray = FALSE /\ fault = NoFault /\ failed = FALSE /\ caught = FALSE

--------------------------------------------------------------------------------
(* mod_init *)

\* insmod: text and data are fresh.
Insmod ==
    /\ step = "gone"
    /\ step' = "register" /\ table' = FALSE /\ failed' = FALSE
    /\ UNCHANGED <<hooked, sock, timer, callback, inHook, client, stray, fault, caught>>

Register ==
    /\ step = "register"
    /\ \E i \in 1..3 :
           /\ hooked = {Hooks[j] : j \in 1..(i - 1)}
           /\ hooked' = hooked \cup {Hooks[i]}
           /\ step' = IF i = 3 THEN "netlink_init" ELSE step
    /\ UNCHANGED <<sock, table, timer, callback, inHook, client, stray, fault, failed, caught>>

\* mod_init goes on without a socket if there is none to be had.
NetlinkInit ==
    /\ step = "netlink_init"
    /\ sock' \in {TRUE, ~MayFail}
    /\ step' = "conn_init"
    /\ UNCHANGED <<hooked, table, timer, callback, inHook, client, stray, fault, failed, caught>>

\* myhash_create, whose result conn_init does not look at.
ConnInit ==
    /\ step = "conn_init"
    /\ table' \in {TRUE, ~MayFail}
    /\ failed' = ~table'
    /\ step' = "add_timer"
    /\ UNCHANGED <<hooked, sock, timer, callback, inHook, client, stray, fault, caught>>

AddTimer ==
    /\ step = "add_timer"
    /\ timer' = TRUE
    /\ step' = "up"
    /\ UNCHANGED <<hooked, sock, table, callback, inHook, client, stray, fault, failed, caught>>

--------------------------------------------------------------------------------
(* mod_exit *)

\* rmmod starts when nobody holds a reference.
Rmmod ==
    /\ step = "up" /\ \A u \in Client : client[u] = "closed"
    /\ step' = "unregister"
    /\ UNCHANGED <<hooked, sock, table, timer, callback, inHook, client, stray, fault, failed, caught>>

\* Slip: the last hook stays, as natop_out's two lines are commented out.
UnregisterTwo ==
    /\ step = "unregister"
    /\ \E i \in 1..2 :
           /\ hooked = {Hooks[j] : j \in i..3}
           /\ hooked' = hooked \ {Hooks[i]}
           /\ step' = IF i = 2 THEN "netlink_release" ELSE step
    /\ UNCHANGED <<sock, table, timer, callback, inHook, client, stray, fault, failed, caught>>

Unregister ==
    /\ step = "unregister"
    /\ \E i \in 1..3 :
           /\ hooked = {Hooks[j] : j \in i..3}
           /\ hooked' = hooked \ {Hooks[i]}
           /\ step' = IF i = 3 THEN "netlink_release" ELSE step
    /\ UNCHANGED <<sock, table, timer, callback, inHook, client, stray, fault, failed, caught>>

\* netlink_release; a NULL socket is skipped.
NetlinkRelease ==
    /\ step = "netlink_release"
    /\ sock' = FALSE
    /\ step' = "conn_exit"
    /\ UNCHANGED <<hooked, table, timer, callback, inHook, client, stray, fault, failed, caught>>

\* Slip: the timer is left alone.
ConnExitNothing ==
    /\ step = "conn_exit"
    /\ step' = "free"
    /\ caught' = (caught \/ callback # "idle")
    /\ UNCHANGED <<hooked, sock, table, timer, callback, inHook, client, stray, fault, failed>>

\* Slip: the table is freed under a callback that is still running.
ConnExitFreesTable ==
    /\ step = "conn_exit"
    /\ timer' = FALSE /\ table' = FALSE
    /\ caught' = (caught \/ callback # "idle")
    /\ step' = "free"
    /\ UNCHANGED <<hooked, sock, callback, inHook, client, stray, fault, failed>>

\* conn_exit: del_timer takes a pending timer out and leaves a running callback alone.
ConnExit ==
    /\ step = "conn_exit"
    /\ timer' = FALSE
    /\ caught' = (caught \/ callback # "idle")
    /\ step' = "free"
    /\ UNCHANGED <<hooked, sock, table, callback, inHook, client, stray, fault, failed>>

\* The kernel frees the text; the table and what is in it are never freed.
Free ==
    /\ step = "free"
    /\ \A p \in Packet : inHook[p] = "none"
    /\ callback = "idle"
    /\ step' = "gone"
    /\ stray' = (stray \/ timer) /\ timer' = FALSE
    /\ UNCHANGED <<hooked, sock, table, callback, inHook, client, fault, failed, caught>>

--------------------------------------------------------------------------------
(* The others *)

\* A packet comes by a registered hook.
EnterHook(p) ==
    /\ inHook[p] = "none"
    /\ \E h \in hooked : inHook' = [inHook EXCEPT ![p] = h]
    /\ UNCHANGED <<step, hooked, sock, table, timer, callback, client, stray, fault, failed, caught>>

\* Both hooks look the packet up first: myhash_find reads through ctable.
LeaveHook(p) ==
    /\ inHook[p] # "none"
    /\ IF table
       THEN inHook' = [inHook EXCEPT ![p] = "none"] /\ fault' = fault
       ELSE inHook' = inHook /\ fault' = <<"no table", "packet">>
    /\ UNCHANGED <<step, hooked, sock, table, timer, callback, client, stray, failed, caught>>

\* user2kernel opens its socket.
OpenSocket(u) ==
    /\ client[u] = "closed" /\ sock /\ step \notin Unloading
    /\ client' = [client EXCEPT ![u] = "open"]
    /\ UNCHANGED <<step, hooked, sock, table, timer, callback, inHook, stray, fault, failed, caught>>

\* A request.  Those for rules, NAT rules and logs can do without the table; the list
\* of connections and every erase read through it.
Request(u) ==
    /\ client[u] = "open"
    /\ \E touchesTable \in BOOLEAN :
           IF touchesTable /\ ~table
           THEN client' = client /\ fault' = <<"no table", "request">>
           ELSE client' = [client EXCEPT ![u] = "done"] /\ fault' = fault
    /\ UNCHANGED <<step, hooked, sock, table, timer, callback, inHook, stray, failed, caught>>

CloseSocket(u) ==
    /\ client[u] \in {"open", "done"}
    /\ client' = [client EXCEPT ![u] = "closed"]
    /\ UNCHANGED <<step, hooked, sock, table, timer, callback, inHook, stray, fault, failed, caught>>

\* Slip: the timer is taken for a periodic one.
TimerFiresAgain ==
    /\ timer /\ callback = "idle"
    /\ callback' = "sweep"
    /\ UNCHANGED <<step, hooked, sock, table, timer, inHook, client, stray, fault, failed, caught>>

\* The timer fires.
TimerFires ==
    /\ timer /\ callback = "idle"
    /\ timer' = FALSE /\ callback' = "sweep"
    /\ UNCHANGED <<step, hooked, sock, table, inHook, client, stray, fault, failed, caught>>

\* updateConn.
Sweep ==
    /\ callback = "sweep"
    /\ IF table
       THEN callback' = "rearm" /\ fault' = fault
       ELSE callback' = callback /\ fault' = <<"no table", "timer">>
    /\ UNCHANGED <<step, hooked, sock, table, timer, inHook, client, stray, failed, caught>>

\* Slip: a one-shot timer.
RearmNot ==
    /\ callback = "rearm"
    /\ callback' = "idle"
    /\ UNCHANGED <<step, hooked, sock, table, timer, inHook, client, stray, fault, failed, caught>>

\* mod_timer, whatever conn_exit did meanwhile.
Rearm ==
    /\ callback = "rearm"
    /\ callback' = "idle" /\ timer' = TRUE
    /\ UNCHANGED <<step, hooked, sock, table, inHook, client, stray, fault, failed, caught>>

\* A timer fires whose struct and callback were freed with the module.
StrayFires ==
    /\ stray
    /\ fault' = <<"no text", "timer">>
    /\ UNCHANGED <<step, hooked, sock, table, timer, callback, inHook, client, stray, failed, caught>>

Load == Insmod \/ Register \/ NetlinkInit \/ ConnInit \/ AddTimer

Unload == Unregister \/ NetlinkRelease \/ ConnExit \/ Free

Callback == Sweep \/ Rearm

LifeNext ==
    /\ fault = NoFault
    /\ \/ Load \/ Rmmod \/ Unload
       \/ \E p \in Packet : EnterHook(p) \/ LeaveHook(p)
       \/ \E u \in Client : OpenSocket(u) \/ Request(u) \/ CloseSocket(u)
       \/ TimerFires \/ Callback \/ StrayFires

LifeSpec == LifeInit /\ [][LifeNext]_lifeVars

Alive(A) == fault = NoFault /\ A

\* Kernel code that has begun goes on, and the wait for readers that precedes Free
\* ends between two rounds of a timer that was armed again.  Nobody has to send
\* packets or requests, and nobody has to close a socket.
LifeFairSpec ==
    /\ LifeSpec
    /\ WF_lifeVars(Alive(Unregister \/ NetlinkRelease \/ ConnExit))
    /\ SF_lifeVars(Alive(Free))
    /\ WF_lifeVars(Alive(Callback))
    /\ \A p \in Packet : WF_lifeVars(Alive(LeaveHook(p)))

--------------------------------------------------------------------------------
\* Every variable has its type, and the timer is never pending while its callback runs.
LifeTypeOK ==
    /\ step \in Loading \cup Unloading \cup {"up", "gone"}
    /\ hooked \subseteq HookNames
    /\ sock \in BOOLEAN /\ table \in BOOLEAN /\ timer \in BOOLEAN
    /\ callback \in {"idle", "sweep", "rearm"} /\ (timer => callback = "idle")
    /\ inHook \in [Packet -> HookNames \cup {"none"}]
    /\ client \in [Client -> {"closed", "open", "done"}]
    /\ stray \in BOOLEAN /\ failed \in BOOLEAN /\ caught \in BOOLEAN
    /\ fault \in {NoFault, <<"no text", "timer">>}
                 \cup {<<"no table", w>> : w \in {"packet", "request", "timer"}}

\* Whoever reads through a NULL ctable does so before conn_init has created it, in the
\* window that mod_install.c:31-36 opens by registering the hooks and the socket first,
\* or because the allocation failed (connect.c:129); the timer, started last, only in
\* the second case.
NoTableExplained ==
    fault[1] = "no table" =>
        \/ failed
        \/ fault[2] # "timer" /\ step \in {"register", "netlink_init", "conn_init"}

\* Nothing outlives the module's text but the timer, and that only if a conn_exit met
\* the callback running (connect.c:144 against :124).
OnlyTheCallbackOutlives ==
    /\ step = "gone" => /\ hooked = {} /\ ~sock /\ ~timer /\ callback = "idle"
                        /\ \A p \in Packet : inHook[p] = "none"
                        /\ \A u \in Client : client[u] = "closed"
    /\ step = "free" /\ (timer \/ callback # "idle") => caught
    /\ stray => caught

\* While the module is up the sweeps of the pool go on: the timer is pending or its
\* callback is about to arm it (connect.c:124, :138).
SweepsGoOn == step = "up" => timer \/ callback # "idle"

\* An unload that has begun ends, however many packets are in the hooks
\* (mod_install.c:42-47).
UnloadEnds == step = "unregister" ~> step = "gone" \/ fault # NoFault
================================================================================
