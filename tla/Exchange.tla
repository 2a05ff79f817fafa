-------------------------------- MODULE Exchange --------------------------------
(***************************************************************************)
(* One request and its answer: user2kernel and processKernelAnswer on the  *)
(* client's side (userApp/netlink_u.c, display.c); nl_recv, nl_send,       *)
(* processUserRequest and kernel2user on the kernel's (netlink_k.c,        *)
(* userOp.c); and behind them the list of NAT rules (nat.c).  Of the other *)
(* parts, which other modules have, there are the locks that a request     *)
(* needs and the ways in which it dies.                                    *)
(*                                                                         *)
(* nl_recv runs inside the sendto of the client, in its process.  What a   *)
(* request does under its lock is one step; a lock whose holder died, or   *)
(* spins for another such lock, is lost, and all who want it spin.         *)
(***************************************************************************)
EXTENDS Layout, SequencesExt

CONSTANTS
    Client,    \* client processes; a process that ends makes room for the next
    Rule,      \* NAT rules
    Asks,      \* bound: the types of the requests that each client makes
    Words,     \* the sizes of a pointer of the builds
    MayFail    \* may an allocation, a socket, a delivery or a walk fail?

ASSUME ExchangeAssumption ==
    /\ Words \subseteq {4, 8}
    /\ MayFail \in BOOLEAN

VARIABLES
    word,      \* the size of a pointer
    pc,        \* where each client is
    req,       \* its request
    reply,     \* what processUserRequest formed for it
    inbox,     \* what its socket holds
    nats,      \* natRuleHead
    dead,      \* the locks that nobody will release any more
    leaked,    \* a dead process holds FWRuleLock as a reader
    seen,      \* the NAT rules each user was shown last, OutOfDate if the list was
               \* edited since (history)
    lost,      \* the client's request or its answer was lost on the way (history)
    oops       \* someone deleted row 0 of an empty list (history)

exchVars == <<word, pc, req, reply, inbox, nats, dead, leaked, seen, lost, oops>>

None == [type |-> "none"]

NATRequests == {"REQ_GETNATRules", "REQ_ADDNATRule", "REQ_DELNATRule"}

\* The edits of the filter rules, and the listings of the parts that are not here.
Edits == {"REQ_ADDFWRule", "REQ_DELFWRule"}

Listings == {"REQ_GETAllFWRules", "REQ_GETAllConns", "REQ_GETAllLogs"}

\* REQ_SETAction is the one to DROP; the one to ACCEPT only sends its message and is
\* "other", with the requests of no known type.
RequestTypes == NATRequests \cup Edits \cup Listings \cup {"REQ_SETAction", "other"}

Requests ==
    [type : RequestTypes \ {"REQ_DELNATRule"}] \cup
    [type : {"REQ_DELNATRule"}, count : 0..Cardinality(Rule)]

OutOfDate == <<"out of date">>

Message == [type |-> "RSP_MSG"]

OnlyHead(n) == [type |-> "RSP_Only_Head", arrayLen |-> n]

\* The listing of another part.
Listing == [type |-> "listing"]

LockNames == {"natRuleLock", "FWRuleLock", "connLock"}

ExchInit ==
    /\ word \in Words
    /\ pc = [c \in Client |-> "shell"]
    /\ req = [c \in Client |-> None] /\ reply = [c \in Client |-> None]
    /\ inbox = [c \in Client |-> None]
    /\ nats = <<>> /\ dead = {} /\ leaked = FALSE
    /\ seen = [c \in Client |-> <<>>] /\ lost = [c \in Client |-> FALSE]
    /\ oops = FALSE

--------------------------------------------------------------------------------
(* The client: user2kernel *)

\* socket, bind and malloc.  If one fails the client ends; so this action is where a
\* request starts that comes to something.
Open(c) ==
    /\ pc[c] = "shell"
    /\ \E r \in Requests : r.type \in Asks[c] /\ req' = [req EXCEPT ![c] = r]
    /\ pc' = [pc EXCEPT ![c] = "sendto"]
    /\ UNCHANGED <<word, reply, inbox, nats, dead, leaked, seen, lost, oops>>

\* nl_recv's test of the length.
Short == word \in ShortBuilds

\* sendto and nl_recv.  A sendto that fails answers -1, which the client takes for a
\* success; a request that is too short is dropped.
SendTo(c) ==
    /\ pc[c] = "sendto"
    /\ \/ /\ ~Short
          /\ pc' = [pc EXCEPT ![c] = "kernel"] /\ lost' = lost
       \/ /\ Short
          /\ pc' = [pc EXCEPT ![c] = "recvfrom"] /\ lost' = lost
       \/ /\ MayFail
          /\ pc' = [pc EXCEPT ![c] = "recvfrom"] /\ lost' = [lost EXCEPT ![c] = TRUE]
    /\ UNCHANGED <<word, req, reply, inbox, nats, dead, leaked, seen, oops>>

\* Slip: the socket's queue outlives the client.
EndsUndrained(c) ==
    /\ pc' = [pc EXCEPT ![c] = "shell"]
    /\ req' = [req EXCEPT ![c] = None] /\ reply' = [reply EXCEPT ![c] = None]
    /\ inbox' = inbox
    /\ lost' = [lost EXCEPT ![c] = FALSE]

\* The client is gone, its socket closed.
Ends(c) ==
    /\ pc' = [pc EXCEPT ![c] = "shell"]
    /\ req' = [req EXCEPT ![c] = None] /\ reply' = [reply EXCEPT ![c] = None]
    /\ inbox' = [inbox EXCEPT ![c] = None]
    /\ lost' = [lost EXCEPT ![c] = FALSE]

\* recvfrom and processKernelAnswer: a listing is shown.
Receive(c) ==
    /\ pc[c] = "recvfrom" /\ inbox[c] # None
    /\ IF inbox[c].type = "RSP_NATRules"
       THEN seen' = [seen EXCEPT ![c] = IF inbox[c].rows = nats THEN nats ELSE OutOfDate]
       ELSE seen' = seen
    /\ Ends(c)
    /\ UNCHANGED <<word, nats, dead, leaked, oops>>

\* A recvfrom that fails answers -1 and one that is too short cuts the answer; the client
\* takes both for a success and shows what is in its buffer, or dies of it.
Garbled(c) ==
    /\ pc[c] = "recvfrom" /\ MayFail
    /\ seen' \in {seen, [seen EXCEPT ![c] = OutOfDate]}
    /\ Ends(c)
    /\ UNCHANGED <<word, nats, dead, leaked, oops>>

\* The malloc for the answer, or the one behind recvfrom, fails: the client ends without
\* a word, whatever the kernel did.  Or the user kills a client that waits.
GivesUp(c) ==
    /\ pc[c] = "recvfrom" /\ (MayFail \/ inbox[c] = None)
    /\ Ends(c)
    /\ UNCHANGED <<word, nats, dead, leaked, seen, oops>>

--------------------------------------------------------------------------------
(* The kernel: processUserRequest *)

Answers(c, r) ==
    /\ pc' = [pc EXCEPT ![c] = "nl_send"]
    /\ reply' = [reply EXCEPT ![c] = r]

\* A request of that type that finds that lock to be had.  connLock is not even for who
\* would only read: the next packet waits to write, and all queue behind it.
Handles(c, type, lock) == pc[c] = "kernel" /\ req[c].type = type /\ lock \notin dead

\* An edit that gets FWRuleLock for writing: no dead process may have it, not even as a
\* reader.
WritesRules(c, type) == Handles(c, type, "FWRuleLock") /\ ~leaked

\* The listing of the filter rules that gets it for reading.  Behind a dead reader it does,
\* until somebody waits to write: who comes then queues behind them.
ReadsRules(c) ==
    /\ Handles(c, "REQ_GETAllFWRules", "FWRuleLock")
    /\ leaked => \A d \in Client : ~(pc[d] = "kernel" /\ req[d].type \in Edits)

\* The list is edited, and what users were shown of it is out of date.
NatsBecome(n) ==
    /\ nats' = n
    /\ seen' = [c \in Client |-> IF n = nats THEN seen[c] ELSE OutOfDate]

\* addNATRule, at the head; bound: the rules that are not in use, and if there is none a
\* request that is turned away.
AddNATRule(c) ==
    /\ Handles(c, "REQ_ADDNATRule", "natRuleLock")
    /\ \/ \E r \in Rule \ Range(nats) : NatsBecome(<<r>> \o nats)
       \/ Rule \subseteq Range(nats) /\ NatsBecome(nats)
    /\ Answers(c, Message)
    /\ UNCHANGED <<word, req, inbox, dead, leaked, lost, oops>>

\* Slip: the walk unlinks the rule it stands on.
RowEarly(num) == IF num = 0 THEN 1 ELSE num

\* The row that number num deletes, counted from 1: the walk compares num with the count
\* of the rule before it.
Row(num) == num + 1

\* deleteNATRule unlinks a row that is there.
Unlinks(c) ==
    /\ Handles(c, "REQ_DELNATRule", "natRuleLock")
    /\ LET i == Row(req[c].count)
       IN i \in DOMAIN nats /\ NatsBecome(RemoveAt(nats, i))

\* deleteNATRule for a row that is there.  All but the first erase connections.
DeleteNATRule(c) ==
    /\ Unlinks(c)
    /\ req[c].count # 0 => "connLock" \notin dead
    /\ Answers(c, OnlyHead(1))
    /\ UNCHANGED <<word, req, inbox, dead, leaked, lost, oops>>

\* Slip: the lock is not released.
DeleteNoneLocked(c) ==
    /\ Handles(c, "REQ_DELNATRule", "natRuleLock")
    /\ Row(req[c].count) \notin DOMAIN nats /\ req[c].count # 0
    /\ dead' = dead \cup {"natRuleLock"}
    /\ Answers(c, OnlyHead(0))
    /\ UNCHANGED <<word, req, inbox, nats, leaked, seen, lost, oops>>

\* deleteNATRule for a row that is not there.
DeleteNone(c) ==
    /\ Handles(c, "REQ_DELNATRule", "natRuleLock")
    /\ Row(req[c].count) \notin DOMAIN nats /\ req[c].count # 0
    /\ Answers(c, OnlyHead(0))
    /\ UNCHANGED <<word, req, inbox, nats, dead, leaked, seen, lost, oops>>

\* deleteNATRule(0) on an empty list reads through NULL: the client dies in the kernel
\* and the lock stays taken.
DeleteOops(c) ==
    /\ Handles(c, "REQ_DELNATRule", "natRuleLock") /\ req[c].count = 0 /\ nats = <<>>
    /\ dead' = dead \cup {"natRuleLock"} /\ oops' = TRUE
    /\ Ends(c)
    /\ UNCHANGED <<word, nats, leaked, seen>>

\* formAllNATRules
FormAllNATRules(c) ==
    /\ Handles(c, "REQ_GETNATRules", "natRuleLock")
    /\ Answers(c, [type |-> "RSP_NATRules", rows |-> nats])
    /\ UNCHANGED <<word, req, inbox, nats, dead, leaked, seen, lost, oops>>

\* What is answered with nothing changed that is modelled here: appendFWRules,
\* formAllFWRules, formAllConns, formAllLogItems, a removeFWRules that finds nothing or
\* can erase the connections of what it finds, a switch, an unknown request.
Served(c, a) ==
    \/ a = Message /\ \/ WritesRules(c, "REQ_ADDFWRule")
                      \/ pc[c] = "kernel" /\ req[c].type \in {"REQ_SETAction", "other"}
    \/ a = Listing /\ \/ ReadsRules(c) \/ Handles(c, "REQ_GETAllConns", "connLock")
                      \/ pc[c] = "kernel" /\ req[c].type = "REQ_GETAllLogs"
    \/ a = OnlyHead(0) /\ WritesRules(c, "REQ_DELFWRule")
    \/ a = OnlyHead(1) /\ WritesRules(c, "REQ_DELFWRule") /\ "connLock" \notin dead

Other(c) ==
    /\ \E a \in {Message, Listing, OnlyHead(0), OnlyHead(1)} : Served(c, a) /\ Answers(c, a)
    /\ UNCHANGED <<word, req, inbox, nats, dead, leaked, seen, lost, oops>>

\* An allocation fails, with nothing done: before the lock for an edit, under it for a
\* listing.
KernelFails(c) ==
    /\ MayFail
    /\ \/ /\ pc[c] = "kernel"
          /\ req[c].type \in Edits \cup {"REQ_ADDNATRule", "REQ_DELNATRule", "REQ_GETAllLogs"}
       \/ Handles(c, "REQ_GETNATRules", "natRuleLock")
       \/ ReadsRules(c)
       \/ Handles(c, "REQ_GETAllConns", "connLock")
    /\ Answers(c, Message)
    /\ UNCHANGED <<word, req, inbox, nats, dead, leaked, seen, lost, oops>>

--------------------------------------------------------------------------------
(* eraseConnRelated, and who dies in the kernel *)

\* An edit that goes on to erase connections, with its own lock held.
Erases(c, own) ==
    \/ own = "natRuleLock" /\ Unlinks(c) /\ req[c].count # 0
    \/ own = "FWRuleLock" /\ WritesRules(c, "REQ_DELFWRule") /\ UNCHANGED <<nats, seen>>

\* It finds connLock lost, and its own lock is lost with it.
Hangs(c) ==
    /\ "connLock" \in dead
    /\ \E own \in LockNames : Erases(c, own) /\ dead' = dead \cup {own}
    /\ pc' = [pc EXCEPT ![c] = "erase"]
    /\ UNCHANGED <<word, req, reply, inbox, leaked, lost, oops>>

\* Its walk of the connections faults.
EraseOops(c) ==
    /\ MayFail /\ "connLock" \notin dead
    /\ \E own \in LockNames : Erases(c, own) /\ dead' = dead \cup {own, "connLock"}
    /\ Ends(c)
    /\ UNCHANGED <<word, leaked, oops>>

\* A listing of the filter rules, or of the connections, faults under its lock: at a rule
\* freed before the lock was taken, or past the end of its answer.
ListOops(c) ==
    /\ MayFail
    /\ \/ ReadsRules(c) /\ leaked' = TRUE /\ dead' = dead
       \/ /\ Handles(c, "REQ_GETAllConns", "connLock")
          /\ leaked' = leaked /\ dead' = dead \cup {"connLock"}
    /\ Ends(c)
    /\ UNCHANGED <<word, nats, seen, oops>>

\* dealWithSetAction, after the message: the switch erases the connections, or its walk
\* faults.
Settle(c) ==
    /\ pc[c] = "erase" /\ req[c].type = "REQ_SETAction" /\ "connLock" \notin dead
    /\ pc' = [pc EXCEPT ![c] = "recvfrom"]
    /\ UNCHANGED <<word, req, reply, inbox, nats, dead, leaked, seen, lost, oops>>

SettleOops(c) ==
    /\ pc[c] = "erase" /\ req[c].type = "REQ_SETAction" /\ "connLock" \notin dead
    /\ MayFail
    /\ dead' = dead \cup {"connLock"}
    /\ Ends(c)
    /\ UNCHANGED <<word, nats, leaked, seen, oops>>

\* A packet that matches a rule dies with FWRuleLock held for reading; a packet, or the
\* timer, whose walk of the connections faults dies with connLock.
PacketDies ==
    /\ \/ leaked' = TRUE /\ dead' = dead
       \/ MayFail /\ leaked' = leaked /\ dead' = dead \cup {"connLock"}
    /\ UNCHANGED <<word, pc, req, reply, inbox, nats, seen, lost, oops>>

--------------------------------------------------------------------------------
(* nl_send, and all together *)

\* Slip: a message that is too long for the socket's buffer is given up.
NlSendNoMessage(c) ==
    /\ pc[c] = "nl_send"
    /\ inbox' = [inbox EXCEPT ![c] = IF reply[c] = Message THEN None ELSE reply[c]]
    /\ lost' = lost
    /\ pc' = [pc EXCEPT ![c] = IF req[c].type = "REQ_SETAction" THEN "erase" ELSE "recvfrom"]
    /\ reply' = [reply EXCEPT ![c] = None]
    /\ UNCHANGED <<word, req, nats, dead, leaked, seen, oops>>

\* nl_send, alone or under kernel2user: an allocation may fail, and nobody hears of it.
NlSend(c) ==
    /\ pc[c] = "nl_send"
    /\ \/ /\ inbox' = [inbox EXCEPT ![c] = reply[c]] /\ lost' = lost
       \/ /\ MayFail
          /\ inbox' = inbox /\ lost' = [lost EXCEPT ![c] = TRUE]
    /\ pc' = [pc EXCEPT ![c] = IF req[c].type = "REQ_SETAction" THEN "erase" ELSE "recvfrom"]
    /\ reply' = [reply EXCEPT ![c] = None]
    /\ UNCHANGED <<word, req, nats, dead, leaked, seen, oops>>

Handle(c) ==
    \/ AddNATRule(c) \/ DeleteNATRule(c) \/ DeleteNone(c) \/ DeleteOops(c)
    \/ FormAllNATRules(c) \/ Other(c) \/ Hangs(c)

ExchNext ==
    \/ PacketDies
    \/ \E c \in Client :
           \/ Open(c) \/ SendTo(c) \/ Receive(c) \/ Garbled(c) \/ GivesUp(c)
           \/ Handle(c) \/ KernelFails(c) \/ NlSend(c) \/ Settle(c)
           \/ EraseOops(c) \/ ListOops(c) \/ SettleOops(c)

\* Processes are scheduled: a client goes on with its system calls, and the kernel with
\* what it does in them.  No user need type or kill, and nothing need fail.
ExchFairness ==
    \A c \in Client : /\ WF_exchVars(SendTo(c)) /\ WF_exchVars(Handle(c))
                      /\ WF_exchVars(NlSend(c)) /\ WF_exchVars(Settle(c))
                      /\ WF_exchVars(Receive(c))

ExchSpec == ExchInit /\ [][ExchNext]_exchVars /\ ExchFairness

--------------------------------------------------------------------------------
(* Properties *)

AnswerOK(a) ==
    \/ a \in {None, Message, Listing, OnlyHead(0), OnlyHead(1)}
    \/ a.type = "RSP_NATRules" /\ IsInjective(a.rows) /\ Range(a.rows) \subseteq Rule

\* Every variable has its type; a rule is linked once, an answer is formed or queued only
\* for a client that is there to take it, and a listing that is not out of date shows
\* the list as it is.
ExchangeTypeOK ==
    /\ word \in Words /\ dead \subseteq LockNames /\ leaked \in BOOLEAN /\ oops \in BOOLEAN
    /\ \A i \in DOMAIN nats : nats[i] \in Rule
    /\ IsInjective(nats)
    /\ \A c \in Client :
           /\ pc[c] \in {"shell", "sendto", "kernel", "nl_send", "erase", "recvfrom"}
           /\ req[c] = None <=> pc[c] = "shell"
           /\ req[c] # None => req[c] \in Requests
           /\ reply[c] # None <=> pc[c] = "nl_send"
           /\ inbox[c] # None => pc[c] \in {"erase", "recvfrom"}
           /\ AnswerOK(reply[c]) /\ AnswerOK(inbox[c])
           /\ seen[c] \in {nats, OutOfDate}

\* An answer is one to the request.
Fits(r, a) ==
    \/ a = None \/ a.type = "RSP_MSG"
    \/ a.type = "RSP_Only_Head" /\ r.type \in {"REQ_DELNATRule", "REQ_DELFWRule"}
    \/ a.type = "RSP_NATRules" /\ r.type = "REQ_GETNATRules"
    \/ a.type = "listing" /\ r.type \in Listings

\* A client sits in recvfrom with no answer in its socket only if its request was dropped
\* for its length, which the kernel does in silence, or a failed sendto, which the client
\* takes for a success, or a failed allocation in nl_send lost it; an answer that is there
\* is one to its own request.  natRuleLock is lost only with a client that deleted row 0 of
\* an empty list or behind connLock, and FWRuleLock for its readers only behind connLock.
SilenceExplained ==
    /\ \A c \in Client :
           /\ pc[c] = "recvfrom" /\ inbox[c] = None => Short \/ lost[c]
           /\ Fits(req[c], inbox[c])
    /\ "natRuleLock" \in dead => oops \/ "connLock" \in dead
    /\ "FWRuleLock" \in dead => "connLock" \in dead

\* When the answer to a deletion will say 1, one rule went and the others stayed in their
\* order; if nobody edited the list since the user was shown it, it is the rule of the row
\* that the user named.  When it will say 0 nothing went.
DeletesAsShown ==
    [][\A c \in Client : req[c].type = "REQ_DELNATRule" /\ pc[c] = "kernel" =>
           /\ reply'[c] = OnlyHead(1) =>
                  \E i \in DOMAIN nats :
                      /\ Len(nats') = Len(nats) - 1
                      /\ \A j \in DOMAIN nats' : nats'[j] = nats[IF j < i THEN j ELSE j + 1]
                      /\ seen[c] # OutOfDate =>
                             /\ req[c].count + 1 \in DOMAIN seen[c]
                             /\ seen[c][req[c].count + 1] = nats[i]
           /\ reply'[c] = OnlyHead(0) => nats' = nats]_exchVars

\* Why a client may never get its answer: it was lost, or the request hangs in the kernel.
\* A NAT request does behind a death under natRuleLock, which takes row 0 of an empty list
\* or the loss of connLock; an edit of the filter rules behind a dead reader, or behind
\* one that hangs for connLock; their listing behind that, or behind an edit that waits
\* for a dead reader; and whoever wants connLock behind its loss.
Unanswerable(c) ==
    \/ pc[c] = "recvfrom" /\ inbox[c] = None /\ (Short \/ lost[c])
    \/ /\ pc[c] = "kernel" /\ req[c].type \in NATRequests
       /\ "natRuleLock" \in dead /\ (oops \/ "connLock" \in dead)
    \/ /\ pc[c] = "kernel" /\ req[c].type \in Edits
       /\ leaked \/ {"FWRuleLock", "connLock"} \subseteq dead
    \/ /\ pc[c] = "kernel" /\ req[c].type = "REQ_GETAllFWRules"
       /\ \/ {"FWRuleLock", "connLock"} \subseteq dead
          \/ leaked /\ \E d \in Client : pc[d] = "kernel" /\ req[d].type \in Edits
    \/ /\ \/ pc[c] = "kernel" /\ req[c].type = "REQ_GETAllConns"
          \/ pc[c] = "erase"
       /\ "connLock" \in dead

\* Every request comes to an end, but for those: no other path through processUserRequest,
\* with or without memory, leaves a client waiting.
RequestsEnd == \A c \in Client : pc[c] = "sendto" ~> pc[c] = "shell" \/ Unanswerable(c)

\* Every request is answered: the client and the kernel share their protocol, as the
\* comment at its declarations in userApp/structs.h has it (APP and kernel common
\* protocol).  On a 64-bit build nl_recv drops every request.
EveryRequestAnswered == \A c \in Client : pc[c] = "sendto" ~> inbox[c] # None
================================================================================
