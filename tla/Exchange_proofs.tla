----------------------------- MODULE Exchange_proofs -----------------------------
(* Requests and their answers, for any number of clients and NAT rules, and any set *)
(* of builds.                                                                       *)
EXTENDS Exchange, SequenceLemmas

Places == {"shell", "sendto", "kernel", "nl_send", "erase", "recvfrom"}

\* What is sound about one client at every moment; that what the kernel forms for it fits
\* its request makes the properties inductive.
ClientInv(c) ==
    /\ pc[c] \in Places
    /\ req[c] = None <=> pc[c] = "shell"
    /\ req[c] # None => req[c] \in Requests
    /\ reply[c] # None <=> pc[c] = "nl_send"
    /\ inbox[c] # None => pc[c] \in {"erase", "recvfrom"}
    /\ AnswerOK(reply[c]) /\ AnswerOK(inbox[c])
    /\ Fits(req[c], reply[c]) /\ Fits(req[c], inbox[c])
    /\ pc[c] = "recvfrom" /\ inbox[c] = None => Short \/ lost[c]
    /\ pc[c] = "erase" /\ req[c].type = "REQ_SETAction" /\ inbox[c] = None => lost[c]
    /\ seen[c] \in {nats, OutOfDate}

\* What is sound about the list of NAT rules and about the locks.
ListInv ==
    /\ word \in Words
    /\ nats \in Seq(Rule) /\ IsInjective(nats)
    /\ dead \subseteq LockNames /\ leaked \in BOOLEAN /\ oops \in BOOLEAN
    /\ "natRuleLock" \in dead => oops \/ "connLock" \in dead
    /\ "FWRuleLock" \in dead => "connLock" \in dead

\* A function with a value for every client, and for no one else.
IsMap(f) == f = [c \in Client |-> f[c]]

Shapes == IsMap(pc) /\ IsMap(req) /\ IsMap(reply) /\ IsMap(inbox) /\ IsMap(seen) /\ IsMap(lost)

ExchInv == ListInv /\ Shapes /\ \A c \in Client : ClientInv(c)

--------------------------------------------------------------------------------
(* Answers and lists *)

\* The answers that carry no listing are told apart by their type.
LEMMA Heads ==
    /\ None.type = "none" /\ Message.type = "RSP_MSG" /\ Message # None
    /\ Listing.type = "listing" /\ Listing # None
    /\ \A n \in {0, 1} : /\ OnlyHead(n).type = "RSP_Only_Head"
                         /\ OnlyHead(n) \notin {None, Message, Listing}
  BY DEF None, Message, Listing, OnlyHead

\* A listing of the rules is an answer.
LEMMA ListingOK ==
    ASSUME ListInv, NEW a, a = [type |-> "RSP_NATRules", rows |-> nats]
    PROVE  AnswerOK(a) /\ a # None /\ a.type = "RSP_NATRules"
<1>1. a.type = "RSP_NATRules" /\ a.rows = nats
  OBVIOUS
<1>2. Range(nats) \subseteq Rule
  BY LenProperties DEF ListInv, Range
<1> QED
  BY <1>1, <1>2, Heads DEF AnswerOK, ListInv

\* addNATRule and deleteNATRule keep the list a list of rules, each linked once.
LEMMA Listed ==
    ASSUME NEW q \in Seq(Rule), IsInjective(q)
    PROVE  /\ \A r \in Rule \ Range(q) : <<r>> \o q \in Seq(Rule) /\ IsInjective(<<r>> \o q)
           /\ \A i \in DOMAIN q : RemoveAt(q, i) \in Seq(Rule) /\ IsInjective(RemoveAt(q, i))
<1>1. Len(q) \in Nat /\ DOMAIN q = 1..Len(q)
  BY LenProperties
<1>2. ASSUME NEW r \in Rule \ Range(q)
      PROVE  <<r>> \o q \in Seq(Rule) /\ IsInjective(<<r>> \o q)
  <2> DEFINE t == <<r>> \o q
  <2>1. <<r>> \in Seq(Rule) /\ Len(<<r>>) = 1 /\ <<r>>[1] = r
    OBVIOUS
  <2>2. /\ t \in Seq(Rule) /\ Len(t) = 1 + Len(q)
        /\ \A j \in 1..(1 + Len(q)) : t[j] = IF j <= 1 THEN <<r>>[j] ELSE q[j - 1]
    BY <1>1, <2>1, ConcatProperties
  <2>3. DOMAIN t = 1..(1 + Len(q))
    BY <2>2, LenProperties
  <2>4. t[1] = r /\ \A j \in 2..(1 + Len(q)) : j - 1 \in 1..Len(q) /\ t[j] = q[j - 1]
    BY <1>1, <2>1, <2>2
  <2>5. \A j \in 1..Len(q) : q[j] # r
    BY <1>1 DEF Range
  <2> HIDE DEF t
  <2>6. \A i, j \in DOMAIN t : t[i] = t[j] => i = j
    <3> SUFFICES ASSUME NEW i \in 1..(1 + Len(q)), NEW j \in 1..(1 + Len(q)), t[i] = t[j]
                 PROVE  i = j
      BY <2>3
    <3>1. CASE i = 1 /\ j = 1
      BY <3>1
    <3>2. CASE i # 1 /\ j # 1
      BY <3>2, <1>1, <2>4 DEF IsInjective
    <3>3. CASE (i = 1) # (j = 1)
      BY <3>3, <1>1, <2>4, <2>5
    <3> QED
      BY <3>1, <3>2, <3>3
  <2> QED
    BY <2>2, <2>6 DEF t, IsInjective
<1>3. ASSUME NEW i \in DOMAIN q
      PROVE  RemoveAt(q, i) \in Seq(Rule) /\ IsInjective(RemoveAt(q, i))
  <2> DEFINE t == RemoveAt(q, i)
  <2>1. /\ t \in Seq(Rule) /\ Len(t) = Len(q) - 1
        /\ \A j \in 1..(Len(q) - 1) : t[j] = IF j < i THEN q[j] ELSE q[j + 1]
    BY RemoveAtFacts
  <2>2. DOMAIN t = 1..(Len(q) - 1)
    BY <1>1, <2>1, LenProperties
  <2> DEFINE from(j) == IF j < i THEN j ELSE j + 1
  <2>3. \A j \in DOMAIN t : from(j) \in DOMAIN q /\ t[j] = q[from(j)]
    BY <1>1, <2>1, <2>2
  <2>4. \A j, k \in DOMAIN t : from(j) = from(k) => j = k
    BY <1>1, <2>2
  <2> HIDE DEF t, from
  <2>5. \A j, k \in DOMAIN t : t[j] = t[k] => j = k
    BY <2>3, <2>4 DEF IsInjective
  <2> QED
    BY <2>1, <2>5 DEF t, IsInjective
<1> QED
  BY <1>2, <1>3

--------------------------------------------------------------------------------
(* The steps *)

\* A client stays sound when another moves and its user sees the edit of the list.
LEMMA OthersStay ==
    ASSUME NEW c \in Client, ClientInv(c), word' = word,
           pc'[c] = pc[c], req'[c] = req[c], reply'[c] = reply[c], inbox'[c] = inbox[c],
           lost'[c] = lost[c], seen'[c] \in {nats', OutOfDate}
    PROVE  ClientInv(c)'
  BY DEF ClientInv, AnswerOK, Fits, Short

\* A client that moves leaves the others alone, but for what the list does to what they saw.
LEMMA Moved ==
    ASSUME ExchInv, NEW c \in Client, ListInv', Shapes', ClientInv(c)', word' = word,
           \A d \in Client \ {c} :
               /\ pc'[d] = pc[d] /\ req'[d] = req[d] /\ reply'[d] = reply[d]
               /\ inbox'[d] = inbox[d] /\ lost'[d] = lost[d]
               /\ seen'[d] \in {nats', OutOfDate}
    PROVE  ExchInv'
<1>1. ASSUME NEW d \in Client, d # c PROVE ClientInv(d)'
  BY <1>1, OthersStay DEF ExchInv
<1> QED
  BY <1>1 DEF ExchInv

\* The machine starts without requests.
LEMMA ExchInitInv == ExchInit => ExchInv
<1> SUFFICES ASSUME ExchInit PROVE ExchInv
  OBVIOUS
<1>1. ListInv
  <2>1. nats \in Seq(Rule) /\ DOMAIN nats = {}
    BY DEF ExchInit
  <2> QED
    BY <2>1 DEF ExchInit, ListInv, IsInjective
<1>2. Shapes
  BY DEF ExchInit, Shapes, IsMap
<1>3. ASSUME NEW c \in Client PROVE ClientInv(c)
  BY DEF ExchInit, ClientInv, AnswerOK, Fits, Places
<1> QED
  BY <1>1, <1>2, <1>3 DEF ExchInv

\* user2kernel until its sendto keeps the invariant.
LEMMA AskInv == \A c \in Client : ExchInv /\ (Open(c) \/ SendTo(c)) => ExchInv'
<1> SUFFICES ASSUME ExchInv, NEW c \in Client, Open(c) \/ SendTo(c) PROVE ExchInv'
  OBVIOUS
<1>1. Shapes /\ ClientInv(c)
  BY DEF ExchInv
<1>2. CASE Open(c)
  <2>1. PICK r \in Requests : req' = [req EXCEPT ![c] = r]
    BY <1>2 DEF Open
  <2>2. r # None /\ r \in Requests
    BY DEF Requests, RequestTypes, NATRequests, Edits, Listings, None
  <2>3. IsMap(req') /\ req'[c] = r /\ \A d \in Client \ {c} : req'[d] = req[d]
    BY <1>1, <2>1 DEF IsMap, Shapes
  <2>4. IsMap(pc') /\ pc'[c] = "sendto" /\ \A d \in Client \ {c} : pc'[d] = pc[d]
    BY <1>1, <1>2 DEF IsMap, Shapes, Open
  <2>5. UNCHANGED <<word, reply, inbox, nats, dead, leaked, seen, lost, oops>> /\ pc[c] = "shell"
    BY <1>2 DEF Open
  <2>6. Shapes' /\ ListInv'
    BY <1>1, <2>3, <2>4, <2>5 DEF Shapes, ListInv, ExchInv, IsMap
  <2>7. reply[c] = None /\ inbox[c] = None
    BY <1>1, <2>5 DEF ClientInv
  <2>8. ClientInv(c)'
    BY <1>1, <2>2, <2>3, <2>4, <2>5, <2>7 DEF ClientInv, Fits, AnswerOK, Places
  <2>9. \A d \in Client \ {c} : seen'[d] \in {nats', OutOfDate}
    BY <2>5 DEF ExchInv, ClientInv
  <2> QED
    BY <2>3, <2>4, <2>5, <2>6, <2>8, <2>9, Moved
<1>3. CASE SendTo(c)
  <2>1. PICK p \in {"kernel", "recvfrom"} : pc' = [pc EXCEPT ![c] = p]
    BY <1>3 DEF SendTo
  <2>2. IsMap(pc') /\ pc'[c] = p /\ \A d \in Client \ {c} : pc'[d] = pc[d]
    BY <1>1, <2>1 DEF IsMap, Shapes
  <2>3. IsMap(lost') /\ \A d \in Client \ {c} : lost'[d] = lost[d]
    <3>1. CASE lost' = lost
      BY <1>1, <3>1 DEF Shapes
    <3>2. CASE lost' = [lost EXCEPT ![c] = TRUE]
      BY <1>1, <3>2 DEF IsMap, Shapes
    <3> QED
      BY <1>3, <3>1, <3>2 DEF SendTo
  <2>4. UNCHANGED <<word, req, reply, inbox, nats, dead, leaked, seen, oops>> /\ pc[c] = "sendto"
    BY <1>3 DEF SendTo
  <2>5. p = "recvfrom" => Short \/ lost'[c]
    <3>1. CASE lost' = [lost EXCEPT ![c] = TRUE]
      BY <1>1, <3>1 DEF IsMap, Shapes
    <3>2. CASE lost' # [lost EXCEPT ![c] = TRUE]
      BY <1>1, <1>3, <2>2, <3>2 DEF IsMap, SendTo, Shapes
    <3> QED
      BY <3>1, <3>2
  <2>6. Shapes' /\ ListInv'
    BY <1>1, <2>2, <2>3, <2>4 DEF Shapes, ListInv, ExchInv, IsMap
  <2>7. ClientInv(c)'
    BY <1>1, <2>2, <2>4, <2>5 DEF ClientInv, Fits, AnswerOK, Places, Short
  <2>8. \A d \in Client \ {c} : seen'[d] \in {nats', OutOfDate}
    BY <2>4 DEF ExchInv, ClientInv
  <2> QED
    BY <2>2, <2>3, <2>4, <2>6, <2>7, <2>8, Moved
<1> QED
  BY <1>2, <1>3

\* The client ends, with its answer or without: nothing of its request stays.
LEMMA EndInv ==
    ASSUME ExchInv, NEW c \in Client, Ends(c), word' = word, ListInv', IsMap(seen'),
           \A d \in Client : seen'[d] \in {nats', OutOfDate}
    PROVE  ExchInv'
<1>1. Shapes /\ ClientInv(c)
  BY DEF ExchInv
<1>2. Shapes'
  BY <1>1 DEF Ends, Shapes, IsMap
<1>3. /\ pc'[c] = "shell" /\ req'[c] = None /\ reply'[c] = None /\ inbox'[c] = None
      /\ \A d \in Client \ {c} : /\ pc'[d] = pc[d] /\ req'[d] = req[d] /\ reply'[d] = reply[d]
                               /\ inbox'[d] = inbox[d] /\ lost'[d] = lost[d]
  BY <1>1 DEF Ends, Shapes, IsMap
<1>4. ClientInv(c)'
  BY <1>3 DEF ClientInv, AnswerOK, Fits, Places
<1> QED
  BY <1>2, <1>3, <1>4, Moved

\* What ends a client and leaves the list alone.
EndsQuietly(c) ==
    Receive(c) \/ Garbled(c) \/ GivesUp(c) \/ DeleteOops(c) \/ ListOops(c) \/ SettleOops(c)

\* recvfrom, by whatever it ends, and a client that dies in the kernel keep it.
LEMMA EndsInv == \A c \in Client : ExchInv /\ EndsQuietly(c) => ExchInv'
<1> SUFFICES ASSUME ExchInv, NEW c \in Client, EndsQuietly(c)
             PROVE  ExchInv'
  OBVIOUS
<1>1. ListInv /\ IsMap(seen) /\ \A d \in Client : seen[d] \in {nats, OutOfDate}
  BY DEF ExchInv, Shapes, ClientInv
<1>2. Ends(c) /\ UNCHANGED <<word, nats>>
  BY DEF EndsQuietly, Receive, Garbled, GivesUp, DeleteOops, ListOops, SettleOops
<1>3. ListInv'
  <2>1. \/ UNCHANGED <<dead, leaked, oops>>
        \/ leaked' \in BOOLEAN /\ UNCHANGED <<dead, oops>>
        \/ dead' = dead \cup {"connLock"} /\ UNCHANGED <<leaked, oops>>
        \/ dead' = dead \cup {"natRuleLock"} /\ oops' = TRUE /\ leaked' = leaked
    BY DEF EndsQuietly, Receive, Garbled, GivesUp, DeleteOops, ListOops, SettleOops
  <2> QED
    BY <1>1, <1>2, <2>1 DEF ListInv, LockNames
<1>4. IsMap(seen') /\ \A d \in Client : seen'[d] \in {nats', OutOfDate}
  <2>1. CASE seen' = seen
    BY <1>1, <1>2, <2>1
  <2>2. CASE seen' # seen
    <3>1. PICK v \in {nats, OutOfDate} : seen' = [seen EXCEPT ![c] = v]
      BY <2>2 DEF EndsQuietly, Receive, Garbled, GivesUp, DeleteOops, ListOops, SettleOops
    <3> QED
      BY <1>1, <1>2, <3>1 DEF IsMap
  <2> QED
    BY <2>1, <2>2
<1> QED
  BY <1>2, <1>3, <1>4, EndInv

\* An answer that fits the request is formed, whatever became of the list.
LEMMA AnswerInv ==
    ASSUME ExchInv, NEW c \in Client, NEW a, Answers(c, a), pc[c] = "kernel",
           AnswerOK(a), a # None, Fits(req[c], a), ListInv', IsMap(seen'),
           UNCHANGED <<word, req, inbox, lost>>,
           \A d \in Client : seen'[d] \in {nats', OutOfDate}
    PROVE  ExchInv'
<1>1. Shapes /\ ClientInv(c)
  BY DEF ExchInv
<1>2. Shapes'
  BY <1>1 DEF Answers, Shapes, IsMap
<1>3. /\ pc'[c] = "nl_send" /\ reply'[c] = a
      /\ \A d \in Client \ {c} : pc'[d] = pc[d] /\ reply'[d] = reply[d]
  BY <1>1 DEF Answers, Shapes, IsMap
<1>4. req[c] # None /\ inbox[c] = None
  BY <1>1 DEF ClientInv
<1>5. ClientInv(c)'
  BY <1>1, <1>3, <1>4 DEF ClientInv, Fits, AnswerOK, Places
<1> QED
  BY <1>2, <1>3, <1>5, Moved

\* Every edit of the list puts what the users saw out of date.
LEMMA EditSeen ==
    ASSUME ExchInv, NEW n, NatsBecome(n)
    PROVE  nats' = n /\ IsMap(seen') /\ \A d \in Client : seen'[d] \in {nats', OutOfDate}
  BY DEF NatsBecome, IsMap, ExchInv, ClientInv

\* deleteNATRule unlinks one rule, and what was shown of the list is out of date.
LEMMA Unlinked ==
    ASSUME ExchInv, NEW c \in Client, Unlinks(c)
    PROVE  /\ nats' \in Seq(Rule) /\ IsInjective(nats')
           /\ IsMap(seen') /\ \A d \in Client : seen'[d] \in {nats', OutOfDate}
           /\ pc[c] = "kernel" /\ req[c].type = "REQ_DELNATRule"
<1>1. PICK i \in DOMAIN nats : NatsBecome(RemoveAt(nats, i))
  BY DEF Unlinks
<1>2. RemoveAt(nats, i) \in Seq(Rule) /\ IsInjective(RemoveAt(nats, i))
  BY Listed DEF ExchInv, ListInv
<1> QED
  BY <1>1, <1>2, EditSeen DEF Unlinks, Handles

\* So does an edit that goes on to erase connections, of whichever list it is.
LEMMA Erased ==
    ASSUME ExchInv, NEW c \in Client, NEW own \in LockNames, Erases(c, own)
    PROVE  /\ own \in {"natRuleLock", "FWRuleLock"}
           /\ nats' \in Seq(Rule) /\ IsInjective(nats')
           /\ IsMap(seen') /\ \A d \in Client : seen'[d] \in {nats', OutOfDate}
           /\ pc[c] = "kernel" /\ req[c].type # "REQ_SETAction"
<1>1. CASE own = "natRuleLock"
  BY <1>1, Unlinked DEF Erases
<1>2. CASE own = "FWRuleLock"
  <2>1. UNCHANGED <<nats, seen>> /\ pc[c] = "kernel" /\ req[c].type = "REQ_DELFWRule"
    BY <1>2 DEF Erases, WritesRules, Handles
  <2> QED
    BY <1>2, <2>1 DEF ExchInv, ListInv, Shapes, ClientInv
<1> QED
  BY <1>1, <1>2 DEF Erases

\* An edit that hangs behind connLock, or whose walk faults, keeps the invariant.
LEMMA EraseInv == \A c \in Client : ExchInv /\ (Hangs(c) \/ EraseOops(c)) => ExchInv'
<1> SUFFICES ASSUME ExchInv, NEW c \in Client, Hangs(c) \/ EraseOops(c) PROVE ExchInv'
  OBVIOUS
<1>1. PICK own \in LockNames : /\ Erases(c, own)
                               /\ dead' \in {dead \cup {own}, dead \cup {own, "connLock"}}
                               /\ "connLock" \in dead'
  BY DEF Hangs, EraseOops
<1>2. /\ own \in {"natRuleLock", "FWRuleLock"}
      /\ nats' \in Seq(Rule) /\ IsInjective(nats')
      /\ IsMap(seen') /\ \A d \in Client : seen'[d] \in {nats', OutOfDate}
      /\ pc[c] = "kernel" /\ req[c].type # "REQ_SETAction"
  BY <1>1, Erased
<1>3. word' = word /\ leaked' = leaked /\ oops' = oops
  BY DEF Hangs, EraseOops
<1>4. ListInv'
  BY <1>1, <1>2, <1>3 DEF ExchInv, ListInv, LockNames
<1>5. CASE EraseOops(c)
  BY <1>2, <1>3, <1>4, <1>5, EndInv DEF EraseOops
<1>6. CASE Hangs(c)
  <2>1. Shapes /\ ClientInv(c)
    BY DEF ExchInv
  <2>2. /\ IsMap(pc') /\ pc'[c] = "erase" /\ \A d \in Client \ {c} : pc'[d] = pc[d]
        /\ UNCHANGED <<req, reply, inbox, lost>>
    BY <1>6, <2>1 DEF Hangs, Shapes, IsMap
  <2>3. Shapes'
    BY <1>2, <2>1, <2>2 DEF Shapes, IsMap
  <2>4. ClientInv(c)'
    BY <1>2, <2>1, <2>2 DEF ClientInv, Fits, AnswerOK, Places
  <2> QED
    BY <1>2, <1>3, <1>4, <2>2, <2>3, <2>4, Moved
<1> QED
  BY <1>5, <1>6

\* A switch that has erased its connections goes on.
LEMMA SettleInv == \A c \in Client : ExchInv /\ Settle(c) => ExchInv'
<1> SUFFICES ASSUME ExchInv, NEW c \in Client, Settle(c) PROVE ExchInv'
  OBVIOUS
<1>1. Shapes /\ ClientInv(c) /\ ListInv /\ \A d \in Client : seen[d] \in {nats, OutOfDate}
  BY DEF ExchInv, ClientInv
<1>2. /\ IsMap(pc') /\ pc'[c] = "recvfrom" /\ \A d \in Client \ {c} : pc'[d] = pc[d]
      /\ UNCHANGED <<word, req, reply, inbox, nats, dead, leaked, seen, lost, oops>>
      /\ pc[c] = "erase" /\ req[c].type = "REQ_SETAction"
  BY <1>1 DEF Settle, Shapes, IsMap
<1>3. Shapes' /\ ListInv'
  BY <1>1, <1>2 DEF Shapes, ListInv, IsMap
<1>4. ClientInv(c)'
  BY <1>1, <1>2 DEF ClientInv, Fits, AnswerOK, Places, Short
<1> QED
  BY <1>1, <1>2, <1>3, <1>4, Moved

\* A packet that dies takes only locks.
LEMMA PacketInv == ExchInv /\ PacketDies => ExchInv'
<1> SUFFICES ASSUME ExchInv, PacketDies PROVE ExchInv'
  OBVIOUS
<1>1. UNCHANGED <<word, pc, req, reply, inbox, nats, seen, lost, oops>>
  BY DEF PacketDies
<1>2. ListInv'
  <2>1. \/ leaked' \in BOOLEAN /\ dead' = dead
        \/ leaked' = leaked /\ dead' = dead \cup {"connLock"}
    BY DEF PacketDies
  <2>2. ListInv
    BY DEF ExchInv
  <2>3. CASE leaked' \in BOOLEAN /\ dead' = dead
    BY <1>1, <2>2, <2>3 DEF ListInv
  <2>4. CASE leaked' = leaked /\ dead' = dead \cup {"connLock"}
    BY <1>1, <2>2, <2>4 DEF ListInv, LockNames
  <2> QED
    BY <2>1, <2>3, <2>4
<1>3. Shapes'
  BY <1>1 DEF ExchInv, Shapes, IsMap
<1>4. ASSUME NEW c \in Client PROVE ClientInv(c)'
  BY <1>1, <1>4, OthersStay DEF ExchInv, ClientInv
<1> QED
  BY <1>2, <1>3, <1>4 DEF ExchInv

\* processUserRequest keeps the invariant.
LEMMA HandleInv == \A c \in Client : ExchInv /\ (Handle(c) \/ KernelFails(c)) => ExchInv'
<1> SUFFICES ASSUME ExchInv, NEW c \in Client, Handle(c) \/ KernelFails(c) PROVE ExchInv'
  OBVIOUS
<1>1. /\ ListInv /\ IsMap(seen) /\ \A d \in Client : seen[d] \in {nats, OutOfDate}
  BY DEF ExchInv, Shapes, ClientInv
<1>2. AnswerOK(Message) /\ Message # None /\ Fits(req[c], Message)
  BY Heads DEF AnswerOK, Fits
<1>3. CASE AddNATRule(c)
  <2>1. PICK n : NatsBecome(n) /\ n \in Seq(Rule) /\ IsInjective(n)
    <3>1. CASE NatsBecome(nats)
      BY <1>1, <3>1 DEF ListInv
    <3>2. CASE ~NatsBecome(nats)
      <4>1. PICK r \in Rule \ Range(nats) : NatsBecome(<<r>> \o nats)
        BY <1>3, <3>2 DEF AddNATRule
      <4>2. <<r>> \o nats \in Seq(Rule) /\ IsInjective(<<r>> \o nats)
        BY <1>1, Listed DEF ListInv
      <4> QED
        BY <4>1, <4>2
    <3> QED
      BY <3>1, <3>2
  <2>2. ListInv'
    BY <1>1, <1>3, <2>1 DEF AddNATRule, ListInv, NatsBecome, LockNames
  <2> QED
    BY <1>2, <1>3, <2>1, <2>2, EditSeen, AnswerInv DEF AddNATRule, Handles
<1>4. CASE DeleteNATRule(c)
  <2>1. /\ nats' \in Seq(Rule) /\ IsInjective(nats')
        /\ IsMap(seen') /\ \A d \in Client : seen'[d] \in {nats', OutOfDate}
        /\ pc[c] = "kernel" /\ req[c].type = "REQ_DELNATRule"
    BY <1>4, Unlinked DEF DeleteNATRule
  <2>2. Answers(c, OnlyHead(1)) /\ UNCHANGED <<word, req, inbox, dead, leaked, lost, oops>>
    BY <1>4 DEF DeleteNATRule
  <2>3. ListInv'
    BY <1>1, <2>1, <2>2 DEF ListInv
  <2>4. AnswerOK(OnlyHead(1)) /\ OnlyHead(1) # None /\ Fits(req[c], OnlyHead(1))
    BY <2>1, Heads DEF AnswerOK, Fits
  <2> QED
    BY <2>1, <2>2, <2>3, <2>4, AnswerInv
<1>5. CASE DeleteNone(c)
  <2>1. ListInv'
    BY <1>1, <1>5 DEF DeleteNone, ListInv
  <2> QED
    <3>1. req[c].type = "REQ_DELNATRule" /\ Answers(c, OnlyHead(0)) /\ pc[c] = "kernel"
          /\ UNCHANGED <<word, req, inbox, nats, seen, lost>>
      BY <1>5 DEF DeleteNone, Handles
    <3>2. AnswerOK(OnlyHead(0)) /\ OnlyHead(0) # None /\ Fits(req[c], OnlyHead(0))
      BY <3>1, Heads DEF AnswerOK, Fits
    <3> QED
      BY <1>1, <2>1, <3>1, <3>2, AnswerInv
<1>6. CASE FormAllNATRules(c)
  <2>1. ListInv'
    BY <1>1, <1>6 DEF FormAllNATRules, ListInv
  <2> DEFINE a == [type |-> "RSP_NATRules", rows |-> nats]
  <2>2. AnswerOK(a) /\ a # None /\ Fits(req[c], a)
    BY <1>1, <1>6, ListingOK DEF FormAllNATRules, Handles, Fits
  <2>3. Answers(c, a)
    BY <1>6 DEF FormAllNATRules
  <2> HIDE DEF a
  <2> QED
    BY <1>1, <1>6, <2>1, <2>2, <2>3, AnswerInv DEF FormAllNATRules, Handles
<1>7. CASE Other(c)
  <2>1. ListInv'
    BY <1>1, <1>7 DEF Other, ListInv
  <2>2. PICK a \in {Message, Listing, OnlyHead(0), OnlyHead(1)} : Served(c, a) /\ Answers(c, a)
    BY <1>7 DEF Other
  <2>3. AnswerOK(a) /\ a # None
    BY Heads DEF AnswerOK
  <2>4. pc[c] = "kernel"
    BY <2>2 DEF Served, WritesRules, ReadsRules, Handles
  <2>5. Fits(req[c], a)
    BY <2>2, Heads DEF Fits, Served, WritesRules, ReadsRules, Handles, Listings
  <2> QED
    BY <1>1, <1>7, <2>1, <2>2, <2>3, <2>4, <2>5, AnswerInv DEF Other
<1>8. CASE KernelFails(c)
  <2>1. ListInv'
    BY <1>1, <1>8 DEF KernelFails, ListInv
  <2>2. pc[c] = "kernel"
    BY <1>8 DEF KernelFails, ReadsRules, Handles
  <2> QED
    BY <1>1, <1>2, <1>8, <2>1, <2>2, AnswerInv DEF KernelFails
<1> QED
  BY <1>3, <1>4, <1>5, <1>6, <1>7, <1>8, EndsInv, EraseInv DEF Handle, EndsQuietly

\* nl_send keeps the invariant: what is queued was formed for this request.
LEMMA NlSendInv == \A c \in Client : ExchInv /\ NlSend(c) => ExchInv'
<1> SUFFICES ASSUME ExchInv, NEW c \in Client, NlSend(c) PROVE ExchInv'
  OBVIOUS
<1>1. Shapes /\ ClientInv(c) /\ \A d \in Client : seen[d] \in {nats, OutOfDate}
  BY DEF ExchInv, ClientInv
<1>2. UNCHANGED <<word, req, nats, dead, leaked, seen, oops>> /\ pc[c] = "nl_send"
  BY DEF NlSend
<1>3. reply[c] # None /\ inbox[c] = None /\ req[c] # None
  BY <1>1, <1>2 DEF ClientInv
<1>4. /\ IsMap(pc') /\ pc'[c] \in {"erase", "recvfrom"} /\ IsMap(reply') /\ reply'[c] = None
      /\ \A d \in Client \ {c} : pc'[d] = pc[d] /\ reply'[d] = reply[d]
  BY <1>1 DEF NlSend, Shapes, IsMap
<1>5. /\ IsMap(inbox') /\ IsMap(lost')
      /\ \A d \in Client \ {c} : inbox'[d] = inbox[d] /\ lost'[d] = lost[d]
      /\ inbox'[c] = reply[c] \/ (inbox'[c] = None /\ lost'[c])
  <2>1. CASE inbox' = inbox
    <3>1. lost' = [lost EXCEPT ![c] = TRUE]
      BY <1>1, <1>3, <2>1 DEF NlSend, Shapes, IsMap
    <3> QED
      BY <1>1, <1>3, <2>1, <3>1 DEF Shapes, IsMap
  <2>2. CASE inbox' # inbox
    BY <1>1, <2>2 DEF NlSend, Shapes, IsMap
  <2> QED
    BY <2>1, <2>2
<1>6. Shapes' /\ ListInv'
  BY <1>1, <1>2, <1>4, <1>5 DEF Shapes, ListInv, ExchInv, IsMap
<1>7. ClientInv(c)'
  BY <1>1, <1>2, <1>3, <1>4, <1>5 DEF ClientInv, Fits, AnswerOK, Places, Short
<1> QED
  BY <1>1, <1>2, <1>4, <1>5, <1>6, <1>7, Moved

\* The invariant holds always.
LEMMA ExchInvariant == ExchSpec => []ExchInv
<1>1. ASSUME ExchInv, UNCHANGED exchVars PROVE ExchInv'
  <2>1. ListInv'
    BY <1>1 DEF exchVars, ExchInv, ListInv
  <2>2. Shapes'
    BY <1>1 DEF exchVars, ExchInv, Shapes, IsMap
  <2>3. ASSUME NEW c \in Client PROVE ClientInv(c)'
    BY <1>1, <2>3, OthersStay DEF exchVars, ExchInv, ClientInv
  <2> QED
    BY <2>1, <2>2, <2>3 DEF ExchInv
<1>2. ExchInv /\ [ExchNext]_exchVars => ExchInv'
  BY <1>1, AskInv, EndsInv, EraseInv, HandleInv, NlSendInv, SettleInv, PacketInv
     DEF ExchNext, EndsQuietly
<1> QED
  BY <1>2, ExchInitInv, PTL DEF ExchSpec

--------------------------------------------------------------------------------
(* The theorems *)

\* Every variable has its type; no answer is formed or queued for a client that is not
\* there to take it.
THEOREM ExchangeTyped == ExchSpec => []ExchangeTypeOK
<1>1. ExchInv => ExchangeTypeOK
  <2>1. ListInv => \A i \in DOMAIN nats : nats[i] \in Rule
    BY LenProperties DEF ListInv
  <2> QED
    BY <2>1 DEF ExchInv, ListInv, ClientInv, ExchangeTypeOK, Places
<1> QED
  BY <1>1, ExchInvariant, PTL

\* A client waits in vain only for an answer that was lost, or never formed because the
\* build drops its requests; an answer is one to the request; natRuleLock is lost with row 0
\* of an empty list or behind connLock, and FWRuleLock for its readers behind connLock.
THEOREM OnlyLossSilences == ExchSpec => []SilenceExplained
<1>1. ASSUME ExchInv PROVE SilenceExplained
  <2>1. ASSUME NEW c \in Client
        PROVE  /\ pc[c] = "recvfrom" /\ inbox[c] = None => Short \/ lost[c]
               /\ Fits(req[c], inbox[c])
    BY <1>1 DEF ExchInv, ClientInv
  <2>2. /\ "natRuleLock" \in dead => oops \/ "connLock" \in dead
        /\ "FWRuleLock" \in dead => "connLock" \in dead
    BY <1>1 DEF ExchInv, ListInv
  <2> QED
    BY <2>1, <2>2 DEF SilenceExplained
<1> QED
  BY <1>1, ExchInvariant, PTL

\* An answer that is formed in a step is formed by the client's own request.
LEMMA Forms ==
    ASSUME ExchInv, [ExchNext]_exchVars, NEW c \in Client, pc[c] = "kernel",
           req[c].type = "REQ_DELNATRule", NEW n \in {0, 1}, reply'[c] = OnlyHead(n)
    PROVE  (DeleteNATRule(c) /\ n = 1) \/ (DeleteNone(c) /\ n = 0)
<1>1. reply[c] = None /\ reply[c] # reply'[c] /\ ClientInv(c) /\ IsMap(reply)
  BY Heads DEF ExchInv, ClientInv, Shapes
<1>2. PICK d \in Client : \/ Handle(d) \/ KernelFails(d)
                          \/ UNCHANGED reply
                          \/ Ends(d)
                          \/ reply' = [reply EXCEPT ![d] = None]
  <2>1. ~PacketDies
    BY <1>1 DEF PacketDies
  <2>2. PICK d \in Client : \/ Open(d) \/ SendTo(d) \/ Receive(d) \/ Garbled(d) \/ GivesUp(d)
                            \/ Handle(d) \/ KernelFails(d) \/ NlSend(d) \/ Settle(d)
                            \/ EraseOops(d) \/ ListOops(d) \/ SettleOops(d)
    BY <1>1, <2>1 DEF ExchNext, exchVars
  <2> QED
    BY <2>2 DEF Open, SendTo, Receive, Garbled, GivesUp, NlSend, Settle, EraseOops, ListOops,
       SettleOops
<1>3. d = c /\ (Handle(d) \/ KernelFails(d))
  <2>1. reply'[c] # None
    BY Heads
  <2>2. ~UNCHANGED reply /\ ~Ends(d) /\ reply' # [reply EXCEPT ![d] = None]
    BY <1>1, <2>1 DEF Ends, IsMap
  <2>3. \/ \E a : Answers(d, a)
        \/ Ends(d) \/ UNCHANGED reply
    BY <1>2, <2>2 DEF Handle, KernelFails, AddNATRule, DeleteNATRule, DeleteNone, DeleteOops,
       FormAllNATRules, Other, Hangs
  <2>4. d = c
    BY <1>1, <2>2, <2>3 DEF Answers, IsMap
  <2> QED
    BY <1>2, <2>2, <2>4
<1>4. /\ Message # OnlyHead(n) /\ None # OnlyHead(n) /\ Listing # OnlyHead(n)
      /\ OnlyHead(1) = OnlyHead(n) => n = 1
      /\ OnlyHead(0) = OnlyHead(n) => n = 0
  BY Heads DEF OnlyHead
<1>5. \A r : Answers(c, r) => reply'[c] = r
  BY <1>1 DEF Answers, IsMap
<1>6. ~AddNATRule(c) /\ ~FormAllNATRules(c) /\ ~Hangs(c)
  BY <1>1 DEF AddNATRule, FormAllNATRules, Handles, Hangs
<1>7. ~Other(c) /\ ~KernelFails(c)
  <2>1. ~KernelFails(c)
    BY <1>4, <1>5 DEF KernelFails
  <2>2. ASSUME NEW a, Served(c, a) PROVE a # OnlyHead(n)
    BY <1>4, <2>2 DEF Served, WritesRules, Handles
  <2> QED
    BY <1>5, <2>1, <2>2 DEF Other
<1>8. ~DeleteOops(c)
  <2>1. DeleteOops(c) => reply'[c] = None
    BY <1>1 DEF DeleteOops, Ends, IsMap
  <2> QED
    BY <1>4, <2>1
<1>9. DeleteNATRule(c) => n = 1
  BY <1>4, <1>5 DEF DeleteNATRule
<1>10. DeleteNone(c) => n = 0
  BY <1>4, <1>5 DEF DeleteNone
<1> QED
  BY <1>3, <1>6, <1>7, <1>8, <1>9, <1>10 DEF Handle

\* A deletion that says so takes one rule and leaves the others in their order; it is the
\* one of the row the user named, if the list is what the user saw.
THEOREM RowsDeleted == ExchSpec => DeletesAsShown
<1> DEFINE Goes(c) ==
               \E i \in DOMAIN nats :
                   /\ Len(nats') = Len(nats) - 1
                   /\ \A j \in DOMAIN nats' : nats'[j] = nats[IF j < i THEN j ELSE j + 1]
                   /\ seen[c] # OutOfDate =>
                          /\ req[c].count + 1 \in DOMAIN seen[c]
                          /\ seen[c][req[c].count + 1] = nats[i]
           Deleted(c) ==
               req[c].type = "REQ_DELNATRule" /\ pc[c] = "kernel" =>
                   /\ reply'[c] = OnlyHead(1) => Goes(c)
                   /\ reply'[c] = OnlyHead(0) => nats' = nats
           Body == \A c \in Client : Deleted(c)
<1>1. ASSUME ExchInv, NEW c \in Client, DeleteNATRule(c) PROVE Goes(c)
  <2>1. PICK i \in DOMAIN nats : i = req[c].count + 1 /\ nats' = RemoveAt(nats, i)
    BY <1>1 DEF DeleteNATRule, Unlinks, NatsBecome, Row
  <2>2. nats \in Seq(Rule) /\ Len(nats) \in Nat /\ DOMAIN nats = 1..Len(nats)
    BY <1>1, LenProperties DEF ExchInv, ListInv
  <2>3. /\ nats' \in Seq(Rule) /\ Len(nats') = Len(nats) - 1
        /\ \A j \in 1..(Len(nats) - 1) : nats'[j] = IF j < i THEN nats[j] ELSE nats[j + 1]
    <3>1. /\ RemoveAt(nats, i) \in Seq(Rule) /\ Len(RemoveAt(nats, i)) = Len(nats) - 1
          /\ \A j \in 1..(Len(nats) - 1) :
                 RemoveAt(nats, i)[j] = IF j < i THEN nats[j] ELSE nats[j + 1]
      BY <2>2, RemoveAtFacts
    <3> QED
      BY <2>1, <3>1, Zenon
  <2>4. DOMAIN nats' = 1..(Len(nats) - 1)
    BY <2>3, LenProperties
  <2>5. seen[c] # OutOfDate => seen[c] = nats
    BY <1>1 DEF ExchInv, ClientInv
  <2> QED
    BY <2>1, <2>3, <2>4, <2>5
<1>2. ASSUME ExchInv, [ExchNext]_exchVars, NEW c \in Client PROVE Deleted(c)
  <2> SUFFICES ASSUME req[c].type = "REQ_DELNATRule", pc[c] = "kernel"
               PROVE  /\ reply'[c] = OnlyHead(1) => Goes(c)
                      /\ reply'[c] = OnlyHead(0) => nats' = nats
    OBVIOUS
  <2> HIDE DEF Goes
  <2>1. reply'[c] = OnlyHead(1) => DeleteNATRule(c)
    BY <1>2, Forms
  <2>2. reply'[c] = OnlyHead(0) => DeleteNone(c)
    BY <1>2, Forms
  <2>3. DeleteNone(c) => nats' = nats
    BY DEF DeleteNone
  <2> QED
    BY <1>1, <1>2, <2>1, <2>2, <2>3
<1>3. ExchInv /\ [ExchNext]_exchVars => [Body]_exchVars
  BY <1>2
<1>4. [][Body]_exchVars <=> DeletesAsShown
  BY DEF DeletesAsShown
<1> HIDE DEF Body
<1> QED
  BY <1>3, <1>4, ExchInvariant, PTL DEF ExchSpec

================================================================================
