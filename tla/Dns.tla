-------------------------------- MODULE Dns --------------------------------
(***************************************************************************)
(* The DNS server of the gateway, pkg/services/dns/dns.go: the zones, the  *)
(* handler goroutines that answer queries (one per message), and the HTTP  *)
(* requests that list the zones and that add one.                          *)
(*                                                                         *)
(* A message has one question: the DNS library refuses any other number,   *)
(* and SetReply keeps the first only, so that the loop of addAnswers over  *)
(* the questions runs once.                                                *)
(*                                                                         *)
(* zonesLock is a sync.RWMutex.  A handler holds it for reading over its   *)
(* look-up at the host's resolver, which has no time limit; the listing of *)
(* the zones holds it while it writes to its client.  A writer that waits  *)
(* for the readers keeps new readers out.                                  *)
(*                                                                         *)
(* A name is a model value; InZone tells which zones' names are, behind a  *)
(* dot, a suffix of it.  A record is the set of names it matches (one name *)
(* for Record.Name, any number for Record.Regexp) and an address.  What a  *)
(* look-up returns, the header of the reply and its truncation to the size *)
(* of the transport (all of which depend on the one message only) are left *)
(* out.                                                                    *)
(***************************************************************************)
EXTENDS Integers, Sequences

CONSTANTS
  Handlers,    \* goroutines of the DNS library that run handle
  Listers,     \* goroutines of the HTTP server that run the handler of /all
  Adders,      \* goroutines of the HTTP server that run addZone
  Names,       \* names that may be asked for
  ZoneNames,   \* names of zones
  InZone,      \* InZone[n]: the names of the zones that n belongs to
  IPs,         \* addresses
  NoIP,        \* the empty net.IP
  Configured,  \* configuration.DNS, a sequence of zones
  Requests,    \* the zones that are posted to /add
  Queries,     \* the questions that guests ask
  MaxAdds,     \* bound: zones added over time
  None         \* no adder, or no question

Record   == [names : SUBSET Names, ip : IPs]
Zone     == [name : ZoneNames, records : Seq(Record), default : IPs]
Question == [name : Names, type : STRING]

ASSUME DnsAssumption ==
  /\ MaxAdds \in Nat
  /\ None \notin Adders \cup Question
  /\ Handlers \cap Listers = {}
  /\ InZone \in [Names -> SUBSET ZoneNames]
  /\ NoIP \in IPs
  /\ Configured \in Seq(Zone)
  /\ Requests \subseteq Zone
  /\ Queries \subseteq Question
  /\ \A i, j \in DOMAIN Configured : Configured[i].name = Configured[j].name => i = j

VARIABLES
  zones,      \* dnsHandler.zones
  readers,    \* the goroutines that hold zonesLock for reading
  pending,    \* the adder that has announced itself to the readers, or None
  pc,         \* where each handler is
  question,   \* the question of each handler's message, or None
  answers,    \* what each handler has answered
  rcode,      \* the code of each handler's reply
  log         \* history: the configured zones and, behind them, every request so far

lock == <<readers, pending>>
work == <<pc, question, answers, rcode>>
vars == <<zones, lock, work, log>>

(* The types the resolver of the host is asked for. *)
Forwarded == {"A", "CNAME", "MX", "NS", "SRV", "TXT"}

Init ==
  /\ zones = Configured
  /\ readers = {}
  /\ pending = None
  /\ pc = [h \in Handlers |-> "idle"]
  /\ question = [h \in Handlers |-> None]
  /\ answers = [h \in Handlers |-> <<>>]
  /\ rcode = [h \in Handlers |-> "success"]
  /\ log = Configured

-----------------------------------------------------------------------------
(* Answers from the zones. *)

First(S) == CHOOSE i \in S : \A j \in S : i <= j

(* The zone that answers for n: the first one, however specific; or 0. *)
ZoneOf(n) ==
  LET S == {i \in DOMAIN zones : zones[i].name \in InZone[n]}
  IN  IF S = {} THEN 0 ELSE First(S)

(* The records of a zone that match n. *)
Matching(zone, n) == {j \in DOMAIN zone.records : n \in zone.records[j].names}

(* The zone has an address for n: a record that matches, or a default. *)
HasAnswer(zone, n) == Matching(zone, n) # {} \/ zone.default # NoIP

(* That address: of the first record that matches, else the default. *)
Resolve(zone, n) ==
  LET S == Matching(zone, n)
  IN  IF S = {} THEN zone.default ELSE zone.records[First(S)].ip

-----------------------------------------------------------------------------
(* handle and addAnswers. *)

handle(h, q) ==
  /\ pc[h] = "idle"
  /\ pc' = [pc EXCEPT ![h] = "rlock"]
  /\ question' = [question EXCEPT ![h] = q]
  /\ answers' = [answers EXCEPT ![h] = <<>>]
  /\ rcode' = [rcode EXCEPT ![h] = "success"]
  /\ UNCHANGED <<zones, lock, log>>

addAnswersRLock(h) ==
  /\ pc[h] = "rlock"
  /\ pending = None
  /\ readers' = readers \cup {h}
  /\ pc' = [pc EXCEPT ![h] = "question"]
  /\ UNCHANGED <<zones, pending, question, answers, rcode, log>>

(* Mutant of addAnswersReturn: the lock is kept if there is no answer. *)
addAnswersReturnLocked(h) ==
  /\ pc' = [pc EXCEPT ![h] = "idle"]
  /\ readers' = IF answers'[h] # <<>> THEN readers \ {h} ELSE readers
  /\ UNCHANGED <<zones, pending, question, log>>

(* addAnswers returns through its deferred unlock, and handle sends the    *)
(* reply.                                                                  *)
addAnswersReturn(h) ==
  /\ pc' = [pc EXCEPT ![h] = "idle"]
  /\ readers' = readers \ {h}
  /\ UNCHANGED <<zones, pending, question, log>>

(* A question for one of the zones, whatever it asks, is the zone's. *)
addAnswersZone(h) ==
  /\ pc[h] = "question"
  /\ LET q  == question[h]
         ip == Resolve(zones[ZoneOf(q.name)], q.name)
         found == HasAnswer(zones[ZoneOf(q.name)], q.name)
     IN  /\ ZoneOf(q.name) # 0
         /\ \/ /\ q.type # "A"
               /\ UNCHANGED <<answers, rcode>>
            \/ /\ q.type = "A"
               /\ found
               /\ answers' = [answers EXCEPT ![h] = <<[name |-> q.name, ip |-> ip]>>]
               /\ UNCHANGED rcode
            \/ /\ q.type = "A"
               /\ ~found
               /\ rcode' = [rcode EXCEPT ![h] = "nxdomain"]
               /\ UNCHANGED answers
  /\ addAnswersReturn(h)

(* A question for no zone goes to the resolver. *)
addAnswersForward(h) ==
  /\ pc[h] = "question"
  /\ ZoneOf(question[h].name) = 0
  /\ question[h].type \in Forwarded
  /\ pc' = [pc EXCEPT ![h] = "lookup"]
  /\ UNCHANGED <<zones, lock, question, answers, rcode, log>>

(* The switch has no case for the type: the reply stays empty. *)
addAnswersSkip(h) ==
  /\ pc[h] = "question"
  /\ ZoneOf(question[h].name) = 0
  /\ question[h].type \notin Forwarded
  /\ UNCHANGED <<answers, rcode>>
  /\ addAnswersReturn(h)

(* The resolver answers, and its records are added. *)
LookupSucceeds(h) ==
  /\ pc[h] = "lookup"
  /\ answers' = [answers EXCEPT ![h] = <<[name |-> question[h].name, ip |-> NoIP]>>]
  /\ UNCHANGED rcode
  /\ addAnswersReturn(h)

LookupFails(h) ==
  /\ pc[h] = "lookup"
  /\ rcode' = [rcode EXCEPT ![h] = "nxdomain"]
  /\ UNCHANGED answers
  /\ addAnswersReturn(h)

-----------------------------------------------------------------------------
(* The listing of the zones: locked while the answer is written. *)

allRLock(r) ==
  /\ r \notin readers
  /\ pending = None
  /\ readers' = readers \cup {r}
  /\ UNCHANGED <<zones, pending, work, log>>

allRUnlock(r) ==
  /\ r \in readers
  /\ readers' = readers \ {r}
  /\ UNCHANGED <<zones, pending, work, log>>

-----------------------------------------------------------------------------
(* addZone. *)

(* zonesLock.Lock() keeps new readers out from here on. *)
addZoneLock(w) ==
  /\ pending = None
  /\ Len(log) < Len(Configured) + MaxAdds
  /\ pending' = w
  /\ UNCHANGED <<zones, readers, work, log>>

(* Mutant of Merge: the new records come last. *)
MergeAppended(zone, req) == [req EXCEPT !.records = zone.records \o @]

(* A zone that is added again: the new records come first, and the default *)
(* is the new one, empty or not.                                           *)
Merge(zone, req) == [req EXCEPT !.records = @ \o zone.records]

addZone(w, req) ==
  LET S == {i \in DOMAIN zones : zones[i].name = req.name}
  IN  /\ pending = w
      /\ readers = {}
      /\ zones' = IF S = {} THEN Append(zones, req)
                  ELSE [zones EXCEPT ![First(S)] = Merge(@, req)]
      /\ log' = Append(log, req)
      /\ pending' = None
      /\ UNCHANGED <<readers, work>>

-----------------------------------------------------------------------------
addAnswers(h) ==
  \/ addAnswersRLock(h)
  \/ addAnswersZone(h)
  \/ addAnswersForward(h)
  \/ addAnswersSkip(h)
  \/ LookupSucceeds(h)
  \/ LookupFails(h)

Next ==
  \/ \E h \in Handlers : addAnswers(h) \/ \E q \in Queries : handle(h, q)
  \/ \E r \in Listers : allRLock(r) \/ allRUnlock(r)
  \/ \E w \in Adders : addZoneLock(w) \/ \E req \in Requests : addZone(w, req)

Spec == Init /\ [][Next]_vars

(***************************************************************************)
(* Fairness.  Goroutines run.  When a writer unlocks, the readers that     *)
(* have been waiting get the lock before another writer does, so a reader  *)
(* that waits for a lock that is free again and again obtains it.  The     *)
(* listing of the zones ends: the HTTP server's WriteTimeout cuts off a    *)
(* client that does not read.  Nothing is assumed about the resolver: a    *)
(* look-up may never return.                                               *)
(***************************************************************************)
Fairness ==
  /\ \A h \in Handlers :
       /\ SF_vars(addAnswersRLock(h))
       /\ WF_vars(addAnswersZone(h) \/ addAnswersForward(h) \/ addAnswersSkip(h))
  /\ \A r \in Listers : WF_vars(allRUnlock(r))
  /\ \A w \in Adders : WF_vars(\E req \in Requests : addZone(w, req))

FairSpec == Spec /\ Fairness

-----------------------------------------------------------------------------
(* Properties. *)

(* Type invariant of the zones, the lock and the handlers. *)
TypeOK ==
  /\ zones \in Seq(Zone)
  /\ log \in Seq(Zone)
  /\ readers \subseteq Handlers \cup Listers
  /\ \A h \in Handlers : h \in readers <=> pc[h] \in {"question", "lookup"}
  /\ pending \in Adders \cup {None}
  /\ pc \in [Handlers -> {"idle", "rlock", "question", "lookup"}]
  /\ question \in [Handlers -> Question \cup {None}]
  /\ answers \in [Handlers -> Seq([name : Names, ip : IPs])]
  /\ rcode \in [Handlers -> {"success", "nxdomain"}]

(* The server as ZoneHistory sees it: a handler answers when it returns. *)
History == INSTANCE ZoneHistory WITH
  Clients <- Handlers,
  waiting <- {h \in Handlers : pc[h] # "idle"},
  reply   <- [h \in Handlers |->
                IF pc[h] = "idle" THEN [answers |-> answers[h], rcode |-> rcode[h]]
                ELSE [answers |-> <<>>, rcode |-> "success"]]

(***************************************************************************)
(* The server implements the history: a query is answered at one moment    *)
(* between its arrival and its reply, from everything that had been added  *)
(* by then and nothing else, although its goroutine may wait for the       *)
(* resolver and zones are merged in place, records before those of earlier *)
(* requests and the default whatever the last request says.                *)
(***************************************************************************)
ImplementsZoneHistory == History!Spec

(* Somebody holds the lock over a look-up, and somebody wants to add a zone. *)
Stalled == pending # None /\ \E h \in Handlers : pc[h] = "lookup"

(***************************************************************************)
(* A query does not wait for the look-ups of other queries, however long   *)
(* they take, unless a zone is being added meanwhile; and adding a zone    *)
(* waits for nothing but look-ups: not for ever for those who list the     *)
(* zones, and for no query that has been replied to.                       *)
(***************************************************************************)
WaitsOnlyForLookups ==
  /\ \A h \in Handlers : pc[h] = "rlock" ~> (pc[h] # "rlock" \/ Stalled)
  /\ \A w \in Adders : pending = w ~> (pending # w \/ Stalled)
=============================================================================
