---------------------------- MODULE ZoneHistory ----------------------------
(***************************************************************************)
(* What the DNS server promises, without its list of zones, its lock and   *)
(* its goroutines: the requests to add a zone form a history, and each     *)
(* query is answered at one moment: from the history as it is then, if the *)
(* name is one of a zone's, and else by the host's resolver.               *)
(***************************************************************************)
EXTENDS Integers, Sequences

CONSTANTS
  Clients,     \* who may have a query under way
  InZone,      \* InZone[n]: the names of the zones that n belongs to
  NoIP,        \* no address
  Forwarded,   \* the types the resolver is asked for
  Configured,  \* the history a server starts with
  Requests,    \* the zones that may be added
  Queries,     \* the questions that may be asked
  None         \* no question

VARIABLES
  log,         \* the configured zones and, behind them, every zone added
  waiting,     \* the clients that have no reply yet
  question,    \* the last question of each client, or None
  reply        \* the last reply to each client

vars == <<log, waiting, question, reply>>

Unanswered == [answers |-> <<>>, rcode |-> "success"]

First(S) == CHOOSE i \in S : \A j \in S : i <= j
Last(S)  == CHOOSE i \in S : \A j \in S : i >= j

(* The name is one of a zone's. *)
Known(n) == \E i \in DOMAIN log : log[i].name \in InZone[n]

(* The entries of the history for the zone of n: of the zones that match,  *)
(* the one that was introduced first.                                      *)
Entries(n) ==
  LET zone == log[First({i \in DOMAIN log : log[i].name \in InZone[n]})].name
  IN  {i \in DOMAIN log : log[i].name = zone}

(* Those with a record for n, and the records of an entry that match it. *)
Matching(zone, n) == {j \in DOMAIN zone.records : n \in zone.records[j].names}
Hits(n) == {i \in Entries(n) : Matching(log[i], n) # {}}

(* The zone of n has an address for it: a record, or a default at last. *)
Found(n) == Hits(n) # {} \/ log[Last(Entries(n))].default # NoIP

(* That address: the records introduced last come before those introduced  *)
(* earlier; of the defaults, only the last counts, even if it is empty.    *)
Address(n) ==
  IF Hits(n) = {} THEN log[Last(Entries(n))].default
  ELSE LET zone == log[Last(Hits(n))]
       IN  zone.records[First(Matching(zone, n))].ip

NoAnswer == [answers |-> <<>>, rcode |-> "nxdomain"]
OneAnswer(n, ip) == [answers |-> <<[name |-> n, ip |-> ip]>>, rcode |-> "success"]

(* The replies to a question for a zone, which gives addresses only. *)
ZoneReplies(q) ==
  IF q.type # "A" THEN {Unanswered}
  ELSE IF Found(q.name) THEN {OneAnswer(q.name, Address(q.name))}
  ELSE {NoAnswer}

(* The replies to any other, which the resolver may answer or not. *)
ResolverReplies(q) ==
  IF q.type \in Forwarded THEN {OneAnswer(q.name, NoIP), NoAnswer} ELSE {Unanswered}

RepliesTo(q) == IF Known(q.name) THEN ZoneReplies(q) ELSE ResolverReplies(q)

-----------------------------------------------------------------------------
Init ==
  /\ log = Configured
  /\ waiting = {}
  /\ question = [c \in Clients |-> None]
  /\ reply = [c \in Clients |-> Unanswered]

Ask(c, q) ==
  /\ c \notin waiting
  /\ waiting' = waiting \cup {c}
  /\ question' = [question EXCEPT ![c] = q]
  /\ reply' = [reply EXCEPT ![c] = Unanswered]
  /\ UNCHANGED log

Answer(c) ==
  /\ c \in waiting
  /\ waiting' = waiting \ {c}
  /\ \E r \in RepliesTo(question[c]) : reply' = [reply EXCEPT ![c] = r]
  /\ UNCHANGED <<log, question>>

Add(req) ==
  /\ log' = Append(log, req)
  /\ UNCHANGED <<waiting, question, reply>>

Next ==
  \/ \E c \in Clients : Answer(c) \/ \E q \in Queries : Ask(c, q)
  \/ \E req \in Requests : Add(req)

Spec == Init /\ [][Next]_vars
=============================================================================
