------------------------------ MODULE DnsProofs ------------------------------
(***************************************************************************)
(* Proofs about Dns, for any zones, any queries and any number of handlers *)
(* and HTTP requests: the server implements the history of requests of     *)
(* ZoneHistory.                                                            *)
(***************************************************************************)
EXTENDS Dns, SequenceTheorems, WellFoundedInduction, TLAPS

-----------------------------------------------------------------------------
(* The least and the greatest element of a set. *)

LEMMA FirstProperties ==
  ASSUME NEW S \in SUBSET Nat, S # {}
  PROVE  First(S) \in S /\ \A j \in S : First(S) <= j
  <1> DEFINE R == {p \in Nat \X Nat : p[1] < p[2]}
  <1>1. IsWellFoundedOn(R, Nat)
    BY NatLessThanWellFounded, Zenon DEF OpToRel
  <1> HIDE DEF R
  <1>2. PICK x \in S : \A y \in S : ~(<<y, x>> \in R)
    BY <1>1, WFMin
  <1>3. ASSUME NEW y \in S PROVE x <= y
    <2>1. x \in Nat /\ y \in Nat
      OBVIOUS
    <2>2. ~(y < x)
      BY <1>2, <2>1 DEF R
    <2>3. QED
      BY <2>1, <2>2
  <1>4. QED
    BY <1>3 DEF First

(* The element below all others is the first. *)
LEMMA FirstIs ==
  ASSUME NEW S \in SUBSET Nat, NEW x \in S, \A j \in S : x <= j
  PROVE  First(S) = x
  <1>1. PICK y \in S : y = First(S) /\ \A j \in S : y <= j
    BY DEF First
  <1>2. x \in Nat /\ y \in Nat /\ x <= y /\ y <= x
    BY <1>1
  <1>3. QED
    BY <1>1, <1>2

(* The element above all others is the last. *)
LEMMA LastIs ==
  ASSUME NEW S \in SUBSET Nat, NEW x \in S, \A j \in S : x >= j
  PROVE  History!Last(S) = x
  <1>1. PICK y \in S : y = History!Last(S) /\ \A j \in S : y >= j
    BY DEF History!Last
  <1>2. x \in Nat /\ y \in Nat /\ x >= y /\ y >= x
    BY <1>1
  <1>3. QED
    BY <1>1, <1>2

-----------------------------------------------------------------------------
(* The inductive invariant. *)

(* The requests for the i-th zone, and those of them with a record for n. *)
RequestsFor(i) == {k \in DOMAIN log : log[k].name = zones[i].name}
HitsFor(i, n)  == {k \in RequestsFor(i) : Matching(log[k], n) # {}}

(***************************************************************************)
(* The zones are in the order of their first requests, and every request   *)
(* belongs to one.                                                         *)
(***************************************************************************)
OrderInv ==
  /\ \A i \in DOMAIN zones : RequestsFor(i) # {}
  /\ \A i, j \in DOMAIN zones : i < j => First(RequestsFor(i)) < First(RequestsFor(j))
  /\ \A k \in DOMAIN log : \E i \in DOMAIN zones : zones[i].name = log[k].name

(* The default of a zone is that of its last request. *)
DefaultInv == \A i \in DOMAIN zones : zones[i].default = log[History!Last(RequestsFor(i))].default

(* The record of zone z that answers for n. *)
FirstMatch(z, n) == z.records[First(Matching(z, n))]

(***************************************************************************)
(* The first record of a zone that matches a name is the first one that    *)
(* matches it of the last request that has any.                            *)
(***************************************************************************)
RecordInv ==
  \A i \in DOMAIN zones, n \in Names :
    /\ Matching(zones[i], n) = {} <=> HitsFor(i, n) = {}
    /\ HitsFor(i, n) # {} =>
         FirstMatch(zones[i], n) = FirstMatch(log[History!Last(HitsFor(i, n))], n)

(***************************************************************************)
(* A handler that has not replied yet has a question and nothing in its    *)
(* reply; one that waits for the resolver asks it for a name of no zone.   *)
(***************************************************************************)
HandlerOK(h) ==
  /\ pc[h] # "idle" =>
       question[h] \in Question /\ answers[h] = <<>> /\ rcode[h] = "success"
  /\ pc[h] = "lookup" =>
       question[h].type \in Forwarded /\ ZoneOf(question[h].name) = 0

HandlerInv == \A h \in Handlers : HandlerOK(h)

IInv ==
  /\ TypeOK
  /\ OrderInv
  /\ DefaultInv
  /\ RecordInv
  /\ HandlerInv

-----------------------------------------------------------------------------
(* Types. *)

(* The zone that is found is the first of those that the name belongs to. *)
LEMMA ZoneOfProperties ==
  ASSUME zones \in Seq(Zone), NEW n
  PROVE  /\ ZoneOf(n) = 0 <=> \A i \in DOMAIN zones : zones[i].name \notin InZone[n]
         /\ ZoneOf(n) # 0 =>
              /\ ZoneOf(n) \in DOMAIN zones
              /\ zones[ZoneOf(n)].name \in InZone[n]
              /\ \A i \in DOMAIN zones : zones[i].name \in InZone[n] => ZoneOf(n) <= i
  <1> DEFINE S == {i \in DOMAIN zones : zones[i].name \in InZone[n]}
  <1>1. DOMAIN zones \subseteq Nat \ {0}
    BY LenProperties
  <1>2. S \in SUBSET Nat /\ 0 \notin S
    BY <1>1
  <1>3. ZoneOf(n) = IF S = {} THEN 0 ELSE First(S)
    BY DEF ZoneOf
  <1>4. S # {} => First(S) \in S /\ \A j \in S : First(S) <= j
    BY <1>2, FirstProperties
  <1>5. QED
    BY <1>2, <1>3, <1>4

(* What a zone answers is an address. *)
LEMMA ResolveType ==
  ASSUME NEW zone \in Zone, NEW n
  PROVE  Resolve(zone, n) \in IPs
  <1>1. zone.default \in IPs /\ zone.records \in Seq(Record)
    BY DEF Zone
  <1>2. Matching(zone, n) \in SUBSET Nat /\ Matching(zone, n) \subseteq DOMAIN zone.records
    BY <1>1, LenProperties DEF Matching
  <1>3. ASSUME Matching(zone, n) # {}
        PROVE  zone.records[First(Matching(zone, n))].ip \in IPs
    <2>1. First(Matching(zone, n)) \in DOMAIN zone.records
      BY <1>2, <1>3, FirstProperties
    <2>2. zone.records[First(Matching(zone, n))] \in Record
      BY <1>1, <2>1, LenProperties
    <2>3. QED
      BY <2>2 DEF Record
  <1>4. QED
    BY <1>1, <1>3 DEF Resolve

(* A zone that is added again stays a zone. *)
LEMMA MergeType ==
  ASSUME NEW zone \in Zone, NEW req \in Zone
  PROVE  /\ Merge(zone, req) \in Zone
         /\ Merge(zone, req).name = req.name
         /\ Merge(zone, req).default = req.default
         /\ Merge(zone, req).records = req.records \o zone.records
  <1>1. req.records \o zone.records \in Seq(Record)
    BY ConcatProperties DEF Zone
  <1>2. QED
    BY <1>1 DEF Merge, Zone

(* A reply with one address. *)
LEMMA AnswerType ==
  ASSUME TypeOK, NEW h \in Handlers, NEW n \in Names, NEW ip \in IPs
  PROVE  [answers EXCEPT ![h] = <<[name |-> n, ip |-> ip]>>]
           \in [Handlers -> Seq([name : Names, ip : IPs])]
  <1>1. [name |-> n, ip |-> ip] \in [name : Names, ip : IPs]
    OBVIOUS
  <1>2. <<[name |-> n, ip |-> ip]>> \in Seq([name : Names, ip : IPs])
    BY <1>1
  <1>3. QED
    BY <1>2 DEF TypeOK

(* Every action preserves the types. *)
LEMMA TypeStep ==
  ASSUME TypeOK, HandlerInv, [Next]_vars
  PROVE  TypeOK'
  <1> USE DEF lock, work
  <1>1. ASSUME NEW h \in Handlers, NEW q \in Queries, handle(h, q)
        PROVE  TypeOK'
    <2>1. q \in Question /\ <<>> \in Seq([name : Names, ip : IPs])
      BY DnsAssumption, EmptySeq
    <2>2. QED
      BY <1>1, <2>1 DEF TypeOK, handle
  <1>2. ASSUME NEW h \in Handlers, addAnswersRLock(h) \/ addAnswersForward(h)
        PROVE  TypeOK'
    BY <1>2 DEF TypeOK, addAnswersRLock, addAnswersForward
  <1>3. ASSUME NEW h \in Handlers, addAnswersReturn(h),
               answers' \in [Handlers -> Seq([name : Names, ip : IPs])],
               rcode' \in [Handlers -> {"success", "nxdomain"}]
        PROVE  TypeOK'
    BY <1>3 DEF TypeOK, addAnswersReturn
  <1>4. ASSUME NEW h \in Handlers, pc[h] # "idle"
        PROVE  question[h].name \in Names
    BY <1>4 DEF HandlerInv, HandlerOK, Question
  <1>5. ASSUME NEW h \in Handlers, addAnswersZone(h)
        PROVE  TypeOK'
    <2> DEFINE n == question[h].name
               ip == Resolve(zones[ZoneOf(n)], n)
    <2>1. n \in Names
      BY <1>4, <1>5 DEF addAnswersZone
    <2>2. ip \in IPs
      <3>1. ZoneOf(n) \in DOMAIN zones
        BY <1>5, ZoneOfProperties DEF addAnswersZone, TypeOK
      <3>2. zones[ZoneOf(n)] \in Zone
        BY <3>1, LenProperties DEF TypeOK
      <3>3. QED
        BY <3>2, ResolveType
    <2> DEFINE Answered == [answers EXCEPT ![h] = <<[name |-> n, ip |-> ip]>>]
    <2>3. /\ answers' = answers \/ answers' = Answered
          /\ rcode' = rcode \/ rcode' = [rcode EXCEPT ![h] = "nxdomain"]
      BY <1>5 DEF addAnswersZone
    <2>4. addAnswersReturn(h)
      BY <1>5 DEF addAnswersZone
    <2> HIDE DEF n, ip
    <2>5. /\ answers' \in [Handlers -> Seq([name : Names, ip : IPs])]
          /\ rcode' \in [Handlers -> {"success", "nxdomain"}]
      <3>1. Answered \in [Handlers -> Seq([name : Names, ip : IPs])]
        BY <2>1, <2>2, AnswerType
      <3> HIDE DEF Answered
      <3>2. QED
        BY <2>3, <3>1 DEF TypeOK
    <2>6. QED
      BY <1>3, <2>4, <2>5
  <1>6. ASSUME NEW h \in Handlers, LookupSucceeds(h)
        PROVE  TypeOK'
    <2>1. question[h].name \in Names
      BY <1>4, <1>6 DEF LookupSucceeds
    <2>2. answers' \in [Handlers -> Seq([name : Names, ip : IPs])]
      BY <1>6, <2>1, AnswerType, DnsAssumption DEF LookupSucceeds
    <2>3. QED
      BY <1>3, <1>6, <2>2 DEF TypeOK, LookupSucceeds
  <1>7. ASSUME NEW h \in Handlers, LookupFails(h) \/ addAnswersSkip(h)
        PROVE  TypeOK'
    BY <1>3, <1>7 DEF LookupFails, addAnswersSkip, TypeOK
  <1>8. ASSUME NEW r \in Listers, allRLock(r) \/ allRUnlock(r)
        PROVE  TypeOK'
    <2>1. r \notin Handlers
      BY DnsAssumption
    <2>2. QED
      BY <1>8, <2>1 DEF TypeOK, allRLock, allRUnlock
  <1>9. ASSUME NEW w \in Adders, addZoneLock(w)
        PROVE  TypeOK'
    BY <1>9 DEF TypeOK, addZoneLock
  <1>10. ASSUME NEW w \in Adders, NEW req \in Requests, addZone(w, req)
         PROVE  TypeOK'
    <2> DEFINE S == {i \in DOMAIN zones : zones[i].name = req.name}
    <2>1. req \in Zone
      BY DnsAssumption
    <2>2. zones' \in Seq(Zone)
      <3>1. CASE S = {}
        BY <1>10, <2>1, <3>1, AppendProperties DEF addZone, TypeOK
      <3>2. CASE S # {}
        <4>1. S \in SUBSET Nat
          BY LenProperties DEF TypeOK
        <4>2. First(S) \in 1 .. Len(zones)
          BY <3>2, <4>1, FirstProperties, LenProperties DEF TypeOK
        <4>3. Merge(zones[First(S)], req) \in Zone
          BY <2>1, <4>2, MergeType, ElementOfSeq DEF TypeOK
        <4>4. zones' = [zones EXCEPT ![First(S)] = Merge(zones[First(S)], req)]
          BY <1>10, <3>2 DEF addZone
        <4>5. QED
          BY <4>2, <4>3, <4>4, ExceptSeq DEF TypeOK
      <3>3. QED
        BY <3>1, <3>2
    <2>3. log' \in Seq(Zone)
      BY <1>10, <2>1, AppendProperties DEF addZone, TypeOK
    <2>4. QED
      BY <1>10, <2>2, <2>3 DEF TypeOK, addZone
  <1>11. CASE UNCHANGED vars
    BY <1>11 DEF TypeOK, vars
  <1>12. QED
    BY <1>1, <1>2, <1>5, <1>6, <1>7, <1>8, <1>9, <1>10, <1>11 DEF Next, addAnswers

-----------------------------------------------------------------------------
(* The zones and the history of requests. *)

(* What addZone does: the request is for one zone, new or not, and the     *)
(* other zones and their requests stay as they are.                        *)
LEMMA AddZoneEffect ==
  ASSUME TypeOK, OrderInv, NEW w, NEW req \in Requests, addZone(w, req)
  PROVE  LET L == Len(log) + 1 IN
         /\ DOMAIN log = 1 .. Len(log) /\ DOMAIN log' = 1 .. L /\ L \in Nat
         /\ log'[L] = req
         /\ \A k \in DOMAIN log : log'[k] = log[k]
         /\ \E m \in Nat :
              /\ DOMAIN zones' = DOMAIN zones \cup {m}
              /\ zones'[m].name = req.name
              /\ zones'[m].default = req.default
              /\ m \in DOMAIN zones =>
                   /\ zones'[m] = Merge(zones[m], req)
                   /\ zones[m].name = req.name
                   /\ RequestsFor(m)' = RequestsFor(m) \cup {L}
              /\ m \notin DOMAIN zones =>
                   /\ zones'[m] = req
                   /\ RequestsFor(m)' = {L}
                   /\ \A i \in DOMAIN zones : i < m
              /\ \A i \in DOMAIN zones \ {m} :
                   zones'[i] = zones[i] /\ RequestsFor(i)' = RequestsFor(i)
  <1> DEFINE L == Len(log) + 1
             S == {i \in DOMAIN zones : zones[i].name = req.name}
  <1>1. req \in Zone
    BY DnsAssumption
  <1>2. /\ DOMAIN log = 1 .. Len(log) /\ DOMAIN log' = 1 .. L /\ L \in Nat
        /\ log'[L] = req
        /\ \A k \in DOMAIN log : log'[k] = log[k]
    <2>1. log \in Seq(Zone) /\ log' = Append(log, req)
      BY DEF TypeOK, addZone
    <2>2. QED
      BY <1>1, <2>1, AppendProperties, LenProperties
  <1>3. L \notin DOMAIN log /\ DOMAIN log' = DOMAIN log \cup {L}
    BY <1>2
  <1>4. zones \in Seq(Zone) /\ DOMAIN zones = 1 .. Len(zones) /\ Len(zones) \in Nat
    BY LenProperties DEF TypeOK
  <1>5. ASSUME NEW i \in DOMAIN zones, NEW j \in DOMAIN zones, zones[i].name = zones[j].name
        PROVE  i = j
    <2>1. RequestsFor(i) = RequestsFor(j)
      BY <1>5 DEF RequestsFor
    <2>2. RequestsFor(i) # {} /\ RequestsFor(i) \in SUBSET Nat
      BY <1>2 DEF OrderInv, RequestsFor
    <2>3. First(RequestsFor(i)) \in Nat
      BY <2>2, FirstProperties
    <2>4. ~(i < j) /\ ~(j < i)
      BY <2>1, <2>3 DEF OrderInv
    <2>5. QED
      BY <1>4, <2>4
  <1> HIDE DEF L
  <1>6. ASSUME NEW i, zones'[i].name # req.name, zones'[i].name = zones[i].name
        PROVE  RequestsFor(i)' = RequestsFor(i)
    BY <1>2, <1>3, <1>6 DEF RequestsFor
  <1>7. ASSUME NEW i, zones'[i].name = req.name
        PROVE  RequestsFor(i)' = {k \in DOMAIN log : log[k].name = req.name} \cup {L}
    BY <1>2, <1>3, <1>7 DEF RequestsFor
  <1>8. CASE S = {}
    <2> PICK m : m = Len(zones) + 1
      OBVIOUS
    <2>1. zones' = Append(zones, req)
      BY <1>8 DEF addZone
    <2>2. /\ m \in Nat /\ m \notin DOMAIN zones /\ \A i \in DOMAIN zones : i < m
          /\ DOMAIN zones' = DOMAIN zones \cup {m}
          /\ zones'[m] = req
          /\ \A i \in DOMAIN zones : zones'[i] = zones[i]
      BY <1>1, <1>4, <2>1, AppendProperties
    <2>3. \A k \in DOMAIN log : log[k].name # req.name
      BY <1>8 DEF OrderInv
    <2>4. RequestsFor(m)' = {L}
      BY <1>7, <2>2, <2>3
    <2>5. \A i \in DOMAIN zones \ {m} : RequestsFor(i)' = RequestsFor(i)
      BY <1>6, <1>8, <2>2
    <2>6. QED
      BY <1>2, <2>2, <2>4, <2>5 DEF L
  <1>9. CASE S # {}
    <2> PICK m : m = First(S)
      OBVIOUS
    <2>1. S \in SUBSET Nat
      BY <1>4
    <2>2. m \in S
      BY <1>9, <2>1, FirstProperties
    <2>3. zones' = [zones EXCEPT ![m] = Merge(zones[m], req)]
      BY <1>9 DEF addZone
    <2>4. m \in Nat /\ m \in DOMAIN zones /\ zones[m].name = req.name /\ zones[m] \in Zone
      BY <1>4, <2>2
    <2>5. Merge(zones[m], req).name = req.name /\ Merge(zones[m], req).default = req.default
      BY <1>1, <2>4, MergeType
    <2>6. /\ DOMAIN zones' = DOMAIN zones
          /\ zones'[m] = Merge(zones[m], req)
          /\ \A i \in DOMAIN zones \ {m} : zones'[i] = zones[i]
      BY <1>4, <2>3, <2>4
    <2>7. RequestsFor(m)' = RequestsFor(m) \cup {L}
      <3>1. RequestsFor(m) = {k \in DOMAIN log : log[k].name = req.name}
        BY <2>4 DEF RequestsFor
      <3>2. RequestsFor(m)' = {k \in DOMAIN log : log[k].name = req.name} \cup {L}
        BY <1>7, <2>5, <2>6
      <3>3. QED
        BY <3>1, <3>2
    <2>8. \A i \in DOMAIN zones \ {m} : RequestsFor(i)' = RequestsFor(i)
      BY <1>5, <1>6, <2>4, <2>6
    <2>9. DOMAIN zones' = DOMAIN zones \cup {m}
      BY <2>4, <2>6
    <2>10. QED
      BY <1>2, <2>4, <2>5, <2>6, <2>7, <2>8, <2>9 DEF L
  <1>10. QED
    BY <1>8, <1>9
(* A set of positive numbers with a bound has a last element. *)
LEMMA LastProperties ==
  ASSUME NEW b \in Nat, NEW S \in SUBSET (1 .. b), S # {}
  PROVE  History!Last(S) \in S /\ \A j \in S : History!Last(S) >= j
  <1> DEFINE T == {b - j : j \in S}
  <1>1. T \in SUBSET Nat /\ T # {}
    OBVIOUS
  <1>2. First(T) \in T /\ \A t \in T : First(T) <= t
    <2> HIDE DEF T
    <2>1. QED
      BY <1>1, FirstProperties
  <1>3. PICK x \in S : First(T) = b - x
    BY <1>2
  <1>4. ASSUME NEW j \in S PROVE x >= j
    <2>1. b - x <= b - j
      BY <1>2, <1>3
    <2>2. x \in Nat /\ j \in Nat
      OBVIOUS
    <2>3. QED
      BY <2>1, <2>2
  <1>5. S \in SUBSET Nat
    OBVIOUS
  <1>6. History!Last(S) = x
    BY <1>4, <1>5, LastIs
  <1>7. QED
    BY <1>4, <1>6

(* r consists of a and, behind it, c, and l and k are their lengths. *)
IsConcat(r, a, c, l, k) ==
  /\ l \in Nat /\ k \in Nat
  /\ DOMAIN a = 1 .. l /\ DOMAIN c = 1 .. k /\ DOMAIN r = 1 .. l + k
  /\ \A j \in 1 .. l : r[j] = a[j]
  /\ \A j \in 1 .. k : r[l + j] = c[j]

(* The elements of a concatenation. *)
LEMMA ConcatElements ==
  ASSUME NEW X, NEW a \in Seq(X), NEW c \in Seq(X)
  PROVE  IsConcat(a \o c, a, c, Len(a), Len(c))
  <1>1. DOMAIN a = 1 .. Len(a) /\ DOMAIN c = 1 .. Len(c)
    BY LenProperties
  <1>2. Len(a) \in Nat /\ Len(c) \in Nat
    BY LenProperties
  <1>3. \A j \in 1 .. Len(a) + Len(c) : (a \o c)[j] = IF j <= Len(a) THEN a[j] ELSE c[j - Len(a)]
    BY ConcatProperties
  <1>4. DOMAIN (a \o c) = 1 .. Len(a) + Len(c)
    BY ConcatProperties, LenProperties
  <1> DEFINE l == Len(a)
             k == Len(c)
             r == a \o c
  <1> HIDE DEF l, k, r
  <1>5. l \in Nat /\ k \in Nat /\ \A j \in 1 .. l + k : r[j] = IF j <= l THEN a[j] ELSE c[j - l]
    BY <1>2, <1>3 DEF l, k, r
  <1>6. \A j \in 1 .. l : r[j] = a[j]
    BY <1>5
  <1>7. ASSUME NEW j \in 1 .. k PROVE r[l + j] = c[j]
    <2>1. l + j \in 1 .. l + k /\ ~(l + j <= l) /\ (l + j) - l = j
      BY <1>5
    <2>2. QED
      BY <1>5, <2>1
  <1>8. DOMAIN a = 1 .. l /\ DOMAIN c = 1 .. k /\ DOMAIN r = 1 .. l + k
    BY <1>1, <1>4 DEF l, k, r
  <1>9. IsConcat(r, a, c, l, k)
    BY <1>5, <1>6, <1>7, <1>8 DEF IsConcat
  <1>10. QED
    BY <1>9 DEF l, k, r

(* The places of the records for n in a list of records. *)
PlacesOf(s, n) == {j \in DOMAIN s : n \in s[j].names}

(* The first record for a name in a concatenation of two lists of records. *)
LEMMA ConcatFirst ==
  ASSUME NEW a, NEW c, NEW r, NEW n, NEW l, NEW k, IsConcat(r, a, c, l, k)
  PROVE  /\ PlacesOf(a, n) # {} => PlacesOf(r, n) # {} /\ r[First(PlacesOf(r, n))] = a[First(PlacesOf(a, n))]
         /\ PlacesOf(a, n) = {} =>
              /\ PlacesOf(r, n) = {} <=> PlacesOf(c, n) = {}
              /\ PlacesOf(c, n) # {} => r[First(PlacesOf(r, n))] = c[First(PlacesOf(c, n))]
  <1> DEFINE A == PlacesOf(a, n)
             C == PlacesOf(c, n)
             R == PlacesOf(r, n)
  <1> USE DEF IsConcat
  <1>1. A \in SUBSET Nat /\ C \in SUBSET Nat /\ R \in SUBSET Nat
    BY DEF PlacesOf
  <1>2. ASSUME A # {}
        PROVE  R # {} /\ r[First(R)] = a[First(A)]
    <2> DEFINE x == First(A)
    <2>1. x \in A /\ \A j \in A : x <= j
      BY <1>1, <1>2, FirstProperties
    <2> HIDE DEF x
    <2>2. x \in R
      BY <2>1 DEF PlacesOf
    <2>3. ASSUME NEW j \in R PROVE x <= j
      <3>1. CASE j <= l
        BY <2>1, <3>1 DEF PlacesOf
      <3>2. CASE ~(j <= l)
        BY <2>1, <3>2 DEF PlacesOf
      <3>3. QED
        BY <3>1, <3>2
    <2>4. First(R) = x
      BY <1>1, <2>2, <2>3, FirstIs
    <2>5. QED
      BY <2>1, <2>2, <2>4 DEF x, PlacesOf
  <1>3. ASSUME A = {}, NEW j \in R
        PROVE  j - l \in C
    <2>1. ~(j <= l)
      BY <1>3 DEF PlacesOf
    <2>2. j - l \in 1 .. k /\ l + (j - l) = j
      BY <2>1 DEF PlacesOf
    <2>3. r[j] = c[j - l]
      BY <2>2
    <2>4. QED
      BY <2>2, <2>3 DEF PlacesOf
  <1>4. ASSUME NEW j \in C
        PROVE  l + j \in R /\ r[l + j] = c[j]
    BY DEF PlacesOf
  <1>5. ASSUME A = {}, C # {}
        PROVE  r[First(R)] = c[First(C)]
    <2> DEFINE x == First(C)
    <2>1. x \in C /\ \A j \in C : x <= j
      BY <1>1, <1>5, FirstProperties
    <2> HIDE DEF x
    <2>2. l + x \in R /\ r[l + x] = c[x]
      BY <1>4, <2>1
    <2>3. ASSUME NEW j \in R PROVE l + x <= j
      <3>1. x <= j - l
        BY <1>3, <1>5, <2>1
      <3>2. x \in Nat /\ j \in Nat
        BY <1>1, <2>1
      <3>3. QED
        BY <3>1, <3>2
    <2>4. First(R) = l + x
      BY <1>1, <2>2, <2>3, FirstIs
    <2>5. QED
      BY <2>2, <2>4 DEF x
  <1>6. A = {} => (R = {} <=> C = {})
    BY <1>3, <1>4
  <1> HIDE DEF A, C, R
  <1>7. QED
    BY <1>2, <1>5, <1>6 DEF A, C, R

(* The records of a zone that is added again: those of the request come    *)
(* first.                                                                  *)
LEMMA MergeMatching ==
  ASSUME NEW zone \in Zone, NEW req \in Zone, NEW n
  PROVE  /\ Matching(req, n) # {} =>
              /\ Matching(Merge(zone, req), n) # {}
              /\ FirstMatch(Merge(zone, req), n) = FirstMatch(req, n)
         /\ Matching(req, n) = {} =>
              /\ Matching(Merge(zone, req), n) = {} <=> Matching(zone, n) = {}
              /\ Matching(zone, n) # {} =>
                   FirstMatch(Merge(zone, req), n) = FirstMatch(zone, n)
  <1> DEFINE a == req.records
             c == zone.records
             r == Merge(zone, req).records
  <1>1. a \in Seq(Record) /\ c \in Seq(Record) /\ r = a \o c
    BY MergeType DEF Zone
  <1> HIDE DEF a, c, r
  <1>2. IsConcat(r, a, c, Len(a), Len(c))
    BY <1>1, ConcatElements
  <1>3. /\ PlacesOf(a, n) # {} => PlacesOf(r, n) # {} /\ r[First(PlacesOf(r, n))] = a[First(PlacesOf(a, n))]
        /\ PlacesOf(a, n) = {} =>
             /\ PlacesOf(r, n) = {} <=> PlacesOf(c, n) = {}
             /\ PlacesOf(c, n) # {} => r[First(PlacesOf(r, n))] = c[First(PlacesOf(c, n))]
    BY <1>2, ConcatFirst
  <1>4. /\ Matching(req, n) = PlacesOf(a, n)
        /\ Matching(zone, n) = PlacesOf(c, n)
        /\ Matching(Merge(zone, req), n) = PlacesOf(r, n)
    BY DEF Matching, PlacesOf, a, c, r
  <1>5. /\ FirstMatch(req, n) = a[First(PlacesOf(a, n))]
        /\ FirstMatch(zone, n) = c[First(PlacesOf(c, n))]
        /\ FirstMatch(Merge(zone, req), n) = r[First(PlacesOf(r, n))]
    BY DEF FirstMatch, Matching, PlacesOf, a, c, r
  <1>6. QED
    BY <1>3, <1>4, <1>5
(* The requests for a zone are places of the history. *)
LEMMA RequestsBounds ==
  ASSUME TypeOK, OrderInv, NEW i \in DOMAIN zones
  PROVE  /\ Len(log) \in Nat
         /\ RequestsFor(i) \in SUBSET (1 .. Len(log))
         /\ RequestsFor(i) \in SUBSET Nat
         /\ RequestsFor(i) # {}
         /\ DOMAIN log = 1 .. Len(log)
  <1>1. Len(log) \in Nat /\ DOMAIN log = 1 .. Len(log)
    BY LenProperties DEF TypeOK
  <1>2. RequestsFor(i) \subseteq DOMAIN log /\ RequestsFor(i) # {}
    BY DEF RequestsFor, OrderInv
  <1>3. QED
    BY <1>1, <1>2

(* addZone keeps the zones in the order in which they were introduced. *)
LEMMA OrderStep ==
  ASSUME TypeOK, OrderInv, NEW w, NEW req \in Requests, addZone(w, req)
  PROVE  OrderInv'
  <1> DEFINE L == Len(log) + 1
  <1>1. /\ DOMAIN log = 1 .. Len(log) /\ DOMAIN log' = 1 .. L /\ L \in Nat
        /\ log'[L] = req
        /\ \A k \in DOMAIN log : log'[k] = log[k]
    BY AddZoneEffect
  <1>2. PICK m \in Nat :
              /\ DOMAIN zones' = DOMAIN zones \cup {m}
              /\ zones'[m].name = req.name
              /\ m \in DOMAIN zones =>
                   /\ zones[m].name = req.name
                   /\ RequestsFor(m)' = RequestsFor(m) \cup {L}
              /\ m \notin DOMAIN zones =>
                   /\ RequestsFor(m)' = {L}
                   /\ \A i \in DOMAIN zones : i < m
              /\ \A i \in DOMAIN zones \ {m} :
                   zones'[i] = zones[i] /\ RequestsFor(i)' = RequestsFor(i)
    BY AddZoneEffect
  <1>3. DOMAIN log' = DOMAIN log \cup {L} /\ \A k \in DOMAIN log : k < L
    <2>1. Len(log) \in Nat
      BY LenProperties DEF TypeOK
    <2>2. QED
      BY <1>1, <2>1
  <1> HIDE DEF L
  <1>4. ASSUME NEW i \in DOMAIN zones
        PROVE  /\ RequestsFor(i) # {} /\ RequestsFor(i) \in SUBSET Nat
               /\ RequestsFor(i) \subseteq DOMAIN log
    BY RequestsBounds, <1>4 DEF RequestsFor
  <1>5. \A i \in DOMAIN zones' : RequestsFor(i)' # {}
    BY <1>2, <1>4
  (* Where a zone was introduced does not change. *)
  <1>6. ASSUME NEW i \in DOMAIN zones
        PROVE  First(RequestsFor(i)') = First(RequestsFor(i)) /\ First(RequestsFor(i)) \in DOMAIN log
    <2> DEFINE x == First(RequestsFor(i))
    <2>1. x \in RequestsFor(i) /\ \A j \in RequestsFor(i) : x <= j
      BY <1>4, FirstProperties
    <2>2. x \in DOMAIN log
      BY <1>4, <2>1
    <2> HIDE DEF x
    <2>3. CASE i = m
      <3>1. RequestsFor(i)' = RequestsFor(i) \cup {L}
        BY <1>2, <2>3
      <3> DEFINE T == RequestsFor(i) \cup {L}
      <3>2. T \in SUBSET Nat /\ x \in T
        BY <1>1, <1>4, <2>1
      <3>3. \A j \in T : x <= j
        <4>1. x \in Nat /\ x < L
          BY <1>3, <1>4, <2>1, <2>2
        <4>2. QED
          BY <1>1, <2>1, <4>1
      <3> HIDE DEF T
      <3>4. First(T) = x
        BY <3>2, <3>3, FirstIs
      <3>5. QED
        BY <2>2, <3>1, <3>4 DEF T, x
    <2>4. CASE i # m
      BY <1>2, <2>2, <2>4 DEF x
    <2>5. QED
      BY <2>3, <2>4
  <1>7. ASSUME m \notin DOMAIN zones
        PROVE  First(RequestsFor(m)') = L
    <2>1. RequestsFor(m)' = {L}
      BY <1>2, <1>7
    <2>2. First({L}) = L
      BY <1>1, FirstIs
    <2>3. QED
      BY <2>1, <2>2
  <1>8. ASSUME NEW i \in DOMAIN zones', NEW j \in DOMAIN zones', i < j
        PROVE  First(RequestsFor(i)') < First(RequestsFor(j)')
    <2>1. DOMAIN zones \subseteq Nat
      BY LenProperties DEF TypeOK
    <2>2. CASE i \in DOMAIN zones /\ j \in DOMAIN zones
      <3>1. First(RequestsFor(i)) < First(RequestsFor(j))
        BY <1>8, <2>2 DEF OrderInv
      <3>2. QED
        BY <1>6, <2>2, <3>1
    <2>3. CASE j \notin DOMAIN zones
      <3>1. j = m /\ First(RequestsFor(j)') = L
        BY <1>2, <1>7, <2>3
      <3>2. i \in DOMAIN zones
        BY <1>2, <1>8, <3>1
      <3>3. First(RequestsFor(i)') \in DOMAIN log
        BY <1>6, <3>2
      <3>4. QED
        BY <1>3, <3>1, <3>3
    <2>4. CASE i \notin DOMAIN zones /\ j \in DOMAIN zones
      <3>1. i = m /\ j < m /\ j \in Nat
        BY <1>2, <2>1, <2>4
      <3>2. QED
        BY <1>8, <3>1
    <2>5. QED
      BY <2>2, <2>3, <2>4
  <1>9. \A k \in DOMAIN log' : \E i \in DOMAIN zones' : zones'[i].name = log'[k].name
    <2>1. ASSUME NEW k \in DOMAIN log'
          PROVE  \E i \in DOMAIN zones' : zones'[i].name = log'[k].name
      <3>1. CASE k = L
        BY <1>1, <1>2, <3>1
      <3>2. CASE k # L
        <4>1. k \in DOMAIN log /\ log'[k] = log[k]
          BY <1>1, <1>3, <2>1, <3>2
        <4>2. PICK i \in DOMAIN zones : zones[i].name = log[k].name
          BY <4>1 DEF OrderInv
        <4>3. i \in DOMAIN zones' /\ zones'[i].name = zones[i].name
          BY <1>2
        <4>4. QED
          BY <4>1, <4>2, <4>3
      <3>3. QED
        BY <3>1, <3>2
    <2>2. QED
      BY <2>1
  <1>10. QED
    BY <1>5, <1>8, <1>9 DEF OrderInv
(* addZone makes the default of the request the default of its zone. *)
LEMMA DefaultStep ==
  ASSUME TypeOK, OrderInv, DefaultInv, NEW w, NEW req \in Requests, addZone(w, req)
  PROVE  DefaultInv'
  <1> DEFINE L == Len(log) + 1
  <1>1. /\ DOMAIN log = 1 .. Len(log) /\ DOMAIN log' = 1 .. L /\ L \in Nat
        /\ log'[L] = req
        /\ \A k \in DOMAIN log : log'[k] = log[k]
    BY AddZoneEffect
  <1>2. PICK m \in Nat :
              /\ DOMAIN zones' = DOMAIN zones \cup {m}
              /\ zones'[m].default = req.default
              /\ m \in DOMAIN zones => RequestsFor(m)' = RequestsFor(m) \cup {L}
              /\ m \notin DOMAIN zones => RequestsFor(m)' = {L}
              /\ \A i \in DOMAIN zones \ {m} :
                   zones'[i] = zones[i] /\ RequestsFor(i)' = RequestsFor(i)
    BY AddZoneEffect
  <1>3. Len(log) \in Nat
    BY LenProperties DEF TypeOK
  <1>4. RequestsFor(m)' \in SUBSET (1 .. L) /\ L \in RequestsFor(m)'
    <2>1. m \in DOMAIN zones => RequestsFor(m) \in SUBSET (1 .. Len(log))
      BY RequestsBounds
    <2>2. QED
      BY <1>2, <1>3, <2>1
  <1> HIDE DEF L
  <1>5. History!Last(RequestsFor(m)') = L
    <2>1. \A j \in RequestsFor(m)' : L >= j
      BY <1>1, <1>4
    <2>2. RequestsFor(m)' \in SUBSET Nat
      BY <1>4
    <2>3. QED
      BY <1>4, <2>1, <2>2, LastIs
  <1>6. ASSUME NEW i \in DOMAIN zones'
        PROVE  zones'[i].default = log'[History!Last(RequestsFor(i)')].default
    <2>1. CASE i = m
      BY <1>1, <1>2, <1>5, <2>1
    <2>2. CASE i # m
      <3>1. i \in DOMAIN zones /\ RequestsFor(i)' = RequestsFor(i) /\ zones'[i] = zones[i]
        BY <1>2, <2>2
      <3>2. History!Last(RequestsFor(i)) \in RequestsFor(i)
        BY <3>1, RequestsBounds, LastProperties
      <3>3. History!Last(RequestsFor(i)) \in DOMAIN log
        BY <3>2 DEF RequestsFor
      <3>4. zones[i].default = log[History!Last(RequestsFor(i))].default
        BY <3>1 DEF DefaultInv
      <3>5. QED
        BY <1>1, <3>1, <3>3, <3>4
    <2>3. QED
      BY <2>1, <2>2
  <1>7. QED
    BY <1>6 DEF DefaultInv

(* addZone puts the records of the request before the older ones. *)
LEMMA RecordStep ==
  ASSUME TypeOK, OrderInv, RecordInv, NEW w, NEW req \in Requests, addZone(w, req)
  PROVE  RecordInv'
  <1> DEFINE L == Len(log) + 1
  <1>1. /\ DOMAIN log = 1 .. Len(log) /\ DOMAIN log' = 1 .. L /\ L \in Nat
        /\ log'[L] = req
        /\ \A k \in DOMAIN log : log'[k] = log[k]
    BY AddZoneEffect
  <1>2. PICK m \in Nat :
              /\ DOMAIN zones' = DOMAIN zones \cup {m}
              /\ m \in DOMAIN zones =>
                   /\ zones'[m] = Merge(zones[m], req)
                   /\ RequestsFor(m)' = RequestsFor(m) \cup {L}
              /\ m \notin DOMAIN zones =>
                   /\ zones'[m] = req
                   /\ RequestsFor(m)' = {L}
              /\ \A i \in DOMAIN zones \ {m} :
                   zones'[i] = zones[i] /\ RequestsFor(i)' = RequestsFor(i)
    BY AddZoneEffect
  <1>3. Len(log) \in Nat
    BY LenProperties DEF TypeOK
  <1>4. RequestsFor(m)' \in SUBSET (1 .. L) /\ L \in RequestsFor(m)' /\ L \notin DOMAIN log
    <2>1. m \in DOMAIN zones => RequestsFor(m) \in SUBSET (1 .. Len(log))
      BY RequestsBounds
    <2>2. QED
      BY <1>1, <1>2, <1>3, <2>1
  <1>5. ASSUME NEW i \in DOMAIN zones
        PROVE  RequestsFor(i) \subseteq DOMAIN log
    BY DEF RequestsFor
  <1> HIDE DEF L
  <1>6. ASSUME NEW i, NEW n
        PROVE  HitsFor(i, n)' = {k \in RequestsFor(i)' : Matching(log'[k], n) # {}}
    BY DEF HitsFor, Matching
  <1>7. ASSUME NEW n, Matching(req, n) # {}
        PROVE  HitsFor(m, n)' # {} /\ History!Last(HitsFor(m, n)') = L
    <2>1. HitsFor(m, n)' \in SUBSET Nat /\ L \in HitsFor(m, n)'
      <3>1. HitsFor(m, n)' = {k \in RequestsFor(m)' : Matching(log'[k], n) # {}}
        BY <1>6
      <3>2. L \in RequestsFor(m)' /\ Matching(log'[L], n) # {}
        BY <1>1, <1>4, <1>7
      <3>3. RequestsFor(m)' \subseteq Nat
        BY <1>4
      <3>4. QED
        BY <3>1, <3>2, <3>3
    <2>2. \A j \in HitsFor(m, n)' : L >= j
      BY <1>1, <1>4, <1>6
    <2>3. QED
      BY <2>1, <2>2, LastIs
  <1>8. ASSUME NEW i \in DOMAIN zones, NEW n \in Names, HitsFor(i, n)' = HitsFor(i, n)
        PROVE  /\ Matching(zones[i], n) = {} <=> HitsFor(i, n)' = {}
               /\ HitsFor(i, n)' # {} =>
                    FirstMatch(zones[i], n) = FirstMatch(log'[History!Last(HitsFor(i, n)')], n)
    <2>1. ASSUME HitsFor(i, n) # {}
          PROVE  log'[History!Last(HitsFor(i, n))] = log[History!Last(HitsFor(i, n))]
      <3>1. HitsFor(i, n) \in SUBSET (1 .. Len(log))
        BY <1>5, <1>1 DEF HitsFor
      <3>2. History!Last(HitsFor(i, n)) \in DOMAIN log
        BY <1>1, <1>3, <2>1, <3>1, LastProperties
      <3>3. QED
        BY <1>1, <3>2
    <2>2. QED
      BY <1>8, <2>1 DEF RecordInv
  <1>9. ASSUME NEW i \in DOMAIN zones', NEW n \in Names
        PROVE  /\ Matching(zones'[i], n) = {} <=> HitsFor(i, n)' = {}
               /\ HitsFor(i, n)' # {} =>
                    FirstMatch(zones'[i], n) = FirstMatch(log'[History!Last(HitsFor(i, n)')], n)
    <2>1. CASE i # m
      <3>1. i \in DOMAIN zones /\ RequestsFor(i)' = RequestsFor(i) /\ zones'[i] = zones[i]
        BY <1>2, <2>1
      <3>2. HitsFor(i, n)' = HitsFor(i, n)
        BY <1>1, <1>5, <1>6, <3>1 DEF HitsFor
      <3>3. QED
        BY <1>8, <3>1, <3>2
    <2>2. CASE i = m /\ m \notin DOMAIN zones
      <3>1. zones'[i] = req /\ RequestsFor(i)' = {L}
        BY <1>2, <2>2
      <3>2. CASE Matching(req, n) = {}
        <4>1. HitsFor(i, n)' = {}
          BY <1>1, <1>6, <3>1, <3>2
        <4>2. QED
          BY <3>1, <3>2, <4>1
      <3>3. CASE Matching(req, n) # {}
        BY <1>1, <1>7, <2>2, <3>1, <3>3
      <3>4. QED
        BY <3>2, <3>3
    <2>3. CASE i = m /\ m \in DOMAIN zones
      <3>1. zones'[i] = Merge(zones[i], req) /\ RequestsFor(i)' = RequestsFor(i) \cup {L}
        BY <1>2, <2>3
      <3>2. zones[i] \in Zone /\ req \in Zone
        BY <2>3, DnsAssumption, LenProperties, ElementOfSeq DEF TypeOK
      <3>3. CASE Matching(req, n) # {}
        <4>1. /\ Matching(Merge(zones[i], req), n) # {}
              /\ FirstMatch(Merge(zones[i], req), n) = FirstMatch(req, n)
          BY <3>2, <3>3, MergeMatching
        <4>2. QED
          BY <1>1, <1>7, <2>3, <3>1, <3>3, <4>1
      <3>4. CASE Matching(req, n) = {}
        <4>1. HitsFor(i, n)' = HitsFor(i, n)
          BY <1>1, <1>5, <1>6, <2>3, <3>1, <3>4 DEF HitsFor
        <4>2. /\ Matching(Merge(zones[i], req), n) = {} <=> Matching(zones[i], n) = {}
              /\ Matching(zones[i], n) # {} =>
                   FirstMatch(Merge(zones[i], req), n) = FirstMatch(zones[i], n)
          BY <3>2, <3>4, MergeMatching
        <4>3. QED
          BY <1>8, <2>3, <3>1, <4>1, <4>2
      <3>5. QED
        BY <3>3, <3>4
    <2>4. QED
      BY <2>1, <2>2, <2>3
  <1>10. QED
    BY <1>9 DEF RecordInv, FirstMatch, Matching
-----------------------------------------------------------------------------
(* The handlers. *)

(* A step of the others leaves a handler as it is. *)
LEMMA HandlerFrame ==
  ASSUME NEW g, HandlerOK(g), zones' = zones, pc'[g] = pc[g],
         question'[g] = question[g], answers'[g] = answers[g], rcode'[g] = rcode[g]
  PROVE  HandlerOK(g)'
  BY DEF HandlerOK, ZoneOf

(* Every action preserves what is known of the handlers. *)
LEMMA HandlerStep ==
  ASSUME TypeOK, HandlerInv, [Next]_vars
  PROVE  HandlerInv'
  <1> USE DEF lock, work
  <1>1. ASSUME NEW h \in Handlers, zones' = zones, HandlerOK(h)',
               \A g \in Handlers \ {h} :
                 /\ pc'[g] = pc[g] /\ question'[g] = question[g]
                 /\ answers'[g] = answers[g] /\ rcode'[g] = rcode[g]
        PROVE  HandlerInv'
    <2>1. ASSUME NEW g \in Handlers PROVE HandlerOK(g)'
      BY <1>1, HandlerFrame DEF HandlerInv
    <2>2. QED
      BY <2>1 DEF HandlerInv
  <1>2. ASSUME NEW h \in Handlers, NEW q \in Queries, handle(h, q)
        PROVE  HandlerInv'
    <2>1. q \in Question
      BY DnsAssumption
    <2>2. HandlerOK(h)'
      BY <1>2, <2>1 DEF HandlerOK, handle, TypeOK
    <2>3. QED
      BY <1>1, <1>2, <2>2 DEF handle, TypeOK
  <1>3. ASSUME NEW h \in Handlers, addAnswersRLock(h)
        PROVE  HandlerInv'
    <2>1. HandlerOK(h)'
      BY <1>3 DEF HandlerInv, HandlerOK, addAnswersRLock, TypeOK
    <2>2. QED
      BY <1>1, <1>3, <2>1 DEF addAnswersRLock, TypeOK
  <1>4. ASSUME NEW h \in Handlers, addAnswersForward(h)
        PROVE  HandlerInv'
    <2>1. HandlerOK(h)'
      BY <1>4 DEF HandlerInv, HandlerOK, addAnswersForward, TypeOK, ZoneOf
    <2>2. QED
      BY <1>1, <1>4, <2>1 DEF addAnswersForward, TypeOK
  <1>5. ASSUME NEW h \in Handlers, addAnswersReturn(h),
               \A g \in Handlers \ {h} : answers'[g] = answers[g] /\ rcode'[g] = rcode[g]
        PROVE  HandlerInv'
    <2>1. HandlerOK(h)'
      BY <1>5 DEF HandlerOK, addAnswersReturn, TypeOK
    <2>2. QED
      BY <1>1, <1>5, <2>1 DEF addAnswersReturn, TypeOK
  <1>6. ASSUME NEW h \in Handlers, addAnswersZone(h)
        PROVE  HandlerInv'
    <2>1. \A g \in Handlers \ {h} : answers'[g] = answers[g] /\ rcode'[g] = rcode[g]
      BY <1>6 DEF addAnswersZone, TypeOK
    <2>2. QED
      BY <1>5, <1>6, <2>1 DEF addAnswersZone
  <1>7. ASSUME NEW h \in Handlers, addAnswersSkip(h) \/ LookupSucceeds(h) \/ LookupFails(h)
        PROVE  HandlerInv'
    <2>1. \A g \in Handlers \ {h} : answers'[g] = answers[g] /\ rcode'[g] = rcode[g]
      BY <1>7 DEF addAnswersSkip, LookupSucceeds, LookupFails, TypeOK
    <2>2. QED
      BY <1>5, <1>7, <2>1 DEF addAnswersSkip, LookupSucceeds, LookupFails
  <1>8. CASE UNCHANGED <<zones, work>>
    BY <1>8, HandlerFrame DEF HandlerInv
  <1>9. ASSUME NEW w \in Adders, NEW req \in Requests, addZone(w, req)
        PROVE  HandlerInv'
    <2>1. readers = {} /\ UNCHANGED work
      BY <1>9 DEF addZone
    <2>2. \A h \in Handlers : pc[h] # "lookup"
      BY <2>1 DEF TypeOK
    <2>3. QED
      BY <2>1, <2>2 DEF HandlerInv, HandlerOK
  <1>10. QED
    BY <1>2, <1>3, <1>4, <1>6, <1>7, <1>8, <1>9
       DEF Next, addAnswers, allRLock, allRUnlock, addZoneLock, vars

-----------------------------------------------------------------------------
(* The invariant holds. *)

(* The configured zones have different names: each is its own request. *)
LEMMA InitIInv ==
  ASSUME Init
  PROVE  IInv
  <1>1. TypeOK
    <2>1. \A S : <<>> \in Seq(S)
      BY EmptySeq
    <2>2. QED
      BY <2>1, DnsAssumption DEF Init, TypeOK
  <1>2. HandlerInv
    BY DEF Init, HandlerInv, HandlerOK
  <1>3. zones = Configured /\ log = Configured /\ DOMAIN Configured \subseteq Nat
    BY DnsAssumption, LenProperties DEF Init
  <1>4. ASSUME NEW i \in DOMAIN zones
        PROVE  /\ RequestsFor(i) = {i} /\ i \in Nat
               /\ First(RequestsFor(i)) = i /\ History!Last(RequestsFor(i)) = i
    <2>1. RequestsFor(i) = {i}
      BY <1>3, DnsAssumption DEF RequestsFor
    <2>2. First({i}) = i /\ History!Last({i}) = i
      BY <1>3, FirstIs, LastIs
    <2>3. QED
      BY <1>3, <2>1, <2>2
  <1>5. OrderInv
    BY <1>3, <1>4 DEF OrderInv
  <1>6. DefaultInv
    BY <1>3, <1>4 DEF DefaultInv
  <1>7. RecordInv
    <2>1. ASSUME NEW i \in DOMAIN zones, NEW n \in Names
          PROVE  /\ Matching(zones[i], n) = {} <=> HitsFor(i, n) = {}
                 /\ HitsFor(i, n) # {} =>
                      FirstMatch(zones[i], n) = FirstMatch(log[History!Last(HitsFor(i, n))], n)
      <3>1. RequestsFor(i) = {i} /\ zones[i] = log[i] /\ i \in Nat
        BY <1>3, <1>4
      <3>2. Matching(zones[i], n) = {} => HitsFor(i, n) = {}
        BY <3>1 DEF HitsFor
      <3>3. Matching(zones[i], n) # {} => HitsFor(i, n) = {i}
        BY <3>1 DEF HitsFor
      <3>4. History!Last({i}) = i
        BY <3>1, LastIs
      <3>5. QED
        BY <3>1, <3>2, <3>3, <3>4
    <2>2. QED
      BY <2>1 DEF RecordInv
  <1>8. QED
    BY <1>1, <1>2, <1>5, <1>6, <1>7 DEF IInv

(* A step that adds no zone leaves the zones and the history alone. *)
LEMMA ZonesStep ==
  ASSUME IInv, [Next]_vars
  PROVE  OrderInv' /\ DefaultInv' /\ RecordInv'
  <1>1. ASSUME UNCHANGED <<zones, log>>
        PROVE  OrderInv' /\ DefaultInv' /\ RecordInv'
    <2>1. ASSUME NEW i PROVE RequestsFor(i)' = RequestsFor(i)
      BY <1>1 DEF RequestsFor
    <2>2. ASSUME NEW i, NEW n PROVE HitsFor(i, n)' = HitsFor(i, n)
      BY <1>1, <2>1 DEF HitsFor, Matching
    <2>3. OrderInv'
      BY <1>1, <2>1 DEF IInv, OrderInv
    <2>4. DefaultInv'
      BY <1>1, <2>1 DEF IInv, DefaultInv
    <2>5. RecordInv'
      <3>1. ASSUME NEW i \in DOMAIN zones', NEW n \in Names
            PROVE  /\ Matching(zones'[i], n) = {} <=> HitsFor(i, n)' = {}
                   /\ HitsFor(i, n)' # {} =>
                        FirstMatch(zones'[i], n) = FirstMatch(log'[History!Last(HitsFor(i, n)')], n)
        BY <1>1, <2>2 DEF IInv, RecordInv
      <3>2. QED
        BY <3>1 DEF RecordInv, FirstMatch, Matching
    <2>6. QED
      BY <2>3, <2>4, <2>5
  <1>2. ASSUME NEW w \in Adders, NEW req \in Requests, addZone(w, req)
        PROVE  OrderInv' /\ DefaultInv' /\ RecordInv'
    BY <1>2, OrderStep, DefaultStep, RecordStep DEF IInv
  <1>3. \/ UNCHANGED <<zones, log>>
        \/ \E w \in Adders : \E req \in Requests : addZone(w, req)
    BY DEF Next, vars, addAnswers, handle, addAnswersRLock, addAnswersZone, addAnswersForward,
           addAnswersReturn, addAnswersSkip, LookupSucceeds, LookupFails, allRLock, allRUnlock,
           addZoneLock, lock, work
  <1>4. QED
    BY <1>1, <1>2, <1>3

(* Every action preserves the invariant. *)
LEMMA IInvStep ==
  ASSUME IInv, [Next]_vars
  PROVE  IInv'
  BY TypeStep, HandlerStep, ZonesStep DEF IInv

(* The invariant holds in every reachable state. *)
LEMMA Invariance == Spec => []IInv
  <1>1. Init => IInv
    BY InitIInv
  <1>2. IInv /\ [Next]_vars => IInv'
    BY IInvStep
  <1>3. QED
    BY <1>1, <1>2, PTL DEF Spec

(***************************************************************************)
(* TypeOK holds in every reachable state: in particular a handler holds    *)
(* zonesLock for reading exactly between addAnswers' RLock and its         *)
(* deferred RUnlock, whichever way it returns.                             *)
(***************************************************************************)
THEOREM TypeCorrect == Spec => []TypeOK
  BY Invariance, PTL DEF IInv

-----------------------------------------------------------------------------
(* The refinement.  First, what the history says of a name is what the     *)
(* zones say of it.                                                        *)

(* The history chooses and matches the way the server does. *)
LEMMA SameFirst ==
  ASSUME NEW S
  PROVE  History!First(S) = First(S)
  BY DEF History!First, First

(* So it does for the records of a zone. *)
LEMMA SameMatching ==
  ASSUME NEW zone, NEW n
  PROVE  History!Matching(zone, n) = Matching(zone, n)
  BY DEF History!Matching, Matching

(* A name belongs to a zone if it belongs to that of a request. *)
LEMMA KnownIs ==
  ASSUME IInv, NEW n
  PROVE  History!Known(n) <=> ZoneOf(n) # 0
  <1>1. ASSUME NEW i \in DOMAIN zones, zones[i].name \in InZone[n]
        PROVE  History!Known(n)
    <2>1. PICK k \in RequestsFor(i) : TRUE
      BY DEF IInv, OrderInv
    <2>2. k \in DOMAIN log /\ log[k].name \in InZone[n]
      BY <1>1, <2>1 DEF RequestsFor
    <2>3. QED
      BY <2>2 DEF History!Known
  <1>2. ASSUME NEW k \in DOMAIN log, log[k].name \in InZone[n]
        PROVE  \E i \in DOMAIN zones : zones[i].name \in InZone[n]
    BY <1>2 DEF IInv, OrderInv
  <1>3. ZoneOf(n) = 0 <=> \A i \in DOMAIN zones : zones[i].name \notin InZone[n]
    BY ZoneOfProperties DEF IInv, TypeOK
  <1>4. QED
    BY <1>1, <1>2, <1>3 DEF History!Known

(* The zone that addAnswers finds is the one that was introduced first. *)
LEMMA EntriesAre ==
  ASSUME IInv, NEW n, ZoneOf(n) # 0
  PROVE  /\ ZoneOf(n) \in DOMAIN zones
         /\ History!Entries(n) = RequestsFor(ZoneOf(n))
         /\ History!Hits(n) = HitsFor(ZoneOf(n), n)
  <1> DEFINE z == ZoneOf(n)
             T == {i \in DOMAIN log : log[i].name \in InZone[n]}
             f == First(T)
  <1>1. /\ z \in DOMAIN zones /\ zones[z].name \in InZone[n]
        /\ \A i \in DOMAIN zones : zones[i].name \in InZone[n] => z <= i
    BY ZoneOfProperties DEF IInv, TypeOK
  <1>2. DOMAIN log \subseteq Nat /\ DOMAIN zones \subseteq Nat
    BY LenProperties DEF IInv, TypeOK
  <1> HIDE DEF z
  <1>3. RequestsFor(z) \in SUBSET T /\ RequestsFor(z) # {} /\ RequestsFor(z) \in SUBSET Nat
    BY <1>1, <1>2 DEF RequestsFor, IInv, OrderInv
  <1>4. f \in T /\ \A j \in T : f <= j
    BY <1>2, <1>3, FirstProperties
  <1> HIDE DEF f
  <1>5. PICK i \in DOMAIN zones : zones[i].name = log[f].name
    BY <1>4 DEF IInv, OrderInv
  <1>6. zones[i].name \in InZone[n] /\ f \in RequestsFor(i) /\ RequestsFor(i) \in SUBSET Nat
    BY <1>2, <1>4, <1>5 DEF RequestsFor
  <1>7. i = z
    <2>1. z <= i /\ i \in Nat /\ z \in Nat
      BY <1>1, <1>2, <1>6
    <2>2. ASSUME z < i PROVE FALSE
      <3>1. First(RequestsFor(z)) < First(RequestsFor(i))
        BY <1>1, <2>2 DEF IInv, OrderInv
      <3>2. First(RequestsFor(z)) \in T /\ First(RequestsFor(z)) \in Nat
        BY <1>3, FirstProperties
      <3>3. First(RequestsFor(i)) <= f /\ First(RequestsFor(i)) \in Nat
        BY <1>6, FirstProperties
      <3>4. f <= First(RequestsFor(z)) /\ f \in Nat
        BY <1>2, <1>4, <3>2
      <3>5. QED
        BY <3>1, <3>2, <3>3, <3>4
    <2>3. QED
      BY <2>1, <2>2
  <1>8. History!Entries(n) = {k \in DOMAIN log : log[k].name = log[f].name}
    <2>1. History!First(T) = f
      BY SameFirst DEF f
    <2>2. QED
      BY <2>1 DEF History!Entries
  <1>9. History!Entries(n) = RequestsFor(z)
    BY <1>5, <1>7, <1>8 DEF RequestsFor
  <1>10. History!Hits(n) = HitsFor(z, n)
    BY <1>9 DEF History!Hits, HitsFor, History!Matching, Matching
  <1>11. QED
    BY <1>1, <1>9, <1>10 DEF z

(* What the history answers for a name is what its zone answers. *)
LEMMA AddressIs ==
  ASSUME IInv, NEW n \in Names, ZoneOf(n) # 0
  PROVE  /\ History!Found(n) <=> HasAnswer(zones[ZoneOf(n)], n)
         /\ History!Address(n) = Resolve(zones[ZoneOf(n)], n)
  <1> DEFINE z == ZoneOf(n)
             H == HitsFor(z, n)
             d == log[History!Last(RequestsFor(z))].default
  <1>1. z \in DOMAIN zones /\ History!Entries(n) = RequestsFor(z) /\ History!Hits(n) = H
    BY EntriesAre
  <1> HIDE DEF z
  <1>2. zones[z].default = d
    BY <1>1 DEF IInv, DefaultInv
  <1>3. /\ Matching(zones[z], n) = {} <=> H = {}
        /\ H # {} => FirstMatch(zones[z], n) = FirstMatch(log[History!Last(H)], n)
    BY <1>1 DEF IInv, RecordInv
  <1> HIDE DEF H, d
  <1>4. History!Found(n) <=> H # {} \/ d # NoIP
    BY <1>1 DEF History!Found, d
  <1>5. HasAnswer(zones[z], n) <=> H # {} \/ d # NoIP
    BY <1>2, <1>3 DEF HasAnswer
  <1>6. Resolve(zones[z], n) = IF H = {} THEN d ELSE FirstMatch(zones[z], n).ip
    BY <1>2, <1>3 DEF Resolve, FirstMatch
  <1>7. History!Address(n) = IF H = {} THEN d ELSE FirstMatch(log[History!Last(H)], n).ip
    BY <1>1, SameFirst, SameMatching DEF History!Address, FirstMatch, d
  <1>8. QED
    BY <1>3, <1>4, <1>5, <1>6, <1>7 DEF z

(* The clients without a reply, and the replies, as the history sees them. *)
Waiting == {h \in Handlers : pc[h] # "idle"}
Replies == [h \in Handlers |->
              IF pc[h] = "idle" THEN [answers |-> answers[h], rcode |-> rcode[h]]
              ELSE [answers |-> <<>>, rcode |-> "success"]]

(* A step of the server that moves no handler into or out of idle, and     *)
(* adds no zone, is no step of the history.                                *)
LEMMA Stutter ==
  ASSUME UNCHANGED <<log, question>>, Waiting' = Waiting, Replies' = Replies
  PROVE  UNCHANGED History!vars
  BY DEF History!vars, Waiting, Replies

(* A handler that returns with one of the replies of the history answers. *)
LEMMA AnswerRefines ==
  ASSUME TypeOK, NEW h \in Handlers, pc[h] # "idle", addAnswersReturn(h),
         \A g \in Handlers \ {h} : answers'[g] = answers[g] /\ rcode'[g] = rcode[g],
         [answers |-> answers'[h], rcode |-> rcode'[h]] \in History!RepliesTo(question[h])
  PROVE  History!Next
  <1> DEFINE r == [answers |-> answers'[h], rcode |-> rcode'[h]]
  <1>1. UNCHANGED <<log, question>> /\ pc' = [pc EXCEPT ![h] = "idle"]
    BY DEF addAnswersReturn
  <1>2. h \in Waiting /\ Waiting' = Waiting \ {h}
    BY <1>1 DEF Waiting, TypeOK
  <1>3. Replies' = [Replies EXCEPT ![h] = r]
    BY <1>1 DEF Replies, TypeOK
  <1> HIDE DEF r
  <1>4. r \in History!RepliesTo(question[h])
    BY DEF r
  <1>5. History!Answer(h)
    BY <1>1, <1>2, <1>3, <1>4 DEF History!Answer, Waiting, Replies
  <1>6. QED
    BY <1>5 DEF History!Next

(* What addAnswers returns with when the name belongs to a zone. *)
LEMMA ZoneRefines ==
  ASSUME IInv, NEW h \in Handlers, addAnswersZone(h)
  PROVE  History!Next
  <1> DEFINE q == question[h]
             n == q.name
             z == zones[ZoneOf(n)]
             found == HasAnswer(z, n)
             New == <<[name |-> n, ip |-> Resolve(z, n)]>>
  <1>1. pc[h] = "question" /\ ZoneOf(n) # 0 /\ addAnswersReturn(h)
    BY DEF addAnswersZone
  <1>2. /\ TypeOK
        /\ answers \in [Handlers -> Seq([name : Names, ip : IPs])]
        /\ rcode \in [Handlers -> {"success", "nxdomain"}]
    BY DEF IInv, TypeOK
  <1>3. answers[h] = <<>> /\ rcode[h] = "success" /\ n \in Names
    BY <1>1 DEF IInv, HandlerInv, HandlerOK, Question
  <1>4. (History!Found(n) <=> found) /\ History!Address(n) = Resolve(z, n)
    BY <1>1, <1>3, AddressIs
  <1>5. History!Known(n)
    BY <1>1, KnownIs
  <1>6. \/ q.type # "A" /\ answers' = answers /\ rcode' = rcode
        \/ /\ q.type = "A" /\ found
           /\ answers' = [answers EXCEPT ![h] = New] /\ rcode' = rcode
        \/ /\ q.type = "A" /\ ~found
           /\ rcode' = [rcode EXCEPT ![h] = "nxdomain"] /\ answers' = answers
    BY DEF addAnswersZone
  <1>7. History!RepliesTo(q) =
          IF q.type # "A" THEN {[answers |-> <<>>, rcode |-> "success"]}
          ELSE IF found THEN {[answers |-> New, rcode |-> "success"]}
          ELSE {[answers |-> <<>>, rcode |-> "nxdomain"]}
    <2> HIDE DEF q, z, found
    <2>1. QED
      BY <1>4, <1>5 DEF History!RepliesTo, History!ZoneReplies, History!Unanswered,
                        History!OneAnswer, History!NoAnswer
  <1> HIDE DEF q, n, z, found, New
  <1>8. /\ [answers |-> answers'[h], rcode |-> rcode'[h]] \in History!RepliesTo(q)
        /\ \A g \in Handlers \ {h} : answers'[g] = answers[g] /\ rcode'[g] = rcode[g]
    <2>1. CASE q.type # "A"
      BY <1>3, <1>6, <1>7, <2>1
    <2>2. CASE q.type = "A" /\ found
      BY <1>2, <1>3, <1>6, <1>7, <2>2
    <2>3. CASE q.type = "A" /\ ~found
      BY <1>2, <1>3, <1>6, <1>7, <2>3
    <2>4. QED
      BY <2>1, <2>2, <2>3
  <1>9. QED
    BY <1>1, <1>2, <1>8, AnswerRefines DEF q

(* What it returns with when it does not. *)
LEMMA ResolverRefines ==
  ASSUME IInv, NEW h \in Handlers,
         addAnswersSkip(h) \/ LookupSucceeds(h) \/ LookupFails(h)
  PROVE  History!Next
  <1> DEFINE q == question[h]
             New == <<[name |-> q.name, ip |-> NoIP]>>
  <1>1. pc[h] \in {"question", "lookup"} /\ addAnswersReturn(h)
    BY DEF addAnswersSkip, LookupSucceeds, LookupFails
  <1>2. /\ TypeOK
        /\ answers \in [Handlers -> Seq([name : Names, ip : IPs])]
        /\ rcode \in [Handlers -> {"success", "nxdomain"}]
    BY DEF IInv, TypeOK
  <1>3. answers[h] = <<>> /\ rcode[h] = "success" /\ ZoneOf(q.name) = 0
    BY DEF IInv, HandlerInv, HandlerOK, addAnswersSkip, LookupSucceeds, LookupFails
  <1>4. ~History!Known(q.name)
    BY <1>3, KnownIs
  <1>5. \/ q.type \notin Forwarded /\ answers' = answers /\ rcode' = rcode
        \/ /\ q.type \in Forwarded
           /\ answers' = [answers EXCEPT ![h] = New] /\ rcode' = rcode
        \/ /\ q.type \in Forwarded
           /\ answers' = answers /\ rcode' = [rcode EXCEPT ![h] = "nxdomain"]
    BY DEF IInv, HandlerInv, HandlerOK, addAnswersSkip, LookupSucceeds, LookupFails
  <1>6. History!RepliesTo(q) =
          IF q.type \in Forwarded
          THEN {[answers |-> New, rcode |-> "success"], [answers |-> <<>>, rcode |-> "nxdomain"]}
          ELSE {[answers |-> <<>>, rcode |-> "success"]}
    <2> HIDE DEF q
    <2>1. QED
      BY <1>4 DEF History!RepliesTo, History!ResolverReplies, History!Unanswered,
                  History!OneAnswer, History!NoAnswer
  <1> HIDE DEF q, New
  <1>7. /\ [answers |-> answers'[h], rcode |-> rcode'[h]] \in History!RepliesTo(q)
        /\ \A g \in Handlers \ {h} : answers'[g] = answers[g] /\ rcode'[g] = rcode[g]
    BY <1>2, <1>3, <1>5, <1>6
  <1>8. QED
    BY <1>1, <1>2, <1>7, AnswerRefines DEF q

(* Every step of the server is a step of the history or none. *)
LEMMA StepRefines ==
  ASSUME IInv, [Next]_vars
  PROVE  [History!Next]_(History!vars)
  <1> USE DEF lock, work
  <1> TypeOK
    BY DEF IInv
  <1>1. ASSUME NEW h \in Handlers, NEW q \in Queries, handle(h, q)
        PROVE  History!Next
    <2>1. /\ pc[h] = "idle" /\ pc' = [pc EXCEPT ![h] = "rlock"]
          /\ question' = [question EXCEPT ![h] = q] /\ UNCHANGED log
          /\ answers' = [answers EXCEPT ![h] = <<>>]
          /\ rcode' = [rcode EXCEPT ![h] = "success"]
      BY <1>1 DEF handle
    <2>2. h \notin Waiting /\ Waiting' = Waiting \cup {h}
      BY <2>1 DEF Waiting, TypeOK
    <2>3. Replies' = [Replies EXCEPT ![h] = [answers |-> <<>>, rcode |-> "success"]]
      BY <2>1 DEF Replies, TypeOK
    <2>4. History!Ask(h, q)
      BY <2>1, <2>2, <2>3 DEF History!Ask, History!Unanswered, Waiting, Replies
    <2>5. QED
      BY <2>4 DEF History!Next
  <1>2. ASSUME NEW h \in Handlers, addAnswersRLock(h) \/ addAnswersForward(h)
        PROVE  UNCHANGED History!vars
    <2>1. /\ pc[h] # "idle" /\ UNCHANGED <<log, question, answers, rcode>>
          /\ pc'[h] # "idle" /\ \A g \in Handlers \ {h} : pc'[g] = pc[g]
      BY <1>2 DEF addAnswersRLock, addAnswersForward, TypeOK
    <2>2. Waiting' = Waiting
      BY <2>1 DEF Waiting
    <2>3. Replies' = Replies
      BY <2>1 DEF Replies
    <2>4. QED
      BY <2>1, <2>2, <2>3, Stutter
  <1>3. CASE UNCHANGED <<log, work>>
    BY <1>3, Stutter DEF Waiting, Replies
  <1>4. ASSUME NEW w \in Adders, NEW req \in Requests, addZone(w, req)
        PROVE  History!Next
    <2>1. log' = Append(log, req) /\ UNCHANGED <<question, pc, answers, rcode>>
      BY <1>4 DEF addZone
    <2>2. History!Add(req)
      BY <2>1 DEF History!Add
    <2>3. QED
      BY <2>2 DEF History!Next
  <1>5. QED
    BY <1>1, <1>2, <1>3, <1>4, ZoneRefines, ResolverRefines
       DEF Next, addAnswers, allRLock, allRUnlock, addZoneLock, vars

(***************************************************************************)
(* The DNS server implements ZoneHistory, for any zones, any queries and   *)
(* any number of handlers and HTTP requests: every reply is one that the   *)
(* history of addZone requests gives at one moment between the query's     *)
(* arrival and its reply, although zones are merged in place and           *)
(* addAnswers waits for the resolver.                                      *)
(***************************************************************************)
THEOREM RefinesZoneHistory == Spec => ImplementsZoneHistory
  <1>1. Init => History!Init
    BY DEF Init, History!Init, History!Unanswered
  <1>2. IInv /\ [Next]_vars => [History!Next]_(History!vars)
    BY StepRefines
  <1>3. QED
    BY <1>1, <1>2, Invariance, PTL DEF Spec, ImplementsZoneHistory, History!Spec
=============================================================================
