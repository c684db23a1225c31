------------------------------- MODULE MCDns -------------------------------
(* A small instance of Dns: a zone inside another, and names in both, in   *)
(* the outer one, and in none.                                             *)
EXTENDS Dns, TLC

CONSTANTS inner, outer, nInner, nOuter, nElse, ip1, ip2, ip3

MCInZone == nInner :> {inner, outer} @@ nOuter :> {outer} @@ nElse :> {}

NewZone(name, records, default) == [name |-> name, records |-> records, default |-> default]
NewRecord(names, ip) == [names |-> names, ip |-> ip]

(* Every zone is added over time, in any order. *)
MCConfigured == <<>>

(* A named record, a regular expression, a default only, and a record of   *)
(* the inner zone.                                                         *)
MCRequests ==
  {NewZone(outer, <<NewRecord({nOuter}, ip2)>>, NoIP),
   NewZone(outer, <<NewRecord({nOuter, nInner}, ip3), NewRecord({nInner}, ip1)>>, NoIP),
   NewZone(outer, <<>>, ip2),
   NewZone(inner, <<NewRecord({nInner}, ip2)>>, ip1)}

Ask(n, type) == [name |-> n, type |-> type]

(* Addresses in the inner zone, the outer one and none; a type that a zone *)
(* does not give, one that the resolver is asked for, and one that neither *)
(* does.                                                                   *)
MCQueries ==
  {Ask(nInner, "A"), Ask(nOuter, "A"), Ask(nOuter, "MX"), Ask(nElse, "A"), Ask(nElse, "AAAA")}
=============================================================================
