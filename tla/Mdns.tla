--------------------------------- MODULE Mdns ---------------------------------
(***************************************************************************)
(* mdns.rs of the vendored esp-idf-svc: EspMdns, of which there is one at  *)
(* a time (TAKEN).  What it advertises is kept by ESP-IDF's responder      *)
(* (external), as is the list of results of a query until it is freed.     *)
(***************************************************************************)
EXTENDS Integers, Functions

CONSTANTS MdnsTakers,    \* the threads that want the service, positive numbers
          Services,      \* the pairs of a service type and a protocol
          TxtKeys,       \* the keys of the TXT items
          LastResult     \* bound: the results of a query

ASSUME MdnsAssumption == MdnsTakers \subseteq Nat \ {0} /\ LastResult \in Nat

VARIABLES mdnsHolder,   \* who has the EspMdns, or 0
          mdnsHost,     \* who set the host's name, or 0
          adverts,      \* each advertised service: who added it, port, TXT keys
          query,        \* the query whose results are copied, or NoQuery
          lists         \* how many lists of results are not freed

mdnsVars == <<mdnsHolder, mdnsHost, adverts, query, lists>>
advertVars == <<mdnsHolder, query, lists>>
resultVars == <<mdnsHolder, mdnsHost, adverts>>

NoQuery == [room |-> 0, left |-> 0, copied |-> 0]
Nothing == [s \in {} |-> {}]

MdnsInit ==
  mdnsHolder = 0 /\ mdnsHost = 0 /\ adverts = Nothing /\ query = NoQuery /\ lists = 0

\* take: TAKEN's lock is held over mdns_init, whose failure leaves nothing.
TakeMdns(t) ==
  /\ mdnsHolder = 0 /\ mdnsHolder' = t
  /\ UNCHANGED <<mdnsHost, adverts, query, lists>>

\* Mutant: what was set stays.
DropMdnsOnly ==
  /\ mdnsHolder # 0 /\ query = NoQuery /\ mdnsHolder' = 0
  /\ UNCHANGED <<mdnsHost, adverts, query, lists>>

\* drop: mdns_free forgets all that was set, and then TAKEN is reset.
DropMdns ==
  /\ mdnsHolder # 0 /\ query = NoQuery
  /\ mdnsHolder' = 0 /\ mdnsHost' = 0 /\ adverts' = Nothing /\ UNCHANGED <<query, lists>>

\* set_hostname and set_instance_name.
SetMdnsName ==
  /\ mdnsHolder # 0 /\ query = NoQuery /\ mdnsHost' = mdnsHolder
  /\ UNCHANGED <<adverts, advertVars>>

\* Each needs &mut self, so no query is under way.  ESP-IDF refuses a service
\* that is there (added) or that is not there (changed, removed).
AddService(s, port, txt) ==
  /\ mdnsHolder # 0 /\ query = NoQuery /\ s \notin DOMAIN adverts
  /\ adverts' = [x \in DOMAIN adverts \cup {s} |->
                   IF x = s THEN [by |-> mdnsHolder, port |-> port, txt |-> txt] ELSE adverts[x]]
  /\ UNCHANGED <<mdnsHost, advertVars>>
ChangeService(s) ==
  /\ mdnsHolder # 0 /\ query = NoQuery /\ s \in DOMAIN adverts
  /\ \/ \E port \in 1..2 : adverts' = [adverts EXCEPT ![s].port = port]
     \/ \E txt \in SUBSET TxtKeys : adverts' = [adverts EXCEPT ![s].txt = txt]
     \/ \E k \in TxtKeys : \/ adverts' = [adverts EXCEPT ![s].txt = @ \cup {k}]
                           \/ adverts' = [adverts EXCEPT ![s].txt = @ \ {k}]
  /\ UNCHANGED <<mdnsHost, advertVars>>
RemoveServices(gone) ==
  /\ mdnsHolder # 0 /\ query = NoQuery /\ adverts' = Restrict(adverts, DOMAIN adverts \ gone)
  /\ UNCHANGED <<mdnsHost, advertVars>>

\* query, query_txt, query_srv and query_ptr: a list that is not empty is owned
\* by the caller.  A failed query, or one for an address, gives no list.
AskMdns(room, found) ==
  /\ mdnsHolder # 0 /\ query = NoQuery
  /\ query' = [room |-> room, left |-> found, copied |-> 0] /\ lists' = lists + 1
  /\ UNCHANGED resultVars

\* copy_query_results: one node after the other while there is room; ...
CopyResult ==
  /\ query.left > 0 /\ query.copied < query.room
  /\ query' = [query EXCEPT !.left = @ - 1, !.copied = @ + 1] /\ UNCHANGED <<lists, resultVars>>

\* Mutant: a list is freed when it was copied to its end.
FreeRead ==
  /\ query # NoQuery /\ (query.left = 0 \/ query.copied = query.room)
  /\ query' = NoQuery /\ lists' = (IF query.left = 0 THEN lists - 1 ELSE lists)
  /\ UNCHANGED resultVars

\* ... then the whole list is freed, copied or not.
FreeResults ==
  /\ query # NoQuery /\ (query.left = 0 \/ query.copied = query.room)
  /\ query' = NoQuery /\ lists' = lists - 1 /\ UNCHANGED resultVars

MdnsNext ==
  \/ \E t \in MdnsTakers : TakeMdns(t)
  \/ DropMdns \/ SetMdnsName
  \/ \E s \in Services, port \in 1..2, txt \in SUBSET TxtKeys : AddService(s, port, txt)
  \/ \E s \in Services : ChangeService(s) \/ RemoveServices({s})
  \/ RemoveServices(Services)
  \/ \E room \in 0..LastResult, found \in 1..LastResult : AskMdns(room, found)
  \/ CopyResult \/ FreeResults

\* What a taker of the service did not set is not advertised in its name, and
\* between two queries no list of results is left, nor one freed too often.
MdnsLeavesNothing ==
  /\ \A s \in DOMAIN adverts : adverts[s].by = mdnsHolder
  /\ mdnsHost \in {0, mdnsHolder}
  /\ lists = (IF query = NoQuery THEN 0 ELSE 1)
================================================================================
