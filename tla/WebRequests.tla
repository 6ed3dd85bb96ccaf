---------------------------- MODULE WebRequests ----------------------------
(***************************************************************************)
(* How a request reaches its handler: the router (web_router.cpp) matches  *)
(* it when its header is complete and keeps the captured parts of the path *)
(* in one buffer for all requests; the body arrives in chunks, collected   *)
(* per request by routeJsonBody (api_endpoints.cpp) and by length in the   *)
(* event store (event_store.cpp).  Callbacks run one after the other in    *)
(* one task, those of different connections in any order.                  *)
(***************************************************************************)
EXTENDS Naturals, Sequences

CONSTANTS Req,    \* requests in progress; a request also stands for its path and its body
          NoReq,
          Events, \* the requests to /v1/scmudc, the others carry JSON for a handler
          Size    \* the length of each request's body: Size[r]

ASSUME WebAssumption == NoReq \notin Req /\ Events \subseteq Req /\ DOMAIN Size = Req

VARIABLES
  params,   \* g_params: the request whose captures are in the buffer
  arrived,  \* chunks that arrived of each request, 0 before its header, chunks are 2
  matched,  \* the requests whose header was matched
  temp,     \* _tempObject of each request: the chunks collected
  inflight, \* g_inflight of the event store, by length
  handled   \* the last body given to a handler

requests == <<params, arrived, matched, temp, inflight, handled>>

Sizes == {Size[r] : r \in Req}
Chunks(r) == <<<<r, 1>>, <<r, 2>>>>
NothingHandled == [req |-> NoReq, path |-> NoReq, body |-> <<>>]

WebInit ==
  /\ params = NoReq /\ matched = {} /\ handled = NothingHandled
  /\ arrived = [r \in Req |-> 0] /\ temp = [r \in Req |-> <<>>]
  /\ inflight = [n \in Sizes |-> <<>>]

\* canHandle: the header of a request with a body is complete.
Matches(r) ==
  /\ r \notin matched
  /\ params' = r /\ matched' = matched \cup {r}
  /\ UNCHANGED <<arrived, temp, inflight, handled>>

\* A request without a body is handled in the same callback.
Gets(r) ==
  /\ r \notin matched
  /\ params' = r
  /\ UNCHANGED <<arrived, matched, temp, inflight, handled>>

Ends(r) == /\ arrived' = [arrived EXCEPT ![r] = 0]
           /\ matched' = matched \ {r}

\* Mutation of BufferKey: the length of the speaker's id alone, the same for all.
BufferKeyOfAll(r) == CHOOSE n \in Sizes : TRUE

\* The key of g_inflight: ids are equally long, so only the body's length counts.
BufferKey(r) == Size[r]

\* The first chunk starts the buffer of its length anew.
Collected(buffer, r) ==
  IF arrived[r] = 0 THEN <<<<r, 1>>>> ELSE Append(buffer, <<r, arrived[r] + 1>>)

\* A body that is not a first and a second chunk is dropped as a parse error.
Parses(body) == Len(body) = 2 /\ body[1][2] = 1 /\ body[2][2] = 2

Given(r, body) ==
  IF Parses(body) THEN [req |-> r, path |-> params, body |-> body] ELSE handled

\* routeJsonBody: the last chunk calls the handler, which reads the path.
JsonChunk(r) ==
  /\ r \in matched \ Events
  /\ LET buffer == Append(temp[r], <<r, arrived[r] + 1>>)
     IN IF arrived[r] = 1
        THEN /\ handled' = Given(r, buffer)
             /\ temp' = [temp EXCEPT ![r] = <<>>]
             /\ Ends(r)
        ELSE /\ temp' = [temp EXCEPT ![r] = buffer]
             /\ arrived' = [arrived EXCEPT ![r] = @ + 1]
             /\ UNCHANGED <<handled, matched>>
  /\ UNCHANGED <<params, inflight>>

\* eventStoreIngestChunk: the last chunk gives the body to ingestBody.
EventChunk(r) ==
  /\ r \in matched \cap Events
  /\ LET buffer == Collected(inflight[BufferKey(r)], r)
     IN IF arrived[r] = 1
        THEN /\ handled' = Given(r, buffer)
             /\ inflight' = [inflight EXCEPT ![BufferKey(r)] = <<>>]
             /\ Ends(r)
        ELSE /\ inflight' = [inflight EXCEPT ![BufferKey(r)] = buffer]
             /\ arrived' = [arrived EXCEPT ![r] = @ + 1]
             /\ UNCHANGED <<handled, matched>>
  /\ UNCHANGED <<params, temp>>

\* The connection breaks: onDisconnect frees the request's own buffer only.
Breaks(r) ==
  /\ r \in matched
  /\ temp' = [temp EXCEPT ![r] = <<>>]
  /\ Ends(r)
  /\ UNCHANGED <<params, inflight, handled>>

\* eventStoreClearAll: the buffers of bodies in progress go too.
ClearsAll ==
  /\ inflight' = [n \in Sizes |-> <<>>]
  /\ UNCHANGED <<params, arrived, matched, temp, handled>>

WebNext ==
  \/ \E r \in Req : Matches(r) \/ Gets(r) \/ JsonChunk(r) \/ EventChunk(r) \/ Breaks(r)
  \/ ClearsAll

-----------------------------------------------------------------------------
WebTypeOK ==
  /\ params \in Req \cup {NoReq} /\ matched \subseteq Req
  /\ \A r \in Req : arrived[r] \in 0..1 /\ Len(temp[r]) <= 1
  /\ handled.req \in Req \cup {NoReq}

\* A handler gets the body of its own request, whole, however the chunks of several
\* requests interleave and however many were abandoned (api_endpoints.cpp:350-386,
\* event_store.cpp:279-318).  The lengths of event bodies in progress must differ.
BodiesWhole == handled.req # NoReq => handled.body = Chunks(handled.req)

\* A handler reads the path of its own request: web_router.cpp:7-10 says that canHandle
\* runs "immediately before the body/request callbacks of the same request, with no other
\* request interleaving".
OwnPath == handled.req # NoReq => handled.path = handled.req
=============================================================================
