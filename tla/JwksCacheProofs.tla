-------------------------- MODULE JwksCacheProofs --------------------------
(***************************************************************************)
(* The JWKS cache keeps its promises for any number of goroutines, key ids *)
(* and documents, and however often the server's keys rotate.              *)
(***************************************************************************)
EXTENDS JwksCache, TLAPS

Response == [status : {"none", "200", "304", "error"}, doc : Docs \cup {NoTag}, n : Nat]

\* The call has been answered, with a document or a 304.
Served(p) == resp[p].status \in {"200", "304"}

\* The key that a call looks for has been in every document from the n-th on.
PresentFrom(p, n) == \A m \in n .. Current : kid[p] \in Good(history[m])

-----------------------------------------------------------------------------
(* The inductive invariant *)

\* What TypeOK says, with the shape of an answer.
Types == TypeOK /\ resp \in [Proc -> Response]

\* One goroutine at most is at the network, with the lock.
LockInv ==
    /\ LockFollowsRequest
    /\ \A p, q \in refreshing : p = q

\* The cached keys are those of the installed document, or the seeded ones, and
\* the ETag names the document they come from.
KeysInv ==
    /\ installed = 0 => keys = seeded /\ lastETag = NoTag
    /\ installed > 0 => keys = Good(history[installed]) /\ keys # {}
    /\ lastETag # NoTag => tagged /\ keys = Good(lastETag)

\* The request carries the cache's ETag until its answer is applied, and the
\* answer is a document no older than the installed one.
RespInv ==
    \A p \in Proc :
        /\ pc[p] \in {"asked", "answered"} => etag[p] = lastETag
        /\ pc[p] # "answered" => resp[p].status = "none"
        /\ Served(p) => /\ resp[p].n \in 1 .. Current
                        /\ resp[p].n >= installed
                        /\ resp[p].doc = history[resp[p].n]
        /\ resp[p].status = "304" => resp[p].doc = etag[p]

\* Where a call is: who called Refresh, and for which key.
PlaceInv ==
    \A p \in Proc :
        /\ pc[p] \in {"lock", "asked", "answered"} => phase[p] \in {"ensure", "lookup", "warm"}
        /\ pc[p] \in {"ensure", "lookup", "recheck"} => kid[p] \in Kid
        /\ pc[p] \in {"lock", "asked", "answered"} /\ phase[p] # "warm" => kid[p] \in Kid
        /\ since[p] <= installed

\* The key of a call that no document has lacked is in the current document, in
\* all since the one the call was answered with, and in all since the installed
\* one once the call has refreshed the cache.
SeenInv ==
    \A p \in Proc :
        /\ kid[p] \in Kid /\ ~lacked[p] =>
            /\ PresentFrom(p, Current)
            /\ Served(p) => PresentFrom(p, resp[p].n)
            /\ pc[p] = "recheck" /\ ~err[p] => installed > 0 /\ PresentFrom(p, installed)
        /\ pc[p] = "unknown" => lacked[p]

\* A refresh of Warm that went well has left keys.
WarmInv ==
    /\ \A p \in Proc : pc[p] = "warming" /\ ~err[p] /\ url => installed > 0
    /\ WarmMeansReady

IInv == /\ Types /\ LockInv /\ KeysInv /\ RespInv /\ PlaceInv
        /\ SeenInv /\ WarmInv /\ AcceptedWasPublished

-----------------------------------------------------------------------------
(* Every action keeps it *)

\* Nobody else is at the network or has an answer in hand.
Alone(p) ==
    /\ refreshing = {p}
    /\ \A q \in Proc : q # p => /\ pc[q] \notin {"asked", "answered"}
                              /\ resp[q].status = "none"

\* Who has an answer is alone with it.
LEMMA HolderIsAlone == ASSUME IInv, NEW p \in Proc, pc[p] = "answered" PROVE Alone(p)
  BY DEF IInv, Types, TypeOK, LockInv, LockFollowsRequest, RespInv, Alone

\* Where a caller of Refresh goes on.
LEMMA AfterRefreshPlaces ==
    ASSUME NEW p \in Proc, phase[p] \in {"ensure", "lookup", "warm"}
    PROVE  /\ AfterRefresh(p) \in {"lookup", "recheck", "warming"}
           /\ AfterRefresh(p) = "warming" <=> phase[p] = "warm"
  BY DEF AfterRefresh

\* The ttl passes.
LEMMA AgeKeeps == ASSUME IInv, Age PROVE IInv'
<1> USE JwksAssumption DEF IInv, Types, TypeOK, Response, Current
<1> USE DEF Age, cache, local, server, ghost
<1>1. /\ Types' /\ LockInv' /\ KeysInv' /\ RespInv'
      /\ PlaceInv' /\ SeenInv' /\ WarmInv' /\ AcceptedWasPublished'
  BY DEF LockInv, LockFollowsRequest, KeysInv, RespInv, Served, PlaceInv,
     SeenInv, PresentFrom, WarmInv, WarmMeansReady, AcceptedWasPublished
<1> QED
  BY <1>1 DEF IInv

\* A rotation appends a document: what was published stays, and a call whose
\* key the new document lacks is marked.
LEMMA RotateKeeps == ASSUME NEW doc \in Docs, IInv, Rotate(doc) PROVE IInv'
<1> USE JwksAssumption DEF IInv, Types, TypeOK, Response, Current
<1> USE DEF Rotate, cache, local
<1>1. Types' /\ LockInv' /\ KeysInv' /\ RespInv' /\ PlaceInv' /\ WarmInv'
  BY DEF LockInv, LockFollowsRequest, KeysInv, RespInv, Served, PlaceInv,
     WarmInv, WarmMeansReady
<1>2. SeenInv'
  <2>1. /\ history' \in Seq(Docs) /\ Len(history') = Len(history) + 1
        /\ \A n \in 1 .. Len(history) : history'[n] = history[n]
        /\ history'[Len(history')] = doc
    OBVIOUS
  <2>2. ASSUME NEW p \in Proc, kid[p] \in Kid, ~lacked'[p]
        PROVE  ~lacked[p] /\ kid[p] \in Good(doc)
    BY <2>2
  <2>3. ASSUME NEW p \in Proc, kid[p] \in Kid, ~lacked'[p],
               NEW n \in 1 .. Current, PresentFrom(p, n)
        PROVE  PresentFrom(p, n)'
    BY <2>1, <2>2, <2>3 DEF PresentFrom
  <2>4. ASSUME NEW p \in Proc, kid[p] \in Kid, ~lacked'[p]
        PROVE  PresentFrom(p, Current)'
    BY <2>1, <2>2, <2>4 DEF PresentFrom
  <2>5. ASSUME NEW p \in Proc, kid[p] \in Kid, ~lacked'[p]
        PROVE  /\ Served(p) => PresentFrom(p, resp[p].n)'
               /\ pc[p] = "recheck" /\ ~err[p] => installed > 0 /\ PresentFrom(p, installed)'
    BY <2>2, <2>3, <2>5 DEF SeenInv, RespInv
  <2>6. UNCHANGED <<pc, kid, resp, err, installed>>
    OBVIOUS
  <2>7. \A p \in Proc : pc[p] = "unknown" => lacked'[p]
    BY DEF SeenInv
  <2> HIDE DEF Rotate, IInv, Types, Current
  <2> QED
    BY <2>4, <2>5, <2>6, <2>7 DEF SeenInv, Served, PresentFrom
<1>3. AcceptedWasPublished'
  <2>1. /\ history' \in Seq(Docs) /\ Len(history') = Len(history) + 1
        /\ \A n \in 1 .. Len(history) : history'[n] = history[n]
    OBVIOUS
  <2>2. UNCHANGED <<pc, kid, since, seeded>>
    OBVIOUS
  <2>3. AcceptedWasPublished /\ since \in [Proc -> Nat] /\ Len(history) \in Nat
    OBVIOUS
  <2> HIDE DEF Rotate, IInv, Types
  <2>4. ASSUME NEW p \in Proc, NEW n \in since[p] .. Len(history), n > 0
        PROVE  n \in since[p] .. Len(history') /\ history'[n] = history[n]
    BY <2>1, <2>3, <2>4
  <2> QED
    BY <2>2, <2>3, <2>4 DEF AcceptedWasPublished
<1> QED
  BY <1>1, <1>2, <1>3 DEF IInv

\* Refresh without a URL.
LEMMA RefreshWithoutURLKeeps ==
    ASSUME NEW p \in Proc, IInv, RefreshWithoutURL(p)
    PROVE  IInv'
<1> USE JwksAssumption DEF IInv, Types, TypeOK, Response, Current
<1> USE DEF RefreshWithoutURL, Goto, cache, server, ghost
<1>after. /\ AfterRefresh(p) \in {"lookup", "recheck", "warming"}
          /\ AfterRefresh(p) # "warming" => kid[p] \in Kid
  BY AfterRefreshPlaces DEF PlaceInv
<1>1. /\ Types' /\ LockInv' /\ KeysInv' /\ RespInv'
      /\ PlaceInv' /\ SeenInv' /\ WarmInv' /\ AcceptedWasPublished'
  BY <1>after DEF LockInv, LockFollowsRequest, KeysInv, RespInv, Served,
     PlaceInv, SeenInv, PresentFrom, WarmInv, WarmMeansReady,
     AcceptedWasPublished
<1> QED
  BY <1>1 DEF IInv

\* The lock is free, so nobody else is at the network, and the request takes
\* the cache's ETag.
LEMMA BeginRequestKeeps ==
    ASSUME NEW p \in Proc, IInv, BeginRequest(p)
    PROVE  IInv'
<1> USE JwksAssumption DEF IInv, Types, TypeOK, Response, Current
<1> USE DEF BeginRequest, Goto, cache, server, ghost
<1>1. /\ Types' /\ LockInv' /\ KeysInv' /\ RespInv'
      /\ PlaceInv' /\ SeenInv' /\ WarmInv' /\ AcceptedWasPublished'
  BY DEF LockInv, LockFollowsRequest, KeysInv, RespInv, Served, PlaceInv,
     SeenInv, PresentFrom, WarmInv, WarmMeansReady, AcceptedWasPublished
<1> QED
  BY <1>1 DEF IInv

\* The server answers with its current document, which is no older than the
\* installed one.
LEMMA AnswerKeeps == ASSUME NEW p \in Proc, IInv, Answer(p) PROVE IInv'
<1> USE JwksAssumption DEF IInv, Types, TypeOK, Response, Current
<1> USE DEF Answer, Goto, cache, server, ghost
<1>1. /\ Types' /\ LockInv' /\ KeysInv' /\ RespInv'
      /\ PlaceInv' /\ SeenInv' /\ WarmInv' /\ AcceptedWasPublished'
  BY DEF LockInv, LockFollowsRequest, KeysInv, RespInv, Served, PlaceInv,
     SeenInv, PresentFrom, WarmInv, WarmMeansReady, AcceptedWasPublished
<1> QED
  BY <1>1 DEF IInv

\* The request fails.
LEMMA RequestFailsKeeps ==
    ASSUME NEW p \in Proc, IInv, RequestFails(p)
    PROVE  IInv'
<1> USE JwksAssumption DEF IInv, Types, TypeOK, Response, Current
<1> USE DEF RequestFails, NoResp, Goto, cache, server, ghost
<1>1. /\ Types' /\ LockInv' /\ KeysInv' /\ RespInv'
      /\ PlaceInv' /\ SeenInv' /\ WarmInv' /\ AcceptedWasPublished'
  BY DEF LockInv, LockFollowsRequest, KeysInv, RespInv, Served, PlaceInv,
     SeenInv, PresentFrom, WarmInv, WarmMeansReady, AcceptedWasPublished
<1> QED
  BY <1>1 DEF IInv

\* A 304 is about the document that the cache's ETag names, whose keys are the
\* cached ones.
LEMMA ApplyNotModifiedKeeps ==
    ASSUME NEW p \in Proc, IInv, ApplyNotModified(p)
    PROVE  IInv'
<1> USE JwksAssumption DEF IInv, Types, TypeOK, Response, Current
<1> USE DEF ApplyNotModified, EndRefresh, NoResp, Goto, server
<1>after. /\ AfterRefresh(p) \in {"lookup", "recheck", "warming"}
          /\ AfterRefresh(p) # "warming" => kid[p] \in Kid
  BY AfterRefreshPlaces DEF PlaceInv
<1>alone. Alone(p)
  BY HolderIsAlone
<1>answer. resp[p].status # "error" =>
              /\ resp[p].n \in 1 .. Current /\ resp[p].n >= installed
              /\ resp[p].doc = history[resp[p].n]
  BY DEF RespInv, Served
<1>1. LockInv' /\ RespInv' /\ PlaceInv' /\ SeenInv' /\ WarmInv' /\ AcceptedWasPublished'
  BY <1>after, <1>alone, <1>answer DEF Alone, LockInv, LockFollowsRequest, RespInv,
     Served, PlaceInv, SeenInv, PresentFrom, WarmInv, WarmMeansReady,
     AcceptedWasPublished
<1>2. Types'
  <2>1. installed' \in 1 .. Current /\ since' = since /\ history' = history
    BY <1>answer
  <2>2. resp' \in [Proc -> Response] /\ \A q \in Proc : resp'[q].n \in 0 .. Current
    OBVIOUS
  <2> QED
    BY <1>after, <2>1, <2>2
<1>3. KeysInv'
  <2>1. lastETag = history[resp[p].n] /\ lastETag # NoTag
    BY <1>answer DEF RespInv
  <2> QED
    BY <1>answer, <2>1 DEF KeysInv
<1> QED
  BY <1>1, <1>2, <1>3 DEF IInv

\* A document that parses replaces keys, ETag and installed together.
LEMMA ApplyDocumentKeeps ==
    ASSUME NEW p \in Proc, IInv, ApplyDocument(p)
    PROVE  IInv'
<1> USE JwksAssumption DEF IInv, Types, TypeOK, Response, Current
<1> USE DEF ApplyDocument, EndRefresh, NoResp, Goto, server
<1>after. /\ AfterRefresh(p) \in {"lookup", "recheck", "warming"}
          /\ AfterRefresh(p) # "warming" => kid[p] \in Kid
  BY AfterRefreshPlaces DEF PlaceInv
<1>alone. Alone(p)
  BY HolderIsAlone
<1>answer. resp[p].status # "error" =>
              /\ resp[p].n \in 1 .. Current /\ resp[p].n >= installed
              /\ resp[p].doc = history[resp[p].n]
  BY DEF RespInv, Served
<1>1. LockInv' /\ RespInv' /\ PlaceInv' /\ SeenInv' /\ AcceptedWasPublished'
  BY <1>after, <1>alone, <1>answer DEF Alone, LockInv, LockFollowsRequest, RespInv,
     Served, PlaceInv, SeenInv, PresentFrom, AcceptedWasPublished
<1>2. Types'
  <2>1. installed' \in 1 .. Current /\ since' = since /\ history' = history
    BY <1>answer
  <2>2. resp' \in [Proc -> Response] /\ \A q \in Proc : resp'[q].n \in 0 .. Current
    OBVIOUS
  <2>3. keys' \subseteq Kid /\ lastETag' \in Docs \cup {NoTag}
    BY <1>answer DEF Good
  <2> QED
    BY <1>after, <2>1, <2>2, <2>3
<1>3. KeysInv'
  <2>1. /\ keys' = Good(history[resp[p].n]) /\ keys' # {}
        /\ installed' = resp[p].n /\ history' = history
    BY <1>answer DEF Parses
  <2>2. lastETag' # NoTag => keys' = Good(lastETag')
    BY <1>answer DEF KeysInv
  <2> QED
    BY <1>answer, <2>1, <2>2 DEF KeysInv
<1>4. WarmInv'
  <2>1. keys' # {} /\ installed' > 0
    BY <1>answer DEF Parses
  <2> QED
    BY <1>after, <2>1 DEF WarmInv, WarmMeansReady
<1> QED
  BY <1>1, <1>2, <1>3, <1>4 DEF IInv

\* A failing refresh leaves the cache alone.
LEMMA RefreshFailsKeeps ==
    ASSUME NEW p \in Proc, IInv, RefreshFails(p)
    PROVE  IInv'
<1> USE JwksAssumption DEF IInv, Types, TypeOK, Response, Current
<1> USE DEF RefreshFails, EndRefresh, NoResp, Goto, server
<1>after. /\ AfterRefresh(p) \in {"lookup", "recheck", "warming"}
          /\ AfterRefresh(p) # "warming" => kid[p] \in Kid
  BY AfterRefreshPlaces DEF PlaceInv
<1>alone. Alone(p)
  BY HolderIsAlone
<1>answer. resp[p].status # "error" =>
              /\ resp[p].n \in 1 .. Current /\ resp[p].n >= installed
              /\ resp[p].doc = history[resp[p].n]
  BY DEF RespInv, Served
<1>1. /\ Types' /\ LockInv' /\ KeysInv' /\ RespInv'
      /\ PlaceInv' /\ SeenInv' /\ WarmInv' /\ AcceptedWasPublished'
  BY <1>after, <1>alone, <1>answer DEF Alone, LockInv, LockFollowsRequest, KeysInv,
     RespInv, Served, PlaceInv, SeenInv, PresentFrom, WarmInv, WarmMeansReady,
     AcceptedWasPublished
<1> QED
  BY <1>1 DEF IInv

\* EnsureFresh reads the cache only.
LEMMA EnsureFreshKeeps ==
    ASSUME NEW p \in Proc, IInv, EnsureFresh(p)
    PROVE  IInv'
<1> USE JwksAssumption DEF Current, IInv, Types, TypeOK, Response
<1>1. PICK place \in {"lookup", "lock"} :
         /\ pc' = [pc EXCEPT ![p] = place]
         /\ phase' = IF place = "lock" THEN [phase EXCEPT ![p] = "ensure"] ELSE phase
         /\ place = "accept" => kid[p] \in keys
  BY DEF EnsureFresh, Goto
<1>2. pc[p] = "ensure" /\ UNCHANGED <<cache, refreshing, kid, etag, resp, err, server, ghost>>
  BY DEF EnsureFresh
<1> USE <1>1, <1>2 DEF cache, server, ghost
<1>3. /\ Types' /\ LockInv' /\ KeysInv' /\ RespInv'
      /\ PlaceInv' /\ SeenInv' /\ WarmInv' /\ AcceptedWasPublished'
  BY DEF LockInv, LockFollowsRequest, KeysInv, RespInv, Served, PlaceInv,
     SeenInv, PresentFrom, WarmInv, WarmMeansReady, AcceptedWasPublished
<1> QED
  BY <1>3 DEF IInv

\* A key that Lookup finds is of the installed document, or seeded.
LEMMA LookupKeeps == ASSUME NEW p \in Proc, IInv, Lookup(p) PROVE IInv'
<1> USE JwksAssumption DEF Current, IInv, Types, TypeOK, Response
<1>1. PICK place \in {"accept", "lock"} :
         /\ pc' = [pc EXCEPT ![p] = place]
         /\ phase' = IF place = "lock" THEN [phase EXCEPT ![p] = "lookup"] ELSE phase
         /\ place = "accept" => kid[p] \in keys
  BY DEF Lookup, Goto
<1>2. pc[p] = "lookup" /\ UNCHANGED <<cache, refreshing, kid, etag, resp, err, server, ghost>>
  BY DEF Lookup
<1> USE <1>1, <1>2 DEF cache, server, ghost
<1>3. Types' /\ LockInv' /\ KeysInv' /\ RespInv' /\ PlaceInv' /\ SeenInv' /\ WarmInv'
  BY DEF LockInv, LockFollowsRequest, KeysInv, RespInv, Served, PlaceInv,
     SeenInv, PresentFrom, WarmInv, WarmMeansReady
<1>4. AcceptedWasPublished'
  <2>1. installed \in since[p] .. Current
    BY DEF PlaceInv
  <2>2. installed = 0 => since[p] = 0
    BY DEF PlaceInv
  <2>3. ASSUME place = "accept", installed > 0
        PROVE  \E n \in since[p] .. Current : n > 0 /\ kid[p] \in Good(history[n])
    BY <2>1, <2>3 DEF KeysInv
  <2>4. ASSUME place = "accept", ~ installed > 0
        PROVE  since[p] = 0 /\ kid[p] \in seeded
    BY <2>2, <2>4 DEF KeysInv
  <2> QED
    BY <2>3, <2>4 DEF AcceptedWasPublished
<1> QED
  BY <1>3, <1>4 DEF IInv

\* A key that is not found after a refresh is one that the installed document
\* lacks.
LEMMA LookupAgainKeeps ==
    ASSUME NEW p \in Proc, IInv, LookupAgain(p)
    PROVE  IInv'
<1> USE JwksAssumption DEF IInv, Types, TypeOK, Response, Current
<1> USE DEF LookupAgain, Goto, cache, local, server, ghost
<1>1. Types' /\ LockInv' /\ KeysInv' /\ RespInv' /\ PlaceInv' /\ WarmInv'
  BY DEF LockInv, LockFollowsRequest, KeysInv, RespInv, Served, PlaceInv,
     WarmInv, WarmMeansReady
<1>2. SeenInv'
  <2>1. pc'[p] = "unknown" => kid[p] \in Kid /\ kid[p] \notin keys /\ ~err[p]
    BY DEF PlaceInv
  <2>2. ASSUME kid[p] \in Kid, ~err[p], ~lacked[p] PROVE kid[p] \in keys
    <3>1. installed \in installed .. Current /\ keys = Good(history[installed])
      BY <2>2 DEF SeenInv, KeysInv
    <3> QED
      BY <2>2, <3>1 DEF SeenInv, PresentFrom
  <2> QED
    BY <2>1, <2>2 DEF SeenInv, Served, PresentFrom
<1>3. AcceptedWasPublished'
  BY DEF AcceptedWasPublished, KeysInv, PlaceInv
<1> QED
  BY <1>1, <1>2, <1>3 DEF IInv

\* Warm's answer.
LEMMA WarmReturnsKeeps ==
    ASSUME NEW p \in Proc, IInv, WarmReturns(p)
    PROVE  IInv'
<1> USE JwksAssumption DEF IInv, Types, TypeOK, Response, Current
<1> USE DEF WarmReturns, Goto, cache, local, server, ghost
<1>1. /\ Types' /\ LockInv' /\ KeysInv' /\ RespInv'
      /\ PlaceInv' /\ SeenInv' /\ AcceptedWasPublished'
  BY DEF LockInv, LockFollowsRequest, KeysInv, RespInv, Served, PlaceInv,
     SeenInv, PresentFrom, AcceptedWasPublished
<1>2. WarmInv'
  BY DEF WarmInv, WarmMeansReady, KeysInv
<1> QED
  BY <1>1, <1>2 DEF IInv

\* A call ends.
LEMMA ReturnKeeps == ASSUME NEW p \in Proc, IInv, Return(p) PROVE IInv'
<1> USE JwksAssumption DEF IInv, Types, TypeOK, Response, Current
<1> USE DEF Return, Goto, cache, server
<1>1. /\ Types' /\ LockInv' /\ KeysInv' /\ RespInv'
      /\ PlaceInv' /\ SeenInv' /\ WarmInv' /\ AcceptedWasPublished'
  BY DEF LockInv, LockFollowsRequest, KeysInv, RespInv, Served, PlaceInv,
     SeenInv, PresentFrom, WarmInv, WarmMeansReady, AcceptedWasPublished
<1> QED
  BY <1>1 DEF IInv

\* Warm begins.
LEMMA WarmKeeps == ASSUME NEW p \in Proc, IInv, Warm(p) PROVE IInv'
<1> USE JwksAssumption DEF IInv, Types, TypeOK, Response, Current
<1> USE DEF Warm, Goto, cache, server, ghost
<1>1. /\ Types' /\ LockInv' /\ KeysInv' /\ RespInv'
      /\ PlaceInv' /\ SeenInv' /\ WarmInv' /\ AcceptedWasPublished'
  BY DEF LockInv, LockFollowsRequest, KeysInv, RespInv, Served, PlaceInv,
     SeenInv, PresentFrom, WarmInv, WarmMeansReady, AcceptedWasPublished
<1> QED
  BY <1>1 DEF IInv

\* Verify begins: lacked speaks of the current document.
LEMMA VerifyKeeps ==
    ASSUME NEW p \in Proc, NEW k \in Kid, IInv, Verify(p, k)
    PROVE  IInv'
<1> USE JwksAssumption DEF IInv, Types, TypeOK, Response, Current
<1> USE DEF Verify, Goto, cache, server
<1>1. /\ Types' /\ LockInv' /\ KeysInv' /\ RespInv'
      /\ PlaceInv' /\ WarmInv' /\ AcceptedWasPublished'
  BY DEF LockInv, LockFollowsRequest, KeysInv, RespInv, Served, PlaceInv,
     WarmInv, WarmMeansReady, AcceptedWasPublished
<1>2. SeenInv'
  <2>1. ASSUME NEW q \in Proc, q # p
        PROVE  kid'[q] = kid[q] /\ lacked'[q] = lacked[q] /\ pc'[q] = pc[q]
    BY <2>1
  <2>2. kid'[p] = k /\ (lacked'[p] <=> k \notin Good(history[Current]))
    OBVIOUS
  <2>3. resp[p].status = "none"
    BY DEF RespInv
  <2> QED
    BY <2>1, <2>2, <2>3 DEF SeenInv, Served, PresentFrom
<1> QED
  BY <1>1, <1>2 DEF IInv

-----------------------------------------------------------------------------

\* The invariant is inductive.
LEMMA Inductive == IInv /\ [Next]_vars => IInv'
<1> SUFFICES ASSUME IInv, [Next]_vars PROVE IInv'
  OBVIOUS
<1>1. CASE UNCHANGED vars
  BY <1>1 DEF vars, cache, local, server, ghost, IInv, Types, TypeOK, Response, LockInv,
     LockFollowsRequest, KeysInv, RespInv, Served, PlaceInv, SeenInv, PresentFrom, WarmInv,
     WarmMeansReady, AcceptedWasPublished, Current
<1>2. CASE Age
  BY <1>2, AgeKeeps
<1>3. ASSUME NEW doc \in Docs, Rotate(doc) PROVE IInv'
  BY <1>3, RotateKeeps
<1>4. ASSUME NEW p \in Proc, Step(p) PROVE IInv'
  BY <1>4, RefreshWithoutURLKeeps, BeginRequestKeeps, AnswerKeeps, RequestFailsKeeps,
     ApplyNotModifiedKeeps, ApplyDocumentKeeps, RefreshFailsKeeps, EnsureFreshKeeps,
     LookupKeeps, LookupAgainKeeps, WarmReturnsKeeps, ReturnKeeps DEF Step
<1>5. ASSUME NEW p \in Proc, Warm(p) PROVE IInv'
  BY <1>5, WarmKeeps
<1>6. ASSUME NEW p \in Proc, NEW k \in Kid, Verify(p, k) PROVE IInv'
  BY <1>6, VerifyKeeps
<1> QED
  BY <1>1, <1>2, <1>3, <1>4, <1>5, <1>6 DEF Next

\* The cache starts with the seeded keys, no ETag and nobody at the network.
LEMMA InitInv == Init => IInv
<1> SUFFICES ASSUME Init PROVE IInv
  OBVIOUS
<1>1. Types
  BY JwksAssumption DEF Init, Types, TypeOK, Response, NoResp, Current
<1>2. LockInv /\ KeysInv /\ RespInv /\ PlaceInv /\ SeenInv /\ WarmInv /\ AcceptedWasPublished
  BY <1>1, JwksAssumption DEF Init, Types, TypeOK, NoResp, LockInv, LockFollowsRequest,
     KeysInv, RespInv, Served, PlaceInv, SeenInv, WarmInv, WarmMeansReady, AcceptedWasPublished
<1> QED
  BY <1>1, <1>2 DEF IInv

\* Every reachable state satisfies the invariant.
LEMMA Invariance == Spec => []IInv
  BY InitInv, Inductive, PTL DEF Spec

\* Type correctness, for any goroutines, keys and documents.
THEOREM CacheTypeOK == Spec => []TypeOK
<1>1. IInv => TypeOK
  BY DEF IInv, Types
<1> QED
  BY <1>1, Invariance, PTL

\* A 304 is about the keys in the cache, whoever refreshes meanwhile (jwks.go
\* lines 94-113).
THEOREM NotModifiedHolds == Spec => []NotModifiedIsTrue
<1>1. IInv => NotModifiedIsTrue
  <2> SUFFICES ASSUME IInv, NEW p \in Proc, resp[p].status = "304"
               PROVE  keys = Good(resp[p].doc)
    BY DEF NotModifiedIsTrue
  <2>1. pc[p] = "answered" /\ resp[p].doc = lastETag /\ resp[p].n \in 1 .. Current
                          /\ resp[p].doc = history[resp[p].n]
    BY DEF IInv, RespInv, Served
  <2>2. resp[p].doc # NoTag
    BY <2>1, JwksAssumption DEF IInv, Types, TypeOK, Current
  <2> QED
    BY <2>1, <2>2 DEF IInv, KeysInv
<1> QED
  BY <1>1, Invariance, PTL

\* A slow answer never replaces newer keys by older ones (lines 89-90, 130-136).
THEOREM NewestHolds == Spec => NewestWins
<1>1. IInv /\ [Next]_vars => [installed' >= installed]_vars
  <2> SUFFICES ASSUME IInv, Next PROVE installed' >= installed
    OBVIOUS
  <2>1. installed \in Nat
    BY DEF IInv, Types, TypeOK, Current
  <2>2. ASSUME NEW p \in Proc, ApplyNotModified(p) \/ ApplyDocument(p)
        PROVE  installed' >= installed
    BY <2>2 DEF ApplyNotModified, ApplyDocument, IInv, RespInv, Served
  <2>3. ASSUME installed' = installed PROVE installed' >= installed
    BY <2>1, <2>3
  <2>4. (\A p \in Proc : ~ApplyNotModified(p) /\ ~ApplyDocument(p)) => installed' = installed
    BY DEF Next, Step, Age, Rotate, RefreshWithoutURL, BeginRequest, Answer, RequestFails,
       RefreshFails, EnsureFresh, Lookup, LookupAgain, WarmReturns, Return, Warm, Verify, ghost
  <2> QED
    BY <2>2, <2>3, <2>4
<1> QED
  BY <1>1, Invariance, PTL DEF Spec, NewestWins

\* An accepted key was published since the document that was cached when the
\* call began, or is seeded and nothing was fetched (lines 75-83, 131).
THEOREM AcceptedHolds == Spec => []AcceptedWasPublished
<1>1. IInv => AcceptedWasPublished
  BY DEF IInv
<1> QED
  BY <1>1, Invariance, PTL

\* "unknown kid" is returned only for a key that a document of the call's time
\* lacked, whoever else refreshes between the answer and the second look (lines
\* 152-169).
THEOREM UnknownHolds == Spec => []UnknownIsUnknown
<1>1. IInv => UnknownIsUnknown
  BY DEF IInv, SeenInv, UnknownIsUnknown
<1> QED
  BY <1>1, Invariance, PTL

\* Warm's success means keys, and they never go away again (verifier.go lines
\* 80-98).
THEOREM WarmHolds == Spec => []WarmMeansReady
<1>1. IInv => WarmMeansReady
  BY DEF IInv, WarmInv
<1> QED
  BY <1>1, Invariance, PTL

\* The refresh lock is held exactly by who is at the network (lines 89-90).
THEOREM LockHolds == Spec => []LockFollowsRequest
<1>1. IInv => LockFollowsRequest
  BY DEF IInv, LockInv
<1> QED
  BY <1>1, Invariance, PTL

=============================================================================
