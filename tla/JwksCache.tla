----------------------------- MODULE JwksCache -----------------------------
(***************************************************************************)
(* The JWKS cache (src/security/jwks/jwks.go) as the token verifiers use   *)
(* it: concurrent Verify calls, each EnsureFresh followed by Lookup, and   *)
(* Warm, over one Cache and one key server whose document rotates.         *)
(*                                                                         *)
(* A document says of each key id whether its entry is good, is skipped    *)
(* (another key type, curve or algorithm), is malformed (x does not decode *)
(* to a public key) or is absent.  The ETag of a document is the document. *)
(* The server is external: it answers a request at a moment of its choice, *)
(* with the document of that moment, or the request fails.                 *)
(***************************************************************************)
EXTENDS Naturals, Sequences

CONSTANTS Proc,       \* goroutines that call Verify or Warm
          Kid,        \* key ids
          Static,     \* ids of the configured static keys
          Docs,       \* the documents the server may publish
          NoTag,      \* an empty ETag
          NoKid,      \* no key id: the goroutine verifies no token
          MaxDocs     \* bound: how many documents are published in turn

ASSUME JwksAssumption ==
    /\ Docs \subseteq [Kid -> {"good", "skipped", "malformed", "absent"}]
    /\ Docs # {}
    /\ Static \subseteq Kid
    /\ NoTag \notin Docs
    /\ NoKid \notin Kid
    /\ MaxDocs \in Nat \ {0}

VARIABLES
    url,         \* the cache has a JWKS URL
    keys,        \* the ids of c.keys
    stale,       \* c.fetchedAt is zero or older than the ttl
    lastETag,
    refreshing,  \* the holder of c.refreshing, a set of at most one
    pc,          \* where each goroutine is
    kid, phase, etag, resp, err,   \* its locals; phase: who called Refresh
    history,     \* the documents published so far, the last one current
    tagged,      \* the server sends ETags
    \* history variables
    seeded,      \* the static keys that Seed took
    installed,   \* the document c.keys are known to be: 0 for the seeded keys
    since,       \* installed when the goroutine's call began
    lacked       \* since then, some current document lacked its kid

cache == <<url, keys, stale, lastETag>>
local == <<kid, phase, etag, resp, err>>
server == <<history, tagged>>
ghost == <<seeded, installed, since, lacked>>
vars == <<cache, refreshing, pc, local, server, ghost>>

Current == Len(history)
Good(doc) == {k \in Kid : doc[k] = "good"}

\* Mutant: a document with no usable key is accepted.
ParsesEmpty(doc) == \A k \in Kid : doc[k] # "malformed"

\* Parse: one malformed entry rejects the document, as does having none that
\* is good.
Parses(doc) == /\ \A k \in Kid : doc[k] # "malformed"
               /\ Good(doc) # {}

NoResp == [status |-> "none", doc |-> NoTag, n |-> 0]

TypeOK ==
    /\ url \in BOOLEAN /\ stale \in BOOLEAN /\ tagged \in BOOLEAN
    /\ keys \subseteq Kid /\ seeded \subseteq Static
    /\ lastETag \in Docs \cup {NoTag}
    /\ refreshing \subseteq Proc
    /\ pc \in [Proc -> {"idle", "ensure", "lookup", "lock", "asked",
                        "answered", "recheck", "warming", "accept",
                        "unknown", "failed", "warmed"}]
    /\ phase \in [Proc -> {"none", "ensure", "lookup", "warm"}]
    /\ kid \in [Proc -> Kid \cup {NoKid}] /\ err \in [Proc -> BOOLEAN]
    /\ etag \in [Proc -> Docs \cup {NoTag}]
    /\ \A p \in Proc : /\ resp[p].status \in {"none", "200", "304", "error"}
                       /\ resp[p].n \in 0 .. Current
    /\ history \in Seq(Docs) /\ Current \in 1 .. MaxDocs
    /\ installed \in 0 .. Current
    /\ since \in [Proc -> 0 .. Current]
    /\ lacked \in [Proc -> BOOLEAN]

\* NewCache and Seed: Seed skips a static key without id or of another length;
\* those it takes count as just fetched.
Init ==
    /\ url \in BOOLEAN
    /\ seeded \in SUBSET Static
    /\ keys = seeded
    /\ stale = (seeded = {})
    /\ lastETag = NoTag
    /\ refreshing = {}
    /\ pc = [p \in Proc |-> "idle"]
    /\ kid = [p \in Proc |-> NoKid]
    /\ phase = [p \in Proc |-> "none"]
    /\ etag = [p \in Proc |-> NoTag]
    /\ err = [p \in Proc |-> FALSE]
    /\ resp = [p \in Proc |-> NoResp]
    /\ \E doc \in Docs : history = <<doc>>
    /\ tagged \in BOOLEAN
    /\ installed = 0
    /\ since = [p \in Proc |-> 0]
    /\ lacked = [p \in Proc |-> FALSE]

Goto(p, place) == pc' = [pc EXCEPT ![p] = place]

-----------------------------------------------------------------------------
(* The server *)

\* the key server rotates its keys
Rotate(doc) ==
    /\ Current < MaxDocs
    /\ history' = Append(history, doc)
    /\ lacked' = [p \in Proc |-> lacked[p] \/ kid[p] \in Kid \ Good(doc)]
    /\ UNCHANGED <<cache, refreshing, pc, local, tagged, seeded, installed, since>>

\* 304 when the request's If-None-Match is the tag of the current document
Answer(p) ==
    /\ pc[p] = "asked"
    /\ Goto(p, "answered")
    /\ LET doc == history[Current]
           match == tagged /\ etag[p] = doc
       IN resp' = [resp EXCEPT ![p] =
              [status |-> IF match THEN "304" ELSE "200", doc |-> doc, n |-> Current]]
    /\ UNCHANGED <<cache, refreshing, kid, phase, etag, err, server, ghost>>

\* client.Do fails or times out, ctx ends, the status is another, or the body
\* cannot be read or decoded
RequestFails(p) ==
    /\ pc[p] = "asked"
    /\ Goto(p, "answered")
    /\ resp' = [resp EXCEPT ![p] = [NoResp EXCEPT !.status = "error"]]
    /\ UNCHANGED <<cache, refreshing, kid, phase, etag, err, server, ghost>>

-----------------------------------------------------------------------------
(* Refresh *)

\* Where the caller of Refresh goes on: EnsureFresh's error is dropped
AfterRefresh(p) ==
    CASE phase[p] = "ensure" -> "lookup"
      [] phase[p] = "lookup" -> "recheck"
      [] phase[p] = "warm"   -> "warming"

\* Refresh with an empty URL fails at once
RefreshWithoutURL(p) ==
    /\ pc[p] = "lock"
    /\ ~url
    /\ Goto(p, AfterRefresh(p))
    /\ err' = [err EXCEPT ![p] = TRUE]
    /\ UNCHANGED <<cache, refreshing, kid, phase, etag, resp, server, ghost>>

\* Mutant: refreshes are not serialised.
BeginRequestUnlocked(p) ==
    /\ pc[p] = "lock"
    /\ url
    /\ refreshing' = refreshing \cup {p}
    /\ etag' = [etag EXCEPT ![p] = lastETag]
    /\ Goto(p, "asked")
    /\ UNCHANGED <<cache, kid, phase, resp, err, server, ghost>>

\* Mutant: a goroutine that had to wait takes the other's result as its own.
BeginRequestShared(p) ==
    /\ pc[p] = "lock"
    /\ url
    /\ refreshing = {}
    /\ IF ~stale /\ installed > 0
       THEN /\ Goto(p, AfterRefresh(p))
            /\ err' = [err EXCEPT ![p] = FALSE]
            /\ UNCHANGED <<refreshing, etag>>
       ELSE /\ refreshing' = {p}
            /\ etag' = [etag EXCEPT ![p] = lastETag]
            /\ Goto(p, "asked")
            /\ UNCHANGED err
    /\ UNCHANGED <<cache, kid, phase, resp, server, ghost>>

\* refreshing.Lock, the read of lastETag, and the request goes out
BeginRequest(p) ==
    /\ pc[p] = "lock"
    /\ url
    /\ refreshing = {}
    /\ refreshing' = {p}
    /\ etag' = [etag EXCEPT ![p] = lastETag]
    /\ Goto(p, "asked")
    /\ UNCHANGED <<cache, kid, phase, resp, err, server, ghost>>

\* the deferred Unlock, and Refresh returns
EndRefresh(p, failed) ==
    /\ refreshing' = refreshing \ {p}
    /\ Goto(p, AfterRefresh(p))
    /\ resp' = [resp EXCEPT ![p] = NoResp]
    /\ etag' = [etag EXCEPT ![p] = NoTag]
    /\ err' = [err EXCEPT ![p] = failed]
    /\ UNCHANGED <<url, kid, phase, server, seeded, since, lacked>>

\* 304: the keys are as fresh as the answer
ApplyNotModified(p) ==
    /\ pc[p] = "answered"
    /\ resp[p].status = "304"
    /\ stale' = FALSE
    /\ installed' = resp[p].n
    /\ UNCHANGED <<keys, lastETag>>
    /\ EndRefresh(p, FALSE)

\* Mutant: the new keys are added to the cached ones.
ApplyDocumentMerged(p) ==
    /\ pc[p] = "answered"
    /\ resp[p].status = "200"
    /\ Parses(resp[p].doc)
    /\ keys' = keys \cup Good(resp[p].doc)
    /\ stale' = FALSE
    /\ lastETag' = IF tagged THEN resp[p].doc ELSE lastETag
    /\ installed' = resp[p].n
    /\ EndRefresh(p, FALSE)

\* 200 with a document that parses replaces the keys, the seeded ones too; an
\* answer without an ETag leaves lastETag
ApplyDocument(p) ==
    /\ pc[p] = "answered"
    /\ resp[p].status = "200"
    /\ Parses(resp[p].doc)
    /\ keys' = Good(resp[p].doc)
    /\ stale' = FALSE
    /\ lastETag' = IF tagged THEN resp[p].doc ELSE lastETag
    /\ installed' = resp[p].n
    /\ EndRefresh(p, FALSE)

\* Mutant: the ETag is remembered before the document is parsed.
RefreshFailsTagged(p) ==
    /\ pc[p] = "answered"
    /\ \/ resp[p].status = "error"
       \/ resp[p].status = "200" /\ ~Parses(resp[p].doc)
    /\ lastETag' = IF tagged /\ resp[p].status = "200" THEN resp[p].doc
                   ELSE lastETag
    /\ UNCHANGED <<keys, stale, installed>>
    /\ EndRefresh(p, TRUE)

\* Mutant: the error returns do not unlock.
RefreshFailsLocked(p) ==
    /\ pc[p] = "answered"
    /\ \/ resp[p].status = "error"
       \/ resp[p].status = "200" /\ ~Parses(resp[p].doc)
    /\ Goto(p, AfterRefresh(p))
    /\ resp' = [resp EXCEPT ![p] = NoResp]
    /\ err' = [err EXCEPT ![p] = TRUE]
    /\ UNCHANGED <<cache, refreshing, kid, phase, etag, server, ghost>>

RefreshFails(p) ==
    /\ pc[p] = "answered"
    /\ \/ resp[p].status = "error"
       \/ resp[p].status = "200" /\ ~Parses(resp[p].doc)
    /\ UNCHANGED <<keys, stale, lastETag, installed>>
    /\ EndRefresh(p, TRUE)

-----------------------------------------------------------------------------
(* The callers *)

\* Verify of a token whose header names k
Verify(p, k) ==
    /\ pc[p] = "idle"
    /\ Goto(p, "ensure")
    /\ kid' = [kid EXCEPT ![p] = k]
    /\ since' = [since EXCEPT ![p] = installed]
    /\ lacked' = [lacked EXCEPT ![p] = k \notin Good(history[Current])]
    /\ UNCHANGED <<cache, refreshing, phase, etag, resp, err, server, seeded, installed>>

\* Warm refreshes unconditionally when there is a URL
Warm(p) ==
    /\ pc[p] = "idle"
    /\ Goto(p, IF url THEN "lock" ELSE "warming")
    /\ phase' = [phase EXCEPT ![p] = "warm"]
    /\ UNCHANGED <<cache, refreshing, kid, etag, resp, err, server, ghost>>

\* Warm returns an error only when there are no keys either
WarmReturns(p) ==
    /\ pc[p] = "warming"
    /\ Goto(p, IF keys = {} /\ (err[p] \/ ~url) THEN "failed" ELSE "warmed")
    /\ UNCHANGED <<cache, refreshing, local, server, ghost>>

EnsureFresh(p) ==
    /\ pc[p] = "ensure"
    /\ IF keys # {} /\ (~stale \/ ~url)
       THEN Goto(p, "lookup") /\ UNCHANGED phase
       ELSE Goto(p, "lock") /\ phase' = [phase EXCEPT ![p] = "ensure"]
    /\ UNCHANGED <<cache, refreshing, kid, etag, resp, err, server, ghost>>

Lookup(p) ==
    /\ pc[p] = "lookup"
    /\ IF kid[p] \in keys
       THEN Goto(p, "accept") /\ UNCHANGED phase
       ELSE Goto(p, "lock") /\ phase' = [phase EXCEPT ![p] = "lookup"]
    /\ UNCHANGED <<cache, refreshing, kid, etag, resp, err, server, ghost>>

\* The Get after Refresh, whether Refresh failed or not
LookupAgain(p) ==
    /\ pc[p] = "recheck"
    /\ Goto(p, CASE kid[p] \in keys -> "accept"
                 [] kid[p] \notin keys /\ err[p] -> "failed"
                 [] OTHER -> "unknown")
    /\ UNCHANGED <<cache, refreshing, local, server, ghost>>

Return(p) ==
    /\ pc[p] \in {"accept", "unknown", "failed", "warmed"}
    /\ Goto(p, "idle")
    /\ kid' = [kid EXCEPT ![p] = NoKid]
    /\ phase' = [phase EXCEPT ![p] = "none"]
    /\ err' = [err EXCEPT ![p] = FALSE]
    /\ since' = [since EXCEPT ![p] = 0]
    /\ lacked' = [lacked EXCEPT ![p] = FALSE]
    /\ UNCHANGED <<cache, refreshing, etag, resp, server, seeded, installed>>

\* The ttl passes since fetchedAt
Age ==
    /\ ~stale
    /\ stale' = TRUE
    /\ UNCHANGED <<url, keys, lastETag, refreshing, pc, local, server, ghost>>

-----------------------------------------------------------------------------

Step(p) ==
    \/ RefreshWithoutURL(p) \/ BeginRequest(p) \/ Answer(p) \/ RequestFails(p)
    \/ ApplyNotModified(p) \/ ApplyDocument(p) \/ RefreshFails(p)
    \/ EnsureFresh(p) \/ Lookup(p) \/ LookupAgain(p) \/ WarmReturns(p) \/ Return(p)

Next ==
    \/ Age
    \/ \E doc \in Docs : Rotate(doc)
    \/ \E p \in Proc : Step(p) \/ Warm(p) \/ \E k \in Kid : Verify(p, k)

Spec == Init /\ [][Next]_vars

-----------------------------------------------------------------------------

\* A 304 speaks about the keys in the cache: while it is being applied, the
\* cached keys are those of the document the server meant (lines 94-113).
\* Needs the lock around the whole refresh, and an ETag that is stored with
\* the keys it belongs to only.
NotModifiedIsTrue ==
    \A p \in Proc : resp[p].status = "304" => keys = Good(resp[p].doc)

\* A slow answer never replaces the keys of a newer document by those of an
\* older one (lines 89-90, 130-136).
NewestWins == [][installed' >= installed]_vars

\* A key is accepted only if it was published at some time since the document
\* that was cached when the call began; a key that was withdrawn before that
\* is not accepted again (lines 75-83, 131).
AcceptedWasPublished ==
    \A p \in Proc : pc[p] = "accept" =>
        \/ \E n \in since[p] .. Current : n > 0 /\ kid[p] \in Good(history[n])
        \/ since[p] = 0 /\ kid[p] \in seeded

\* A token is refused with "unknown kid" only if the server's document lacked
\* the key at some time during the call: a key rotated in before the call is
\* found (lines 152-169).
UnknownIsUnknown == \A p \in Proc : pc[p] = "unknown" => lacked[p]

\* Warm reports success only when there are keys, and they do not go away
\* again: no answer of the server empties the cache (verifier.go lines 80-98).
WarmMeansReady ==
    \A p \in Proc : pc[p] = "warmed" => keys # {}

\* The refresh lock is held by the goroutine at the network and by nobody
\* when there is none: no return of Refresh leaves it locked, which would stop
\* every later token with an unknown key (lines 89-90).
LockFollowsRequest == refreshing = {p \in Proc : pc[p] \in {"asked", "answered"}}

=============================================================================
