----------------------------- MODULE ImageCache -----------------------------
(***************************************************************************)
(* The daemon's image-list cache (src/daemon/main.go): GET                 *)
(* /api/system/images answers from a ten-second cache and, on a miss, lets *)
(* one request list the images while the others wait on a channel.         *)
(*                                                                         *)
(* A Request is one HTTP request, run once by a goroutine of its own.  A   *)
(* Changer is one image build, pull or delete.  Both take a mutex for each *)
(* call on the cache and release it in between, so each such call is one   *)
(* action.  A channel is named by the request whose beginRefresh made it.  *)
(* An image list is abstracted to the number of changes made to the        *)
(* Docker image store before it was read.                                  *)
(***************************************************************************)
EXTENDS Integers, FiniteSets

CONSTANTS Request,   \* the GET /api/system/images requests
          Changer,   \* the builds, pulls and deletes of images
          NoChan,    \* the nil channel
          NoData     \* the nil image list, and the answer of a failed request

ASSUME NilAssumption == NoChan \notin Request /\ NoData \notin Nat

VARIABLES
  data,         \* imageListCache.data
  fresh,        \* time.Since(imageListCache.ts) < imageListCache.ttl
  inflight,     \* imageListCache.inflight
  done,         \* imageListCache.done
  closedChans,  \* the channels that have been closed
  images,       \* Docker's own image store: how many changes it has seen
  pc,           \* where each request is in handleSystemImages
  waitingOn,    \* the channel a request received from beginRefresh
  listed,       \* result: what a fetching request got from ImageList
  reply,        \* the body a request was answered with
  changerPc,    \* where each changer is
  invalidated,  \* history: images at the latest completed invalidate
  asked,        \* history: what invalidated was when each request began
  overtaken     \* history: the requests whose list was read before an
                \* invalidate and had not been stored when it ran

cache == <<data, fresh, inflight, done, closedChans>>
requests == <<pc, waitingOn, listed, reply>>
cacheHistory == <<invalidated, asked, overtaken>>
cacheVars == <<cache, images, requests, changerPc, cacheHistory>>

Chan == Request \cup {NoChan}
Data == Nat \cup {NoData}

RequestPc == {"get", "begin", "wait", "reget", "client", "list",
              "set", "finish", "deferred", "done"}

CacheInit ==
  /\ data = NoData /\ fresh = FALSE
  /\ inflight = FALSE /\ done = NoChan /\ closedChans = {}
  /\ images = 0
  /\ pc = [r \in Request |-> "get"]
  /\ waitingOn = [r \in Request |-> NoChan]
  /\ listed = [r \in Request |-> NoData]
  /\ reply = [r \in Request |-> NoData]
  /\ changerPc = [c \in Changer |-> "idle"]
  /\ invalidated = 0
  /\ asked = [r \in Request |-> 0] /\ overtaken = {}

-----------------------------------------------------------------------------
(* A request.                                                              *)

Goto(r, from, to) == pc[r] = from /\ pc' = [pc EXCEPT ![r] = to]

Hit == data # NoData /\ fresh

\* get(): answer from the cache, or go on to the given place.
GetOr(r, from, miss) ==
  /\ \/ Hit /\ Goto(r, from, "done") /\ reply' = [reply EXCEPT ![r] = data]
     \/ ~Hit /\ Goto(r, from, miss) /\ UNCHANGED reply
  /\ UNCHANGED <<cache, images, waitingOn, listed, changerPc, invalidated, overtaken>>

Get(r) == GetOr(r, "get", "begin") /\ asked' = [asked EXCEPT ![r] = invalidated]

\* beginRefresh(): nothing to do on fresh data, wait for the fetch in
\* flight, or become the one that fetches, with the given channel.
BeginRefreshWith(r, chan) ==
  /\ \/ Hit /\ Goto(r, "begin", "reget") /\ UNCHANGED <<waitingOn, inflight, done>>
     \/ /\ ~Hit /\ inflight
        /\ Goto(r, "begin", "wait")
        /\ waitingOn' = [waitingOn EXCEPT ![r] = done]
        /\ UNCHANGED <<inflight, done>>
     \/ /\ ~Hit /\ ~inflight
        /\ Goto(r, "begin", "client")
        /\ inflight' = TRUE /\ done' = chan
        /\ UNCHANGED waitingOn
  /\ UNCHANGED <<data, fresh, closedChans, images, listed, reply, changerPc, cacheHistory>>

\* Mutant: the channel is made only once.
MutantMakeOnce(r) == BeginRefreshWith(r, IF done = NoChan THEN r ELSE done)

\* c.done = make(chan struct{})
BeginRefresh(r) == BeginRefreshWith(r, r)

\* <-done
Receive(r) ==
  /\ waitingOn[r] \in closedChans
  /\ Goto(r, "wait", "reget")
  /\ UNCHANGED <<cache, images, waitingOn, listed, reply, changerPc, cacheHistory>>

\* Mutant: a miss goes back to the channel it has waited on.
MutantReget(r) ==
  /\ GetOr(r, "reget", IF waitingOn[r] = NoChan THEN "begin" ELSE "wait")
  /\ UNCHANGED asked

\* The get() at the end of the loop body: a miss goes round again.
Reget(r) == GetOr(r, "reget", "begin") /\ UNCHANGED asked

\* getDockerClient() fails: 503, with the deferred finishRefresh still to run.
NoClient(r) ==
  /\ Goto(r, "client", "deferred")
  /\ UNCHANGED <<cache, images, waitingOn, listed, reply, changerPc, cacheHistory>>

HaveClient(r) ==
  /\ Goto(r, "client", "list")
  /\ UNCHANGED <<cache, images, waitingOn, listed, reply, changerPc, cacheHistory>>

\* Mutant: the error return leaves without the deferred finishRefresh.
MutantListFailsNoDefer(r) ==
  /\ Goto(r, "list", "done")
  /\ UNCHANGED <<cache, images, waitingOn, listed, reply, changerPc, cacheHistory>>

\* cli.ImageList() fails: 500.
ListFails(r) ==
  /\ Goto(r, "list", "deferred")
  /\ UNCHANGED <<cache, images, waitingOn, listed, reply, changerPc, cacheHistory>>

ListImages(r) ==
  /\ Goto(r, "list", "set")
  /\ listed' = [listed EXCEPT ![r] = images]
  /\ UNCHANGED <<cache, images, waitingOn, reply, changerPc, cacheHistory>>

Set(r) ==
  /\ Goto(r, "set", "finish")
  /\ data' = listed[r]
  /\ fresh' = TRUE
  /\ UNCHANGED <<inflight, done, closedChans, images, waitingOn, listed, reply, changerPc, cacheHistory>>

\* finishRefresh(): clears the flag and closes whatever channel is current.
ReleaseFlight ==
  /\ inflight' = FALSE
  /\ closedChans' = IF inflight THEN closedChans \cup {done} ELSE closedChans
  /\ UNCHANGED <<data, fresh, done>>

\* The explicit call after set().
FinishRefresh(r) ==
  /\ Goto(r, "finish", "deferred")
  /\ reply' = [reply EXCEPT ![r] = listed[r]]
  /\ ReleaseFlight
  /\ UNCHANGED <<images, waitingOn, listed, changerPc, cacheHistory>>

\* The deferred call: it runs on every way out, the explicit call's included.
DeferredFinish(r) ==
  /\ Goto(r, "deferred", "done")
  /\ ReleaseFlight
  /\ UNCHANGED <<images, waitingOn, listed, reply, changerPc, cacheHistory>>

-----------------------------------------------------------------------------
(* Builds, pulls and deletes, and the passing of time.                     *)

\* Docker builds, pulls or removes an image.
ChangeImages(c) ==
  /\ changerPc[c] = "idle"
  /\ changerPc' = [changerPc EXCEPT ![c] = "changed"]
  /\ images' = images + 1
  /\ UNCHANGED <<cache, requests, cacheHistory>>

\* The build, the three pulls or the removal failed: no invalidate.
ChangeFails(c) ==
  /\ changerPc[c] = "idle"
  /\ changerPc' = [changerPc EXCEPT ![c] = "done"]
  /\ UNCHANGED <<cache, images, requests, cacheHistory>>

Invalidated(c) ==
  /\ changerPc[c] = "changed"
  /\ changerPc' = [changerPc EXCEPT ![c] = "done"]
  /\ invalidated' = images
  /\ overtaken' = overtaken \cup {r \in Request : pc[r] = "set"}
  /\ UNCHANGED <<inflight, done, closedChans, images, requests, asked>>

\* Mutant: a refresh in flight is left to bring the new list.
MutantInvalidateUnlessInFlight(c) ==
  /\ Invalidated(c)
  /\ data' = IF inflight THEN data ELSE NoData
  /\ fresh' = (fresh /\ inflight)

Invalidate(c) ==
  /\ Invalidated(c)
  /\ data' = NoData
  /\ fresh' = FALSE

\* The ten seconds of ttl pass.
Expire ==
  /\ Hit
  /\ fresh' = FALSE
  /\ UNCHANGED <<data, inflight, done, closedChans, images, requests, changerPc, cacheHistory>>

-----------------------------------------------------------------------------

HandleSystemImages(r) ==
  \/ Get(r) \/ BeginRefresh(r) \/ Receive(r) \/ Reget(r)
  \/ NoClient(r) \/ HaveClient(r) \/ ListFails(r) \/ ListImages(r)
  \/ Set(r) \/ FinishRefresh(r) \/ DeferredFinish(r)

Change(c) == ChangeImages(c) \/ ChangeFails(c) \/ Invalidate(c)

\* Every request has been answered and every change is over.
CacheQuiet ==
  /\ \A r \in Request : pc[r] = "done"
  /\ \A c \in Changer : changerPc[c] = "done"
  /\ UNCHANGED cacheVars

CacheNext ==
  \/ \E r \in Request : HandleSystemImages(r)
  \/ \E c \in Changer : Change(c)
  \/ Expire
  \/ CacheQuiet

CacheSpec == CacheInit /\ [][CacheNext]_cacheVars

\* Go schedules every runnable goroutine and Docker answers every call.
CacheFairSpec == CacheSpec /\ \A r \in Request : WF_cacheVars(HandleSystemImages(r))

-----------------------------------------------------------------------------
(* Properties.                                                             *)

CacheTypeOK ==
  /\ data \in Data /\ fresh \in BOOLEAN
  /\ inflight \in BOOLEAN /\ done \in Chan /\ closedChans \in SUBSET Request
  /\ images \in Nat
  /\ pc \in [Request -> RequestPc]
  /\ waitingOn \in [Request -> Chan]
  /\ listed \in [Request -> Data]
  /\ reply \in [Request -> Data]
  /\ changerPc \in [Changer -> {"idle", "changed", "done"}]
  /\ invalidated \in Nat /\ asked \in [Request -> Nat] /\ overtaken \subseteq Request
  /\ inflight => done # NoChan

\* finishRefresh runs twice per fetch, and the second call may find another
\* request's flight: the channel it closes is nevertheless always open and
\* never nil, so close() cannot panic the daemon.
NoDoubleClose == inflight => done \in Request \ closedChans

\* A waiter's channel is closed already, or is the one that the next
\* finishRefresh will close and some request is on its way to that call:
\* overwriting c.done never strands a waiter, nor does a fetch that fails.
Pilots == {r \in Request : pc[r] \in {"client", "list", "set", "finish", "deferred"}}
NoLostWaiter ==
  \A r \in Request :
    pc[r] = "wait" => \/ waitingOn[r] \in closedChans
                      \/ inflight /\ waitingOn[r] = done /\ Pilots # {}

\* A request that begins after an invalidate is answered with a list from before
\* it in one way only: another request had read that list when the invalidate
\* ran, and stored it afterwards.  No hit, no wait for a flight of before and no
\* second or third flight brings it an old list otherwise.
StaleOnlyByRacedFill ==
  \A r \in Request :
    reply[r] # NoData /\ reply[r] < asked[r] =>
      \E q \in overtaken \ {r} : reply[r] = listed[q]

\* Every request is answered: no waiter sleeps for ever, whatever fails,
\* expires or is invalidated meanwhile.
EveryRequestAnswered == \A r \in Request : <>(pc[r] = "done")

=============================================================================
