------------------------------- MODULE Indexer -------------------------------
(***************************************************************************)
(* The ingest service of internal/ingest: a request adds one resource to   *)
(* the resource set, or walks a bucket with the lister of pkg/aws/s3.go    *)
(* and pipes every object its filter accepts into a `redis-cli --pipe` of  *)
(* its own (the bulk inserter of internal/core/resource.go).  A behaviour  *)
(* is one request; requests share nothing but the set that they add to.    *)
(*                                                                         *)
(* The lister runs one goroutine for every object and every common prefix  *)
(* of a page and waits for all of them with an errgroup, which keeps one   *)
(* of their errors and cancels nothing.                                    *)
(***************************************************************************)
EXTENDS Naturals

CONSTANTS MaxLimit,  \* bound: the recursion depths that requests ask for
          Prefix,    \* the prefixes of the bucket, Root (the empty one) too
          Root,
          Object,    \* its objects
          Entries,   \* objects and common prefixes right below a prefix
          Page,      \* those on the first page of its listing
          Depth,     \* the depth of a prefix; Root's is 1
          Accepted,  \* objects and prefixes that the filters let through
          Failures   \* what may go wrong in a behaviour

\* "s3": ListObjectsV2 fails;  "cli": redis-cli does not start, or dies;
\* "redis": SADD or SCARD fails.
Failure == {"s3", "cli", "redis"}

SubPrefixes(p) == Entries[p] \cap Prefix

ASSUME IndexerAssumption ==
  /\ Prefix \cap Object = {}
  /\ MaxLimit \in Nat
  /\ Root \in Prefix
  /\ Entries \in [Prefix -> SUBSET (Prefix \cup Object)]
  /\ Page \in [Prefix -> SUBSET (Prefix \cup Object)]
  /\ \A p \in Prefix : Page[p] \subseteq Entries[p]
  /\ Depth \in [Prefix -> Nat]
  /\ Depth[Root] = 1
  /\ \A p \in Prefix : \A q \in SubPrefixes(p) : Depth[q] = Depth[p] + 1
  /\ Accepted \subseteq Prefix \cup Object
  /\ Failures \subseteq Failure

\* Every prefix lies below Root.
ASSUME ReachableAssumption ==
  \A S \in SUBSET Prefix :
    Root \in S /\ (\A p \in S : SubPrefixes(p) \subseteq S) => S = Prefix

VARIABLES target,    \* the object or prefix the request names
          limit,     \* its recursionDepth
          known,     \* its URL parses and its filter is in FilterRegistry
          phase,     \* control of the request's handler
          listing,   \* prefixes whose goroutine has yet to list its page
          visiting,  \* objects whose goroutine has yet to visit them
          erred,     \* some goroutine has returned an error
          cli,       \* its redis-cli
          written,   \* objects written to its standard input
          inserted   \* what the request has added to the resource set

request == <<target, limit, known>>
vars == <<request, phase, listing, visiting, erred, cli, written, inserted>>

Answered == {"ok", "error", "aborted"}

TypeOK ==
  /\ target \in Prefix \cup Object
  /\ limit \in 0..MaxLimit
  /\ known \in BOOLEAN
  /\ phase \in {"idle", "listing", "closing"} \cup Answered
  /\ listing \subseteq Prefix
  /\ visiting \subseteq Object
  /\ erred \in BOOLEAN
  /\ cli \in {"none", "running", "ended", "dead"}
  /\ written \subseteq Object
  /\ inserted \subseteq Object \cup Prefix

Init ==
  /\ target \in Prefix \cup Object
  /\ limit \in 0..MaxLimit
  /\ known \in BOOLEAN
  /\ phase = "idle"
  /\ listing = {}
  /\ visiting = {}
  /\ erred = FALSE
  /\ cli = "none"
  /\ written = {}
  /\ inserted = {}
-----------------------------------------------------------------------------
\* The URL does not parse or NewFilter knows no such filter, which panics where
\* the filter `ext` has no extension; or a recursion depth is given and the key
\* is not a prefix.
Refuse ==
  /\ phase = "idle"
  /\ \/ ~known /\ phase' \in {"error", "aborted"}
     \/ limit > 0 /\ target \in Object /\ phase' = "error"
  /\ UNCHANGED <<request, listing, visiting, erred, cli, written, inserted>>

\* Without a recursion depth the resource itself is added.  One that the filter
\* rejects is nil: its String panics, and net/http recovers.
IngestOne ==
  /\ phase = "idle"
  /\ known /\ limit = 0
  /\ \/ /\ target \in Accepted
        /\ inserted' = {target}
        /\ phase' = "ok" \/ ("redis" \in Failures /\ phase' = "error")
     \/ /\ target \in Accepted /\ "redis" \in Failures
        /\ phase' = "error"
        /\ UNCHANGED inserted
     \/ /\ target \notin Accepted
        /\ phase' = "aborted"
        /\ UNCHANGED inserted
  /\ UNCHANGED <<request, listing, visiting, erred, cli, written>>

Recursive == known /\ limit > 0 /\ target \in Prefix

\* ingestPrefix: redis-cli starts, and the bucket is listed.  RootPrefix is not
\* passed on to S3: the listing starts at the root, whatever the target.
IngestPrefix ==
  /\ phase = "idle"
  /\ Recursive
  /\ \/ /\ phase' = "listing"
        /\ cli' = "running"
        /\ listing' = {Root}
     \/ /\ "cli" \in Failures
        /\ phase' = "error"
        /\ UNCHANGED <<cli, listing>>
  /\ UNCHANGED <<request, visiting, erred, written, inserted>>

Truncated(p) == Page[p] # Entries[p]

\* The parent's listing was truncated: its continuation token was copied into
\* the input for p.
ForeignToken(p) ==
  \E r \in Prefix : p \in SubPrefixes(r) /\ Truncated(r)

TooDeep(p) == Depth[p] > limit

\* Mutated form of List: the depth is compared one level too late.
ListTooDeep(p) ==
  /\ p \in listing
  /\ Depth[p] <= limit + 1
  /\ listing' = (listing \ {p}) \cup (Page[p] \cap Prefix)
  /\ visiting' = visiting \cup (Page[p] \cap Object)
  /\ UNCHANGED <<request, phase, erred, cli, written, inserted>>

\* Mutated form of List: objects are listed like common prefixes.
ListsObjects(p) ==
  /\ p \in listing
  /\ listing' = (listing \ {p}) \cup Page[p]
  /\ UNCHANGED <<request, phase, visiting, erred, cli, written, inserted>>

\* One page is listed: a goroutine for each of its entries.  S3 may take the
\* token for the end of p.
List(p) ==
  /\ p \in listing
  /\ ~TooDeep(p)
  /\ \E page \in {Page[p]} \cup (IF ForeignToken(p) THEN {{}} ELSE {}) :
       /\ listing' = (listing \ {p}) \cup (page \cap Prefix)
       /\ visiting' = visiting \cup (page \cap Object)
  /\ UNCHANGED <<request, phase, erred, cli, written, inserted>>

\* Below the recursion depth nothing is listed.
ListNothing(p) ==
  /\ p \in listing
  /\ TooDeep(p)
  /\ listing' = listing \ {p}
  /\ UNCHANGED <<request, phase, visiting, erred, cli, written, inserted>>

\* ListObjectsV2 fails.  For the root the error message reads input.Prefix,
\* which is nil there: the request panics and net/http recovers.
ListFails(p) ==
  /\ p \in listing
  /\ ~TooDeep(p)
  /\ "s3" \in Failures \/ ForeignToken(p)
  /\ listing' = listing \ {p}
  /\ IF p = Root
       THEN phase' = "aborted" /\ UNCHANGED erred
       ELSE erred' = TRUE /\ UNCHANGED phase
  /\ UNCHANGED <<request, visiting, cli, written, inserted>>

\* Mutated form of Visit: a goroutine that drops its object is waited for.
VisitForgets(o) ==
  /\ o \in visiting
  /\ o \in Accepted
  /\ visiting' = visiting \ {o}
  /\ written' = written \cup {o}
  /\ UNCHANGED <<request, phase, listing, erred, cli, inserted>>

\* The goroutine of object o: it is filtered out, or written to the pipe, which
\* is broken once redis-cli is dead.
Visit(o) ==
  /\ o \in visiting
  /\ visiting' = visiting \ {o}
  /\ \/ o \notin Accepted /\ UNCHANGED <<erred, written>>
     \/ /\ o \in Accepted /\ cli = "running"
        /\ written' = written \cup {o}
        /\ UNCHANGED erred
     \/ /\ o \in Accepted /\ cli # "running"
        /\ erred' = TRUE
        /\ UNCHANGED written
  /\ UNCHANGED <<request, phase, listing, cli, inserted>>

\* Every goroutine of the errgroups has returned, and so does ListObjects.  An
\* error is answered at once: the inserter is closed only without one.
Listed ==
  /\ phase = "listing"
  /\ listing = {} /\ visiting = {}
  /\ phase' = IF erred THEN "error" ELSE "closing"
  /\ UNCHANGED <<request, listing, visiting, erred, cli, written, inserted>>

\* redis-cli executes the SADD of object o.
Apply(o) ==
  /\ cli = "running"
  /\ o \in written \ inserted
  /\ inserted' = inserted \cup {o}
  /\ UNCHANGED <<request, phase, listing, visiting, erred, cli, written>>

\* It reads the end of its input and exits.
CliEnds ==
  /\ phase = "closing" /\ cli = "running"
  /\ written \subseteq inserted
  /\ cli' = "ended"
  /\ UNCHANGED <<request, phase, listing, visiting, erred, written, inserted>>

\* It loses Redis, and exits with what is left of its input.
CliDies ==
  /\ "cli" \in Failures
  /\ cli = "running"
  /\ cli' = "dead"
  /\ UNCHANGED <<request, phase, listing, visiting, erred, written, inserted>>

\* Mutated form of Count: Close does not wait for redis-cli.
CountEarly ==
  /\ phase = "closing"
  /\ phase' = "ok" \/ ("redis" \in Failures /\ phase' = "error")
  /\ UNCHANGED <<request, listing, visiting, erred, cli, written, inserted>>

\* Close has waited for redis-cli; its error is discarded, and the request is
\* answered with the size of the whole set.
Count ==
  /\ phase = "closing" /\ cli # "running"
  /\ phase' = "ok" \/ ("redis" \in Failures /\ phase' = "error")
  /\ UNCHANGED <<request, listing, visiting, erred, cli, written, inserted>>
-----------------------------------------------------------------------------
Handler == Refuse \/ IngestOne \/ IngestPrefix \/ Listed \/ Count

Lister ==
  \/ \E p \in Prefix : List(p) \/ ListNothing(p) \/ ListFails(p)
  \/ \E o \in Object : Visit(o)

RedisCli == CliEnds \/ \E o \in Object : Apply(o)

Next == Handler \/ Lister \/ RedisCli \/ CliDies

Spec == Init /\ [][Next]_vars

\* Fairness: goroutines run, S3 and Redis answer, redis-cli works off its input.
LiveSpec ==
  Spec /\ WF_vars(Handler) /\ WF_vars(Lister) /\ WF_vars(RedisCli)
-----------------------------------------------------------------------------
(***************************************************************************)
(* Properties.                                                             *)
(***************************************************************************)

\* The objects a recursive request selects: accepted, within its depth.
Wanted ==
  {o \in Object \cap Accepted :
     \E p \in Prefix : o \in Entries[p] /\ ~TooDeep(p)}

\* What a request asks for: the resource it names, or the objects of a walk.
Asked == IF limit = 0 THEN {target} \cap Accepted ELSE Wanted

\* A request never writes to redis-cli, nor adds to the resource set, what the
\* filter rejects or what lies below the recursion depth, at whatever moment its
\* goroutines or its redis-cli fail (lister.list, ingestPrefix).
OnlyWanted == written \cup inserted \subseteq Asked

\* No page in the request's depth was truncated.
Complete == \A p \in Prefix : TooDeep(p) \/ ~Truncated(p)

\* A walk saw the whole of each level, and redis-cli took all of it: neither is
\* noticed where it is not so.
Sound == limit > 0 => Complete /\ cli # "dead"

\* A request that is answered without an error has all that it asked for in the
\* resource set and no redis-cli left: the errgroups waited for every goroutine
\* and Close for the pipe.  (Where the walk was Sound.)
OkMeansIndexed ==
  phase = "ok" =>
    /\ limit > 0 => cli \in {"ended", "dead"}
    /\ Sound => Asked \subseteq inserted

\* To its client a request is one of Ingestion's: whatever its goroutines and its
\* redis-cli do, it is answered once, what it inserts trickles in, and an answer
\* without an error is its last step.  A walk is cut short by a truncated level
\* or by the death of redis-cli.
Promise ==
  INSTANCE Ingestion WITH
    Resource <- Prefix \cup Object,
    asked <- Asked,
    cut <- ~Sound,
    answer <- IF phase \in Answered THEN phase ELSE "none"

ImplementsIngestion == Promise!Spec

\* "We want to index an entire prefix" (service.go): what a request adds lies
\* below the prefix that it names.
IndexesItsPrefix ==
  Recursive =>
    \A S \in SUBSET Prefix :
      /\ target \in S
      /\ \A p \in S : SubPrefixes(p) \subseteq S
      => inserted \subseteq UNION {Entries[p] : p \in S}

\* Every request is answered: however its goroutines fail, the errgroups and
\* the pipe let it end.
EveryRequestIsAnswered == phase # "idle" ~> phase \in Answered
=============================================================================
