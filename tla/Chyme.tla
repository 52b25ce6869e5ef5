------------------------------- MODULE Chyme -------------------------------
(***************************************************************************)
(* The whole of chyme: a request to the ingest service of module Indexer   *)
(* ahead of the taskers and workers of module Pipeline.  They share the    *)
(* resource set: what redis-cli or the request itself adds there is popped *)
(* by a tasker while the walk of the bucket may still be going on.  Other  *)
(* requests are seen by what they add to the set.                          *)
(***************************************************************************)
EXTENDS Pipeline

CONSTANTS MaxLimit,  \* as in module Indexer
          Prefix,
          Root,
          Object,
          Entries,
          Page,
          Depth,
          Accepted,
          Failures,
          Others     \* resources that other requests may add

VARIABLES target,    \* as in module Indexer
          limit,
          known,
          phase,
          listing,
          visiting,
          erred,
          cli,
          written,
          inserted

requestVars == <<target, limit, known, phase, listing, visiting, erred, cli,
                 written, inserted>>
chymeVars == <<requestVars, pipelineVars>>

I == INSTANCE Indexer

\* A resource is the URL of an object or of a prefix.
ASSUME ChymeAssumption ==
  /\ I!IndexerAssumption
  /\ I!ReachableAssumption
  /\ Prefix \cup Object \subseteq Task
  /\ Others \subseteq Task

ChymeInit == I!Init /\ PipelineInit
-----------------------------------------------------------------------------
\* A step of the request; what it inserts is in the set for the taskers.
Request ==
  /\ I!Next
  /\ \/ inserted' = inserted /\ UNCHANGED pipelineVars
     \/ \E r \in inserted' \ inserted : Ingest(r)

OtherRequest == UNCHANGED requestVars /\ \E r \in Others : Ingest(r)

\* Taskers and workers; the request does not hear of them.
Working ==
  /\ UNCHANGED requestVars
  /\ \/ \E k \in Tasker : Work(k) \/ Trouble(k) \/ Turn(k)
     \/ Processing

ChymeNext == Request \/ OtherRequest \/ Working

ChymeSpec == ChymeInit /\ [][ChymeNext]_chymeVars
-----------------------------------------------------------------------------
(***************************************************************************)
(* Properties.                                                             *)
(***************************************************************************)

Reached(j) == \E m \in queued \cup answered : TaskOf[m] = j

\* An answer without an error is a promise: each task that can be made of what
\* the request selected is pending with the taskers, on the queue or answered by
\* an attempt, however the calls, goroutines and processes on the way fail.
\* (Until the resource set fails under a tasker or a tasker dies, and where the
\* walk was Sound, which the handler cannot tell.)
OkIsKept ==
  phase = "ok" /\ I!Sound /\ losses = 0 =>
    \A j \in I!Asked \cap Job : j \in pending \/ Reached(j)

\* No message is ever on the queue for a resource that the filter rejects or
\* that lies below the recursion depth, unless other requests added it.
OnlySelectedIsSent ==
  \A m \in queued \cup answered :
    TaskOf[m] \in Others \cup I!Asked
=============================================================================
