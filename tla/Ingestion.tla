----------------------------- MODULE Ingestion -----------------------------
(***************************************************************************)
(* What the ingest service promises to a client, without the bucket it     *)
(* walks and the redis-cli it writes to.  A request asks for a set of      *)
(* resources; they enter the resource set one at a time and in any order,  *)
(* some perhaps after the request has failed; it is answered once, and     *)
(* after the answer "ok" nothing is missing and nothing follows.  Only a   *)
(* walk that was cut short behind the service's back is answered with less.*)
(***************************************************************************)
CONSTANT Resource

VARIABLES asked,     \* what the request asks for
          inserted,  \* what it has added to the resource set
          cut,       \* a listing or a pipe was cut short unnoticed
          answer     \* its answer, or "none"

vars == <<asked, inserted, cut, answer>>

Init ==
  /\ asked \subseteq Resource
  /\ inserted = {}
  /\ cut \in BOOLEAN
  /\ answer = "none"

Adds == \E r \in asked : inserted' = inserted \cup {r}

Insert ==
  /\ answer # "ok"
  /\ Adds
  /\ UNCHANGED <<asked, cut, answer>>

CutShort ==
  /\ answer # "ok"
  /\ cut' = TRUE
  /\ UNCHANGED <<asked, inserted, answer>>

\* A request for a single resource adds it as it answers.
Answer ==
  /\ answer = "none"
  /\ answer' \in {"ok", "error", "aborted"}
  /\ Adds \/ UNCHANGED inserted
  /\ answer' = "ok" => cut \/ asked \subseteq inserted'
  /\ UNCHANGED <<asked, cut>>

Next == Insert \/ CutShort \/ Answer

Spec == Init /\ [][Next]_vars
=============================================================================
