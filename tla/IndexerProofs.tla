---------------------------- MODULE IndexerProofs ----------------------------
(***************************************************************************)
(* Proofs of the safety properties of Indexer, for every bucket, every     *)
(* filter, every depth and every set of failures.                          *)
(*                                                                         *)
(* OkMeansIndexed is not inductive: the walk is in the middle of the tree  *)
(* in most states.  Walked names what a walk without an error has kept at  *)
(* every moment: some set of prefixes is done, each of its sub-prefixes is *)
(* done or about to be listed, and each accepted object below it is        *)
(* written or about to be visited.  When nothing is left to list, the done *)
(* prefixes and those below the depth are closed under SubPrefixes, and    *)
(* ReachableAssumption makes them all the prefixes of the bucket.          *)
(***************************************************************************)
EXTENDS Indexer, TLAPS

\* The objects a listing within the depth can name.
InDepth ==
  {o \in Object : \E p \in Prefix : o \in Entries[p] /\ ~TooDeep(p)}

Selected == visiting \subseteq InDepth /\ written \subseteq Wanted

\* What each phase of a recursive request has started and ended.
Control ==
  /\ phase = "idle" => /\ ~erred /\ cli = "none"
                       /\ listing = {} /\ visiting = {} /\ inserted = {}
  /\ Recursive /\ phase = "listing" => cli # "none"
  /\ Recursive /\ phase \in {"closing", "ok"} =>
       cli # "none" /\ listing = {} /\ visiting = {} /\ ~erred
  /\ Recursive /\ phase = "ok" => cli # "running"
  /\ cli = "ended" => written \subseteq inserted

Done(S) ==
  /\ Root \in S \cup listing
  /\ \A p \in S :
       \/ TooDeep(p)
       \/ /\ SubPrefixes(p) \subseteq S \cup listing
          /\ Entries[p] \cap Object \cap Accepted
               \subseteq visiting \cup written

\* A walk that has met no error and no truncated level.
Walking ==
  Recursive /\ phase \in {"listing", "closing", "ok"} /\ ~erred /\ Complete

Walked == Walking => \E S \in SUBSET Prefix : Done(S)

\* Where the insertions come from: redis-cli, or the request itself.
Single ==
  /\ cli = "none" /\ listing = {} /\ visiting = {} /\ written = {}
  /\ phase \notin {"listing", "closing"}
  /\ inserted \subseteq IF limit = 0 THEN {target} \cap Accepted ELSE {}
  /\ phase = "ok" => limit = 0 /\ target \in inserted

Added == IF Recursive THEN inserted \subseteq written ELSE Single

IInv == TypeOK /\ Selected /\ Control /\ Added /\ Walked
-----------------------------------------------------------------------------
\* Where no level in depth is truncated, a page in depth is the whole level and
\* no goroutine within the depth gets a foreign token.
LEMMA CompletePages ==
  ASSUME IndexerAssumption, Complete, limit \in Nat,
         NEW p \in Prefix, ~TooDeep(p)
  PROVE  Page[p] = Entries[p] /\ ~ForeignToken(p)
<1>1. Page[p] = Entries[p]
  BY DEF Complete, Truncated
<1>2. ASSUME NEW r \in Prefix, p \in SubPrefixes(r), Truncated(r)
      PROVE  FALSE
  <2>1. TooDeep(r)
    BY <1>2 DEF Complete
  <2>2. Depth[p] = Depth[r] + 1 /\ Depth[r] \in Nat
    BY <1>2 DEF IndexerAssumption
  <2>3. Depth[p] > limit
    BY <2>1, <2>2 DEF TooDeep
  <2> QED BY <2>3 DEF TooDeep
<1> QED BY <1>1, <1>2 DEF ForeignToken

LEMMA InitInv == ASSUME IndexerAssumption, Init PROVE IInv
<1>1. TypeOK
  BY DEF IndexerAssumption, Init, TypeOK
<1>2. Selected
  BY DEF Init, Selected
<1>3. Control /\ Added /\ Walked
  BY DEF Init, Control, Added, Single, Walked, Walking
<1> QED BY <1>1, <1>2, <1>3 DEF IInv

LEMMA TypeStep == ASSUME IndexerAssumption, TypeOK, [Next]_vars PROVE TypeOK'
<1> USE DEF TypeOK, Answered
<1>1. CASE Handler
  BY <1>1 DEF Handler, Refuse, IngestOne, IngestPrefix, Listed, Count, request,
              IndexerAssumption
<1>2. ASSUME NEW p \in Prefix, List(p) \/ ListNothing(p) \/ ListFails(p)
      PROVE  TypeOK'
  <2>1. CASE List(p)
    <3>1. PICK page \in {Page[p]} \cup (IF ForeignToken(p) THEN {{}} ELSE {}) :
            /\ listing' = (listing \ {p}) \cup (page \cap Prefix)
            /\ visiting' = visiting \cup (page \cap Object)
      BY <2>1 DEF List
    <3>2. listing' \subseteq Prefix /\ visiting' \subseteq Object
      BY <3>1
    <3> QED BY <2>1, <3>2 DEF List, request
  <2>2. CASE ListNothing(p) \/ ListFails(p)
    BY <2>2 DEF ListNothing, ListFails, request
  <2> QED BY <1>2, <2>1, <2>2
<1>3. ASSUME NEW o \in Object, Visit(o) \/ Apply(o)
      PROVE  TypeOK'
  BY <1>3 DEF Visit, Apply, request
<1>4. CASE CliEnds \/ CliDies
  BY <1>4 DEF CliEnds, CliDies, request
<1>5. CASE UNCHANGED vars
  BY <1>5 DEF vars, request
<1> QED BY <1>1, <1>2, <1>3, <1>4, <1>5 DEF Next, Lister, RedisCli

LEMMA SelectedStep ==
  ASSUME IndexerAssumption, TypeOK, Selected, [Next]_vars PROVE Selected'
<1>1. limit' = limit
  BY DEF Next, Handler, Lister, RedisCli, Refuse, IngestOne, IngestPrefix,
         Listed, Count, List, ListNothing, ListFails, Visit, Apply, CliEnds,
         CliDies, vars, request
<1>2. InDepth' = InDepth /\ Wanted' = Wanted
  BY <1>1 DEF InDepth, Wanted, TooDeep
<1>3. ASSUME NEW p \in Prefix, List(p) PROVE Selected'
  <2>1. PICK page \in {Page[p]} \cup (IF ForeignToken(p) THEN {{}} ELSE {}) :
          visiting' = visiting \cup (page \cap Object)
    BY <1>3 DEF List
  <2>2. page \subseteq Entries[p]
    BY <2>1 DEF IndexerAssumption
  <2>3. page \cap Object \subseteq InDepth
    BY <1>3, <2>2 DEF List, InDepth
  <2> QED BY <1>2, <1>3, <2>1, <2>3 DEF List, Selected
<1>4. ASSUME NEW o \in Object, Visit(o) PROVE Selected'
  <2>1. o \in Accepted => o \in Wanted
    BY <1>4 DEF Visit, Selected, InDepth, Wanted
  <2> QED BY <1>2, <1>4, <2>1 DEF Visit, Selected
<1>5. CASE Handler \/ RedisCli \/ CliDies \/ UNCHANGED vars
  BY <1>2, <1>5 DEF Selected, Handler, Refuse, IngestOne, IngestPrefix, Listed,
                    Count, RedisCli, CliEnds, Apply, CliDies, vars
<1>6. ASSUME NEW p \in Prefix, ListNothing(p) \/ ListFails(p) PROVE Selected'
  BY <1>2, <1>6 DEF Selected, ListNothing, ListFails
<1> QED BY <1>3, <1>4, <1>5, <1>6 DEF Next, Lister

LEMMA ControlStep ==
  ASSUME IndexerAssumption, TypeOK, Control, [Next]_vars PROVE Control'
<1>1. Recursive' = Recursive
  BY DEF Next, Handler, Lister, RedisCli, Refuse, IngestOne, IngestPrefix,
         Listed, Count, List, ListNothing, ListFails, Visit, Apply, CliEnds,
         CliDies, vars, request, Recursive
<1>2. CASE Refuse \/ IngestOne
  BY <1>1, <1>2 DEF Control, Refuse, IngestOne, Recursive, IndexerAssumption,
                    TypeOK
<1>3. CASE IngestPrefix \/ Listed \/ Count
  BY <1>1, <1>3 DEF Control, IngestPrefix, Listed, Count, TypeOK
<1>4. ASSUME NEW p \in Prefix, List(p) \/ ListNothing(p) \/ ListFails(p)
      PROVE  Control'
  BY <1>1, <1>4 DEF Control, List, ListNothing, ListFails
<1>5. ASSUME NEW o \in Object, Visit(o) PROVE Control'
  BY <1>1, <1>5 DEF Control, Visit
<1>6. CASE RedisCli \/ CliDies
  BY <1>1, <1>6 DEF Control, RedisCli, CliEnds, Apply, CliDies
<1>7. CASE UNCHANGED vars
  BY <1>1, <1>7 DEF Control, vars
<1> QED BY <1>2, <1>3, <1>4, <1>5, <1>6, <1>7 DEF Next, Handler, Lister

LEMMA AddedStep ==
  ASSUME IndexerAssumption, TypeOK, Control, Added, [Next]_vars PROVE Added'
<1>1. UNCHANGED request /\ (Recursive' <=> Recursive)
  BY DEF Next, Handler, Lister, RedisCli, Refuse, IngestOne, IngestPrefix,
         Listed, Count, List, ListNothing, ListFails, Visit, Apply, CliEnds,
         CliDies, vars, request, Recursive
<1>2. CASE Refuse \/ IngestOne
  BY <1>1, <1>2 DEF Added, Single, Refuse, IngestOne, Recursive, request,
                    TypeOK, Control
<1>3. CASE IngestPrefix \/ Listed \/ Count
  BY <1>1, <1>3 DEF Added, Single, IngestPrefix, Listed, Count
<1>4. ASSUME NEW p \in Prefix, List(p) \/ ListNothing(p) \/ ListFails(p)
      PROVE  Added'
  BY <1>1, <1>4 DEF Added, Single, List, ListNothing, ListFails
<1>5. ASSUME NEW o \in Object, Visit(o) \/ Apply(o) PROVE Added'
  BY <1>1, <1>5 DEF Added, Single, Visit, Apply
<1>6. CASE CliEnds \/ CliDies
  BY <1>1, <1>6 DEF Added, Single, CliEnds, CliDies
<1>7. CASE UNCHANGED vars
  BY <1>1, <1>7 DEF Added, Single, vars, request
<1> QED BY <1>2, <1>3, <1>4, <1>5, <1>6, <1>7 DEF Next, Handler, Lister, RedisCli

\* A step of the walk keeps a done set; the set it leaves is named in each case.
LEMMA ListWalks ==
  ASSUME IndexerAssumption, TypeOK, Walked,
         NEW p \in Prefix, List(p) \/ ListNothing(p) \/ ListFails(p)
  PROVE  Walked'
<1>1. limit' = limit /\ (Recursive' <=> Recursive) /\ (Complete' <=> Complete)
  BY DEF List, ListNothing, ListFails, request, Recursive, Complete, TooDeep,
         Truncated
<1>2. CASE ListFails(p)
  BY <1>2 DEF Walked, Walking, ListFails
<1>3. ASSUME List(p) \/ ListNothing(p), Walking
      PROVE  \E S \in SUBSET Prefix : Done(S)'
  <2>1. PICK S \in SUBSET Prefix : Done(S)
    BY <1>3 DEF Walked, Walking
  <2>2. CASE ListNothing(p)
    <3>1. Done(S \cup {p})'
      BY <1>1, <2>1, <2>2 DEF Done, ListNothing, TooDeep
    <3> QED BY <3>1
  <2>3. CASE List(p)
    <3>1. Page[p] = Entries[p] /\ ~ForeignToken(p)
      BY <1>3, <2>3, CompletePages DEF Walking, List, TypeOK
    <3>2. /\ listing' = (listing \ {p}) \cup SubPrefixes(p)
          /\ visiting' = visiting \cup (Entries[p] \cap Object)
          /\ written' = written
      BY <2>3, <3>1 DEF List, SubPrefixes
    <3>3. ASSUME NEW q \in S \cup {p}, ~TooDeep(q)
          PROVE  /\ SubPrefixes(q) \subseteq S \cup {p} \cup listing'
                 /\ Entries[q] \cap Object \cap Accepted
                      \subseteq visiting' \cup written'
      <4>1. CASE q = p
        BY <3>2, <4>1
      <4>2. CASE q \in S
        BY <2>1, <3>2, <3>3, <4>2 DEF Done
      <4> QED BY <4>1, <4>2
    <3>4. Root \in S \cup {p} \cup listing'
      BY <2>1, <3>2 DEF Done
    <3>5. \A q \in Prefix : TooDeep(q)' <=> TooDeep(q)
      BY <1>1 DEF TooDeep
    <3>6. \A q \in Prefix : SubPrefixes(q)' = SubPrefixes(q)
      BY DEF SubPrefixes
    <3>7. Done(S \cup {p})'
      BY <2>1, <3>3, <3>4, <3>5, <3>6 DEF Done
    <3> QED BY <3>7
  <2> QED BY <1>3, <2>2, <2>3
<1>4. (List(p) \/ ListNothing(p)) /\ Walking' => Walking
  BY <1>1 DEF Walking, List, ListNothing
<1> QED BY <1>2, <1>3, <1>4 DEF Walked, Walking

LEMMA VisitWalks ==
  ASSUME IndexerAssumption, TypeOK, Walked, NEW o \in Object, Visit(o)
  PROVE  Walked'
<1>1. /\ limit' = limit /\ (Recursive' <=> Recursive)
      /\ (Complete' <=> Complete) /\ phase' = phase /\ listing' = listing
  BY DEF Visit, request, Recursive, Complete, TooDeep, Truncated
<1>2. ASSUME Walking'
      PROVE  \E S \in SUBSET Prefix : Done(S)'
  <2>1. ~erred
    BY <1>2 DEF Walking, Visit, TypeOK
  <2>2. PICK S \in SUBSET Prefix : Done(S)
    BY <1>1, <1>2, <2>1 DEF Walked, Walking
  <2>3. \A q \in Object \cap Accepted :
          q \in visiting \cup written => q \in visiting' \cup written'
    BY <1>2 DEF Visit, Walking
  <2>4. \A q \in Prefix :
          (TooDeep(q)' <=> TooDeep(q)) /\ SubPrefixes(q)' = SubPrefixes(q)
    BY <1>1 DEF TooDeep, SubPrefixes
  <2>5. Done(S)'
    BY <1>1, <2>2, <2>3, <2>4 DEF Done
  <2> QED BY <2>5
<1> QED BY <1>2 DEF Walked, Walking

LEMMA WalkedStep ==
  ASSUME IndexerAssumption, TypeOK, Control, Walked, [Next]_vars PROVE Walked'
<1>1. CASE IngestPrefix
  <2>1. ASSUME phase' = "listing" PROVE Done({})'
    BY <1>1, <2>1 DEF IngestPrefix, Done
  <2>2. phase' = "listing" \/ phase' = "error"
    BY <1>1 DEF IngestPrefix
  <2> QED BY <2>1, <2>2 DEF Walked, Walking
<1>2. CASE Refuse \/ IngestOne
  <2>1. CASE Refuse
    BY <2>1 DEF Walked, Walking, Refuse
  <2>2. CASE IngestOne
    <3>1. ~Recursive'
      BY <2>2 DEF IngestOne, request, Recursive
    <3> QED BY <3>1 DEF Walked, Walking
  <2> QED BY <1>2, <2>1, <2>2
<1>3. CASE Listed \/ Count \/ RedisCli \/ CliDies \/ UNCHANGED vars
  <2>1. /\ UNCHANGED <<request, listing, visiting, erred, written>>
        /\ phase' \in {"listing", "closing", "ok"} =>
             phase \in {"listing", "closing", "ok"}
    BY <1>3 DEF Listed, Count, RedisCli, CliEnds, Apply, CliDies, vars
  <2>2. Walking' => Walking
    BY <2>1 DEF Walking, request, Recursive, Complete, TooDeep, Truncated
  <2>3. \A S \in SUBSET Prefix : Done(S) => Done(S)'
    BY <2>1 DEF Done, request, TooDeep, SubPrefixes
  <2> QED BY <2>2, <2>3 DEF Walked, Walking
<1>4. ASSUME NEW p \in Prefix, List(p) \/ ListNothing(p) \/ ListFails(p)
      PROVE  Walked'
  BY <1>4, ListWalks
<1>5. ASSUME NEW o \in Object, Visit(o) PROVE Walked'
  BY <1>5, VisitWalks
<1> QED BY <1>1, <1>2, <1>3, <1>4, <1>5 DEF Next, Handler, Lister

\* When nothing is left to list, a done set and the prefixes below the depth
\* are the whole bucket.
LEMMA DoneIsEverything ==
  ASSUME IndexerAssumption, ReachableAssumption, limit \in Nat,
         NEW S \in SUBSET Prefix, Done(S), listing = {},
         NEW p \in Prefix, ~TooDeep(p)
  PROVE  p \in S
<1> DEFINE T == S \cup {q \in Prefix : TooDeep(q)}
<1>1. T \in SUBSET Prefix /\ Root \in T
  BY DEF Done
<1>2. ASSUME NEW q \in T PROVE SubPrefixes(q) \subseteq T
  <2>1. CASE TooDeep(q)
    <3>1. ASSUME NEW r \in SubPrefixes(q) PROVE TooDeep(r)
      <4>1. q \in Prefix /\ r \in Prefix
        BY <1>1 DEF SubPrefixes
      <4>2. Depth[r] = Depth[q] + 1 /\ Depth[q] \in Nat
        BY <3>1, <4>1 DEF IndexerAssumption
      <4> QED BY <2>1, <4>2 DEF TooDeep
    <3> QED BY <3>1 DEF SubPrefixes
  <2>2. CASE ~TooDeep(q)
    <3>1. q \in S
      BY <2>2
    <3> QED BY <2>2, <3>1 DEF Done
  <2> QED BY <2>1, <2>2
<1>3. T = Prefix
  <2> HIDE DEF T
  <2> QED BY <1>1, <1>2 DEF ReachableAssumption
<1> QED BY <1>3

LEMMA InvImpliesOk ==
  ASSUME IndexerAssumption, ReachableAssumption, IInv PROVE OkMeansIndexed
<1>1. SUFFICES ASSUME phase = "ok"
               PROVE  /\ limit > 0 => cli \in {"ended", "dead"}
                      /\ Sound => Asked \subseteq inserted
  BY DEF OkMeansIndexed
<1>2. limit \in Nat
  BY DEF IInv, TypeOK
<1>3. CASE ~Recursive
  BY <1>1, <1>2, <1>3 DEF IInv, Added, Single, Asked
<1>4. CASE Recursive
  <2>1. limit > 0
    BY <1>4 DEF Recursive
  <2>2. cli \in {"ended", "dead"}
    BY <1>1, <1>4 DEF IInv, TypeOK, Control
  <2>3. ASSUME Sound, NEW o \in Wanted PROVE o \in inserted
    <3>1. listing = {} /\ visiting = {} /\ ~erred /\ written \subseteq inserted
      BY <1>1, <1>4, <2>1, <2>2, <2>3 DEF IInv, Control, Sound
    <3>2. PICK S \in SUBSET Prefix : Done(S)
      BY <1>1, <1>4, <2>1, <2>3, <3>1 DEF IInv, Walked, Walking, Sound
    <3>3. PICK p \in Prefix : o \in Entries[p] /\ ~TooDeep(p)
      BY DEF Wanted
    <3>4. p \in S
      BY <1>2, <3>1, <3>2, <3>3, DoneIsEverything
    <3>5. o \in visiting \cup written
      BY <3>2, <3>3, <3>4 DEF Done, Wanted
    <3> QED BY <3>1, <3>5
  <2> QED BY <1>2, <2>1, <2>2, <2>3 DEF Asked
<1> QED BY <1>3, <1>4

LEMMA StepInv == ASSUME IndexerAssumption, IInv, [Next]_vars PROVE IInv'
BY TypeStep, SelectedStep, ControlStep, AddedStep, WalkedStep DEF IInv
-----------------------------------------------------------------------------
\* Every variable keeps its type, for every bucket and every set of failures.
THEOREM TypeCorrect == Spec => []TypeOK
<1>1. Init => TypeOK
  BY InitInv, IndexerAssumption DEF IInv
<1>2. TypeOK /\ [Next]_vars => TypeOK'
  BY TypeStep, IndexerAssumption
<1> QED BY <1>1, <1>2, PTL DEF Spec

LEMMA AlwaysInv == Spec => []IInv
<1>1. Init => IInv
  BY InitInv, IndexerAssumption
<1>2. IInv /\ [Next]_vars => IInv'
  BY StepInv, IndexerAssumption
<1> QED BY <1>1, <1>2, PTL DEF Spec

\* What is written to redis-cli or added to the set passed the filter and lies
\* within the depth, whatever fails (lister.list, ingestPrefix).
THEOREM OnlySelectedIsWritten == Spec => []OnlyWanted
<1>1. IInv => OnlyWanted
  <2> SUFFICES ASSUME IInv PROVE written \cup inserted \subseteq Asked
    BY DEF OnlyWanted
  <2>1. limit \in Nat
    BY DEF IInv, TypeOK
  <2>2. CASE Recursive
    BY <2>1, <2>2 DEF IInv, Selected, Added, Recursive, Asked
  <2>3. CASE ~Recursive
    BY <2>1, <2>3 DEF IInv, Added, Single, Asked
  <2> QED BY <2>2, <2>3
<1> QED BY <1>1, AlwaysInv, PTL

\* A request that is answered without an error indexed all that it asked for: no
\* goroutine of the lister and no insert is overtaken by the answer.
THEOREM OkIsIndexed == Spec => []OkMeansIndexed
<1>1. IInv => OkMeansIndexed
  BY InvImpliesOk, IndexerAssumption, ReachableAssumption
<1> QED BY <1>1, AlwaysInv, PTL
-----------------------------------------------------------------------------
(***************************************************************************)
(* The refinement: every step of a request is one of Ingestion's.          *)
(***************************************************************************)

\* No step changes what is asked, nor which levels are truncated.
LEMMA SameQuestion == [Next]_vars => UNCHANGED <<Asked, Complete>>
<1> SUFFICES ASSUME [Next]_vars PROVE UNCHANGED <<Asked, Complete>>
  OBVIOUS
<1>1. UNCHANGED request
  BY DEF Next, Handler, Refuse, IngestOne, IngestPrefix, Listed, Count, Lister,
         List, ListNothing, ListFails, Visit, RedisCli, CliEnds, Apply,
         CliDies, vars
<1> QED
  BY <1>1 DEF request, Asked, Wanted, Complete, TooDeep, Truncated

LEMMA HandlerAnswers ==
  ASSUME IInv, OkMeansIndexed', Handler
  PROVE  [Promise!Next]_(Promise!vars)
<1> USE DEF Promise!Next, Promise!vars, Promise!Answer, Promise!Adds, Answered,
            request
<1>1. UNCHANGED <<Asked, Complete>>
  BY SameQuestion DEF Next
<1>2. UNCHANGED <<limit, cli>> => UNCHANGED Sound
  BY <1>1 DEF Sound
<1>3. CASE Refuse
  BY <1>1, <1>2, <1>3 DEF Refuse
<1>4. CASE IngestOne
  <2>1. inserted = {} /\ Sound /\ Asked = {target} \cap Accepted
    BY <1>4 DEF IngestOne, IInv, Control, Sound, Asked
  <2> QED BY <1>1, <1>2, <1>4, <2>1 DEF IngestOne
<1>5. CASE IngestPrefix
  <2>1. UNCHANGED Sound
    BY <1>1, <1>5 DEF IngestPrefix, Sound, IInv, Control
  <2> QED BY <1>1, <1>5, <2>1 DEF IngestPrefix
<1>6. CASE Listed
  BY <1>1, <1>2, <1>6 DEF Listed
<1>7. CASE Count
  BY <1>1, <1>2, <1>7 DEF Count, OkMeansIndexed
<1> QED BY <1>3, <1>4, <1>5, <1>6, <1>7 DEF Handler

\* The root is listed once, first of all.
Rooted == Root \in listing => phase = "listing"

LEMMA RootIsNoChild == ASSUME NEW p \in Prefix PROVE Root \notin SubPrefixes(p)
<1> USE IndexerAssumption DEF IndexerAssumption
<1> DEFINE S == {q \in Prefix : Depth[q] > 0}
<1>1. S = Prefix
  <2>1. \A q \in S : SubPrefixes(q) \subseteq S
    BY DEF SubPrefixes
  <2>2. S \in SUBSET Prefix /\ Root \in S
    OBVIOUS
  <2> HIDE DEF S
  <2> QED BY <2>1, <2>2, ReachableAssumption DEF ReachableAssumption
<1> QED BY <1>1

LEMMA AlwaysRooted == Spec => []Rooted
<1>1. Init => Rooted
  BY DEF Init, Rooted
<1>2. IInv /\ Rooted /\ [Next]_vars => Rooted'
  <2> SUFFICES ASSUME IInv, Rooted, [Next]_vars PROVE Rooted'
    OBVIOUS
  <2> USE DEF Rooted
  <2>1. CASE Handler
    BY <2>1 DEF Handler, Refuse, IngestOne, IngestPrefix, Listed, Count, IInv,
                Control
  <2>2. ASSUME NEW p \in Prefix, List(p) PROVE Rooted'
    <3>1. \A page \in {Page[p], {}} : Root \notin page \cap Prefix
      BY RootIsNoChild, IndexerAssumption DEF SubPrefixes, IndexerAssumption
    <3> QED BY <2>2, <3>1 DEF List
  <2>3. CASE \E p \in Prefix : ListNothing(p) \/ ListFails(p)
    BY <2>3 DEF ListNothing, ListFails
  <2>4. CASE (\E o \in Object : Visit(o)) \/ RedisCli \/ CliDies
    BY <2>4 DEF Visit, RedisCli, CliEnds, Apply, CliDies
  <2>5. CASE UNCHANGED vars
    BY <2>5 DEF vars
  <2> QED BY <2>1, <2>2, <2>3, <2>4, <2>5 DEF Next, Lister
<1> QED BY <1>1, <1>2, AlwaysInv, PTL DEF Spec

\* Where S3 refuses to list the root the request panics, which answers it.
LEMMA ListerAnswers ==
  ASSUME Rooted, Lister PROVE [Promise!Next]_(Promise!vars)
<1> USE DEF Promise!Next, Promise!vars, Answered, request
<1>1. UNCHANGED <<Asked, Complete>>
  BY SameQuestion DEF Next
<1>2. UNCHANGED <<limit, cli, inserted>>
  BY DEF Lister, List, ListNothing, ListFails, Visit
<1>3. UNCHANGED phase \/ (phase = "listing" /\ phase' = "aborted")
  BY DEF Rooted, Lister, List, ListNothing, ListFails, Visit
<1> QED BY <1>1, <1>2, <1>3 DEF Sound, Promise!Answer

LEMMA CliInserts ==
  ASSUME IInv, RedisCli \/ CliDies
  PROVE  [Promise!Next]_(Promise!vars)
<1> USE DEF Promise!Next, Promise!vars, Answered, request
<1>1. UNCHANGED <<Asked, Complete>>
  BY SameQuestion DEF Next
<1>2. cli = "running" /\ Recursive /\ phase # "ok"
  BY DEF RedisCli, CliEnds, Apply, CliDies, IInv, Added, Single, Control
<1>3. UNCHANGED <<limit, phase>>
  BY DEF RedisCli, CliEnds, Apply, CliDies
<1>4. CASE CliEnds
  BY <1>1, <1>2, <1>3, <1>4 DEF CliEnds, Sound
<1>5. ASSUME NEW o \in Object, Apply(o) PROVE Promise!Insert
  <2>1. limit \in Nat /\ limit > 0 /\ o \in Wanted
    BY <1>2, <1>5 DEF Apply, IInv, TypeOK, Selected, Recursive
  <2>2. o \in Asked
    BY <2>1 DEF Asked
  <2> QED BY <1>1, <1>2, <1>3, <1>5, <2>2
          DEF Apply, Sound, Promise!Insert, Promise!Adds
<1>6. CASE CliDies
  <2>1. ~Sound'
    BY <1>2, <1>3, <1>6 DEF CliDies, Sound, Recursive
  <2> QED BY <1>1, <1>2, <1>3, <1>6, <2>1 DEF CliDies, Promise!CutShort
<1> QED BY <1>4, <1>5, <1>6 DEF RedisCli

\* To its client a request keeps Ingestion's promise, for every bucket and every
\* order of its goroutines and of redis-cli: one answer, and after one without an
\* error nothing is missing and nothing is added.
THEOREM RequestImplementsIngestion == Spec => ImplementsIngestion
<1>1. Init => Promise!Init
  <2> SUFFICES ASSUME Init PROVE Promise!Init
    OBVIOUS
  <2>1. Asked \subseteq Prefix \cup Object
    BY DEF Init, Asked, Wanted
  <2> QED BY <2>1 DEF Init, Promise!Init, Answered
<1>2. /\ IInv /\ Rooted /\ OkMeansIndexed' /\ [Next]_vars
      => [Promise!Next]_(Promise!vars)
  <2> SUFFICES ASSUME IInv, Rooted, OkMeansIndexed', [Next]_vars
               PROVE  [Promise!Next]_(Promise!vars)
    OBVIOUS
  <2>1. CASE UNCHANGED vars
    BY <2>1, SameQuestion DEF vars, request, Promise!vars, Sound
  <2> QED BY <2>1, HandlerAnswers, ListerAnswers, CliInserts DEF Next
<1> QED
  BY <1>1, <1>2, AlwaysInv, AlwaysRooted, OkIsIndexed, PTL
     DEF Spec, ImplementsIngestion, Promise!Spec
=============================================================================
